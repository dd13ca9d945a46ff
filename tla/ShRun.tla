------------------------------- MODULE ShRun -------------------------------
(***************************************************************************)
(* The shell at work (main, fork1 and runcmd of user/sh.c): the tree that  *)
(* parsecmd builds is walked by processes that fork, wire pipes to their   *)
(* descriptors, become programs and wait for each other.                   *)
(*                                                                         *)
(* A process is at a place of the tree, a sequence of "l" and "r". A pipe  *)
(* is named by the place of its PIPE node. A process's own system calls    *)
(* between two that others notice are one step: the closes and dups of a   *)
(* pipe's child, or an open behind a close. fork and pipe may fail for     *)
(* want of memory or slots, open for want of the file. Of the kernel there *)
(* is what the shell sees; Proc, Ftable and Pipe have the rest.            *)
(*                                                                         *)
(* A program is known by the first letter of its name. "c" and "h" end in  *)
(* the end: they write little, and a read of the duplicate of a pipe's end *)
(* is refused, see Pipe. "y" writes more than a pipe holds: as nobody can  *)
(* read, that ends with an error if no other descriptor is left, and else  *)
(* in a sleep that a close does not end. Any other name ends the process.  *)
(***************************************************************************)
EXTENDS ShParse

CONSTANTS
  Commands,        \* the lines typed
  NPROC,           \* processes 0..NPROC - 1; Shell is the one in main
  MayFail          \* may fork and pipe fail?

VARIABLES
  st,              \* process |-> what it does
  at,              \* process |-> its place in the tree
  fds,             \* process |-> its open descriptors |-> what they are
  parent,          \* process |-> the process that waits for it
  short            \* ghost: a fork or a pipe has failed

vars == <<line, cmd, phase, st, at, fds, parent, short>>
state == <<st, at, fds, parent, short>>

Procs == 0..NPROC - 1
Shell == 0
Console == [i \in {0, 1, 2} |-> <<"console">>]
NoFds == [i \in {} |-> <<>>]

RECURSIVE Sub(_, _)
Sub(c, path) ==
  IF path = <<>> THEN c ELSE Sub(IF Head(path) = "l" THEN c.left ELSE c.right, Tail(path))

Here(p) == Sub(cmd, at[p])

RunInit ==
  /\ line \in Commands /\ cmd = Nil /\ phase = "read"
  /\ st = [p \in Procs |-> IF p = Shell THEN "main" ELSE "free"]
  /\ at = [p \in Procs |-> <<>>]
  /\ fds = [p \in Procs |-> IF p = Shell THEN Console ELSE NoFds]
  /\ parent = [p \in Procs |-> p] /\ short = FALSE

-----------------------------------------------------------------------------
(* The system calls, as the shell uses them *)

Open(p, d) == d \in DOMAIN fds[p]
\* The reference count of the pipe that a descriptor leads to.
Ref(place) == Cardinality({u \in Procs \X (0..4) :
                             Open(u[1], u[2]) /\ fds[u[1]][u[2]] \in {"read", "write"} \X {place}})

\* fork1: the first free process becomes a child at a place of the tree, with
\* the parent's descriptors; or the panic of fork1 ends the process.
Fork(p, place, first, then) ==
  \/ \E q \in Procs :
       /\ st[q] = "free" /\ \A o \in 0..q - 1 : st[o] # "free"
       /\ st' = [st EXCEPT ![q] = first, ![p] = then]
       /\ at' = [at EXCEPT ![q] = place]
       /\ fds' = [fds EXCEPT ![q] = fds[p]]
       /\ parent' = [parent EXCEPT ![q] = p]
       /\ UNCHANGED short
  \/ /\ MayFail
     /\ st' = [st EXCEPT ![p] = "exit"]
     /\ short' = TRUE
     /\ UNCHANGED <<at, fds, parent>>

\* exit closes the descriptors and gives the children to init, which reaps them.
Exit(p) ==
  /\ st[p] = "exit"
  /\ fds' = [fds EXCEPT ![p] = NoFds]
  /\ st' = [q \in Procs |-> CASE q = p -> IF parent[p] = p THEN "free" ELSE "zombie"
                              [] q # p /\ parent[q] = p /\ st[q] = "zombie" -> "free"
                              [] OTHER -> st[q]]
  /\ parent' = [q \in Procs |-> IF parent[q] = p THEN q ELSE parent[q]]
  /\ UNCHANGED <<line, cmd, phase, at, short>>

\* wait returns when a child has ended, or at once if there is none.
Wait(p, then) ==
  \/ \E q \in Procs \ {p} :
       /\ parent[q] = p /\ st[q] = "zombie"
       /\ st' = [st EXCEPT ![q] = "free", ![p] = then]
       /\ parent' = [parent EXCEPT ![q] = q]
  \/ /\ \A q \in Procs \ {p} : parent[q] # p
     /\ st' = [st EXCEPT ![p] = then]
     /\ UNCHANGED parent

-----------------------------------------------------------------------------
(* main *)

\* The child parses the line, but in memory of its own: Parse is a step before
\* the fork here.
ParseLine == Parse /\ UNCHANGED state

MainFork ==
  /\ st[Shell] = "main" /\ phase \in {"parsed", "panic"}
  /\ Fork(Shell, <<>>, "parse", "mainwait")
  /\ phase' = IF short' THEN "gone" ELSE "running"
  /\ UNCHANGED <<line, cmd>>

MainWait ==
  /\ st[Shell] = "mainwait"
  /\ Wait(Shell, "main")
  /\ phase' = "returned"
  /\ UNCHANGED <<line, cmd, at, fds, short>>

ChildParse(p) ==
  /\ st[p] = "parse"
  /\ st' = [st EXCEPT ![p] = IF cmd = Panic THEN "exit" ELSE "run"]
  /\ UNCHANGED <<line, cmd, phase, at, fds, parent, short>>

-----------------------------------------------------------------------------
(* runcmd *)

Program(c) == line[c.argv[1][1]]

RunExec(p) ==
  /\ st[p] = "run" /\ Here(p).type = "EXEC"
  /\ st' = [st EXCEPT ![p] = IF Here(p).argv = <<>> \/ Program(Here(p)) \notin {"c", "y", "h"}
                             THEN "exit" ELSE "program"]
  /\ UNCHANGED <<line, cmd, phase, at, fds, parent, short>>

\* sys_open knows O_WRONLY and O_CREATE, but not the two together.
OpenSucceeds(tok) == tok = "<"

\* The descriptor is closed and the file, if it opens, takes its place. One
\* that is to be read may not be there.
RunRedir(p) ==
  LET c == Here(p) IN
  /\ st[p] = "run" /\ c.type = "REDIR"
  /\ \/ /\ OpenSucceeds(c.tok)
        /\ fds' = [fds EXCEPT ![p] = (c.fd :> <<"file", c.file[1]>>) @@ @]
        /\ at' = [at EXCEPT ![p] = Append(@, "l")]
        /\ UNCHANGED st
     \/ /\ c.tok = "<" \/ ~OpenSucceeds(c.tok)
        /\ st' = [st EXCEPT ![p] = "exit"]
        /\ UNCHANGED <<at, fds>>
  /\ UNCHANGED <<line, cmd, phase, parent, short>>

RunList(p) ==
  /\ st[p] = "run" /\ Here(p).type = "LIST"
  /\ Fork(p, Append(at[p], "l"), "run", "listwait")
  /\ UNCHANGED <<line, cmd, phase>>

ListWait(p) ==
  /\ st[p] = "listwait"
  /\ Wait(p, "run")
  /\ at' = [at EXCEPT ![p] = Append(@, "r")]
  /\ UNCHANGED <<line, cmd, phase, fds, short>>

\* pipe(p): the two ends are the descriptors 3 and 4.
RunPipe(p) ==
  /\ st[p] = "run" /\ Here(p).type = "PIPE"
  /\ \/ /\ st' = [st EXCEPT ![p] = "pipeleft"]
        /\ fds' = [fds EXCEPT ![p] = (3 :> <<"read", at[p]>>) @@ (4 :> <<"write", at[p]>>) @@ @]
        /\ UNCHANGED short
     \/ /\ MayFail
        /\ st' = [st EXCEPT ![p] = "exit"] /\ short' = TRUE
        /\ UNCHANGED fds
  /\ UNCHANGED <<line, cmd, phase, at, parent>>

RunPipeLeft(p) ==
  /\ st[p] = "pipeleft"
  /\ Fork(p, Append(at[p], "l"), "leftchild", "piperight")
  /\ UNCHANGED <<line, cmd, phase>>

RunPipeRight(p) ==
  /\ st[p] = "piperight"
  /\ Fork(p, Append(at[p], "r"), "rightchild", "pipeclose")
  /\ UNCHANGED <<line, cmd, phase>>

\* Mutants of Wired: an end that a child does not use stays open.
WiredRead(f, d, end) ==
  [i \in DOMAIN f \ {4} |-> IF i = d THEN f[end] ELSE f[i]]

\* close(d); dup(p[...]); close(p[0]); close(p[1])
Wired(f, d, end) == [i \in DOMAIN f \ {3, 4} |-> IF i = d THEN f[end] ELSE f[i]]

PipeChild(p) ==
  /\ st[p] \in {"leftchild", "rightchild"}
  /\ fds' = [fds EXCEPT ![p] = IF st[p] = "leftchild" THEN Wired(@, 1, 4) ELSE Wired(@, 0, 3)]
  /\ st' = [st EXCEPT ![p] = "run"]
  /\ UNCHANGED <<line, cmd, phase, at, parent, short>>

RunPipeClose(p) ==
  /\ st[p] = "pipeclose"
  /\ fds' = [fds EXCEPT ![p] = [i \in DOMAIN @ \ {3, 4} |-> @[i]]]
  /\ st' = [st EXCEPT ![p] = "wait1"]
  /\ UNCHANGED <<line, cmd, phase, at, parent, short>>

PipeWait(p) ==
  /\ st[p] \in {"wait1", "wait2"}
  /\ Wait(p, IF st[p] = "wait1" THEN "wait2" ELSE "exit")
  /\ UNCHANGED <<line, cmd, phase, at, fds, short>>

RunBack(p) ==
  /\ st[p] = "run" /\ Here(p).type = "BACK"
  /\ Fork(p, Append(at[p], "l"), "run", "exit")
  /\ UNCHANGED <<line, cmd, phase>>

\* A program ends.
ProgramEnds(p) ==
  /\ st[p] = "program"
  /\ Program(Here(p)) = "y" /\ fds[p][1][1] = "write" => Ref(fds[p][1][2]) = 1
  /\ st' = [st EXCEPT ![p] = "exit"]
  /\ UNCHANGED <<line, cmd, phase, at, fds, parent, short>>

\* A program fills the pipe and sleeps.
ProgramStuck(p) ==
  /\ st[p] = "program"
  /\ Program(Here(p)) = "y" /\ fds[p][1][1] = "write" /\ Ref(fds[p][1][2]) > 1
  /\ st' = [st EXCEPT ![p] = "stuck"]
  /\ UNCHANGED <<line, cmd, phase, at, fds, parent, short>>

Step(p) ==
  \/ Exit(p) \/ ChildParse(p) \/ RunExec(p) \/ RunRedir(p) \/ RunList(p) \/ ListWait(p)
  \/ RunPipe(p) \/ RunPipeLeft(p) \/ RunPipeRight(p) \/ PipeChild(p) \/ RunPipeClose(p)
  \/ PipeWait(p) \/ RunBack(p) \/ ProgramEnds(p) \/ ProgramStuck(p)

RunNext == ParseLine \/ MainFork \/ MainWait \/ \E p \in Procs : Step(p)

-----------------------------------------------------------------------------
(* Properties *)

\* What stands at a place of the tree reads from and writes to.
RECURSIVE Wiring(_, _, _, _)
Wiring(path, done, in, out) ==
  LET c == Sub(cmd, done)
      next == Append(done, Head(path))
  IN CASE path = <<>> -> <<in, out>>
       [] path # <<>> /\ c.type = "PIPE" ->
            IF Head(path) = "l" THEN Wiring(Tail(path), next, in, <<"write", done>>)
            ELSE Wiring(Tail(path), next, <<"read", done>>, out)
       [] path # <<>> /\ c.type = "REDIR" ->
            IF c.fd = 0 THEN Wiring(Tail(path), next, <<"file", c.file[1]>>, out)
            ELSE Wiring(Tail(path), next, in, <<"file", c.file[1]>>)
       [] OTHER -> Wiring(Tail(path), next, in, out)

\* A program starts with its input and output connected as the line says,
\* through all the pipes and redirections around it, and with no other
\* descriptor open.
ProgramsWired ==
  \A p \in Procs :
    st[p] = "program" =>
      /\ DOMAIN fds[p] = {0, 1, 2}
      /\ <<fds[p][0], fds[p][1]>> = Wiring(at[p], <<>>, <<"console">>, <<"console">>)
=============================================================================
