-------------------------------- MODULE MCUser --------------------------------
(***************************************************************************)
(* The terminal and the programs behind it for TLC: the keyboard driver, the*)
(* console's input ring, the screen, cprintf and printf; the shell's parser,*)
(* the shell at work, malloc and free, and grep.  A behaviour exercises the *)
(* part it starts with.                                                     *)
(***************************************************************************)
EXTENDS Integers, Sequences

VARIABLES part,
  down, caps, wire, shift, out, expect,                        \* keyboard
  buf, r, w, e, ilock, pc, n, target, killed,                  \* console
  crt, pos, panicked, tape, head, scrolled, puts,              \* screen
  fn, fmt, args, i, valist, state, lflag, text,                \* printf
  line, cmd, phase, st, at, fds, parent, short,                \* the shell
  m, given,                                                    \* malloc and free
  pattern, argv, gst, input, gbuf, gout, due, whole            \* grep

Keyboard == <<down, caps, wire, shift, out, expect>>
Input == <<buf, r, w, e, ilock, pc, n, target, killed>>
Screen == <<crt, pos, panicked, tape, head, scrolled, puts>>
Printing == <<fn, fmt, args, i, valist, state, lflag, text>>
Running == <<st, at, fds, parent, short>>
Shell == <<line, cmd, phase, Running>>
Heap == <<m, given>>
Grepping == <<pattern, argv, gst, input, gbuf, gout, due, whole>>
Terminal == <<Keyboard, Input, Screen, Printing>>
Programs == <<Shell, Heap, Grepping>>
vars == <<part, Terminal, Programs>>

\* One key of each kind, and both control keys, but one of a modifier at a time.
K == INSTANCE Kbd WITH
  Keys <- {"a", "1", "8pad", "up", "caps", "lshift", "lctl", "rctl"}, MaxWire <- 2

\* Two readers, a ring of three bytes, indices that wrap at six.
C == INSTANCE Console WITH
  Chars <- {"x", "NL", "EOT"}, NL <- "NL", EOT <- "EOT", None <- "none",
  Procs <- {"p1", "p2"}, INPUT_BUF <- 3, Wrap <- 6, MaxRead <- 4

\* Two columns, three rows, the cursor first at either end.
G == INSTANCE Cga WITH
  Glyphs <- {"a", "b"}, Newline <- "nl", Backspace <- "bs", COLS <- 2, ROWS <- 3,
  StartPos <- {0, 5}, MaxPuts <- 8

\* Integers of 3 and 5 bits, bases 3 and 4, arguments at the edges.
F == INSTANCE Printf WITH
  IntBits <- 3, LongBits <- 5, Ten <- 3, Sixteen <- 4, Slots <- {0, 3, 4, 16, 31},
  MaxFmt <- 4, Others <- {"c"}, out <- text

Pipelines == {<<"c", "|", "c", "|", "c">>, <<"y", "|", "h">>, <<"y", "|", "c", "|", "h">>,
              <<"(", "c", ";", "c", ")", "|", "c">>}
Jobs == {<<"c", ";", "c", "|", "h">>, <<"c", "&", ";", "h", "|", "c">>, <<"(", "c", "&", ")", ";", "h">>,
         <<"(", "c", "|", "c", "<", "f", ")", "<", "f">>, <<"c", ";", "(", "c", ";", "c", ")">>, <<"c", "(">>,
         <<"(", "c", "|", "c", ")", "&", ";", "c">>, <<"c", ";", "y", "|", "h", ";", "c">>}

\* Every line of up to five characters is parsed; the ones above are run.
P == INSTANCE ShParse WITH WordChars <- {"a"}, MAXARGS <- 3, MaxLine <- 5
R == INSTANCE ShRun WITH
  WordChars <- {"c", "h", "y", "f"}, MAXARGS <- 3, MaxLine <- 0,
  Commands <- Pipelines \cup Jobs, NPROC <- 8, MayFail <- TRUE

\* A heap of eight units that grows twice.
U == INSTANCE Umalloc WITH Chunk <- 4, HeapEnd <- 9, Units <- {1, 2, 3, 5}

\* Two files through a buffer that is no longer than one; every pattern on one file.
L == INSTANCE Grep WITH
  BUFSIZE <- 4, PatternChars <- {"a"}, MaxPattern <- 1, FileChars <- {"a", "b", "newline"},
  MaxFile <- 4, MaxFiles <- 2, st <- gst, buf <- gbuf, out <- gout
M == INSTANCE Grep WITH
  BUFSIZE <- 5, PatternChars <- {"^", "a", ".", "*", "$"}, MaxPattern <- 4,
  FileChars <- {"a", "b", "newline"}, MaxFile <- 3, MaxFiles <- 1,
  st <- gst, buf <- gbuf, out <- gout

ASSUME K!KbdAssumption /\ C!ConsoleAssumption

Init ==
  /\ part \in {"keys", "console", "screen", "printf", "parse", "run", "heap", "lines", "match"}
  /\ K!Init /\ C!Init
  /\ IF part = "screen" THEN TRUE ELSE pos = 0
  /\ G!Init
  /\ IF part = "printf" THEN F!Init
     ELSE /\ fn = "printf" /\ fmt = <<>> /\ args = <<>> /\ i = 1 /\ valist = 1
          /\ state = "text" /\ lflag = FALSE /\ text = <<>>
  /\ IF part = "run" THEN R!RunInit
     ELSE /\ IF part = "parse" THEN P!Init ELSE line = <<>> /\ cmd = P!Nil /\ phase = "read"
          /\ st = <<>> /\ at = <<>> /\ fds = <<>> /\ parent = <<>> /\ short = FALSE
  /\ U!Init
  /\ CASE part = "lines" -> L!Init
       [] part = "match" -> M!Init
       [] OTHER -> /\ pattern = <<>> /\ argv = <<>> /\ gst = "exit" /\ input = <<>>
                   /\ gbuf = <<>> /\ gout = <<>> /\ due = <<>> /\ whole = TRUE

\* Formats, screens, command lines and runs of grep come to an end; the rest goes on.
Next ==
  \/ part = "keys" /\ K!Next /\ UNCHANGED <<part, Input, Screen, Printing, Programs>>
  \/ part = "console" /\ C!Next /\ UNCHANGED <<part, Keyboard, Screen, Printing, Programs>>
  \/ part = "screen" /\ G!Next /\ UNCHANGED <<part, Keyboard, Input, Printing, Programs>>
  \/ part = "printf" /\ F!Next /\ UNCHANGED <<part, Keyboard, Input, Screen, Programs>>
  \/ part = "parse" /\ P!Next /\ UNCHANGED <<part, Running, Heap, Grepping, Terminal>>
  \/ part = "run" /\ R!RunNext /\ UNCHANGED <<part, Heap, Grepping, Terminal>>
  \/ part = "heap" /\ U!Next /\ UNCHANGED <<part, Shell, Grepping, Terminal>>
  \/ part = "lines" /\ L!Next /\ UNCHANGED <<part, Shell, Heap, Terminal>>
  \/ part = "match" /\ M!Next /\ UNCHANGED <<part, Shell, Heap, Terminal>>

Spec == Init /\ [][Next]_vars

--------------------------------------------------------------------------------
\* A key gives the character that the keys held call for (kbdgetc).
CharacterRight == part = "keys" => K!CharacterRight
\* The input ring implements the line discipline (consoleintr, consoleread).
LineSpec == C!LineSpec
\* The screen is a window of an endless tape (cgaputc).
ScreenIsTape == part = "screen" => G!ScreenIsTape
\* The output is what the format and the arguments say (cprintf, printf).
FormatObeyed == part = "printf" => F!FormatObeyed
\* parsecmd builds the one tree of the grammar, or panics where there is none.
ParsesGrammar == part = "parse" => P!ParsesGrammar
\* Programs start wired as the line says (runcmd).
ProgramsWired == part = "run" => R!ProgramsWired
\* Blocks in use and free blocks tile the heap (malloc, free).
HeapTiled == part = "heap" => U!HeapTiled
\* grep prints the lines the pattern denotes, once and in order (grep, match).
PrintsMatching ==
  CASE part = "lines" -> L!PrintsMatching [] part = "match" -> M!PrintsMatching [] OTHER -> TRUE
================================================================================
