--------------------------------- MODULE Grep ---------------------------------
(***************************************************************************)
(* user/grep.c: the matcher of patterns with ^ . * and $, and the loop that *)
(* cuts what read returns into lines.  The matcher backtracks; its          *)
(* reference follows the set of positions a pattern can have reached.       *)
(* read returns any part of what is left, as pipes and the console do.      *)
(***************************************************************************)
EXTENDS Integers, Sequences, FiniteSets

CONSTANTS
  BUFSIZE,    \* sizeof(buf)
  PatternChars, MaxPattern,   \* bounds: patterns
  FileChars, MaxFile,         \* bounds: contents of a file
  MaxFiles                    \* bound: files

NL == "newline"
Strings(chars, k) == UNION {[1..n -> chars] : n \in 0..k}
Drop(s, k) == SubSeq(s, k + 1, Len(s))

--------------------------------------------------------------------------------
(* The matcher *)

RECURSIVE matchhere(_, _), matchstar(_, _, _), matchany(_, _)

matchhere(re, text) ==
  CASE re = <<>> -> TRUE
    [] Len(re) > 1 /\ re[2] = "*" -> matchstar(re[1], Drop(re, 2), text)
    [] re = <<"$">> -> text = <<>>
    [] OTHER -> /\ text # <<>> /\ re[1] \in {".", text[1]}
                /\ matchhere(Drop(re, 1), Drop(text, 1))

matchstar(c, re, text) ==
  \/ matchhere(re, text)
  \/ text # <<>> /\ c \in {".", text[1]} /\ matchstar(c, re, Drop(text, 1))

\* The loop of match: at every suffix, the empty one included.
matchany(re, text) ==
  matchhere(re, text) \/ (text # <<>> /\ matchany(re, Drop(text, 1)))

match(re, text) ==
  IF re # <<>> /\ re[1] = "^" THEN matchhere(Drop(re, 1), text)
  ELSE matchany(re, text)

--------------------------------------------------------------------------------
(* The reader *)

VARIABLES
  pattern,
  argv,     \* the files still to be searched
  st,       \* "open", "read", "exit"
  input,    \* what is left of the open file
  buf,      \* buf[0..m)
  out,      \* the lines written
  due,      \* the files opened, which only the properties read
  whole     \* no read has left the buffer without a newline

vars == <<pattern, argv, st, input, buf, out, due, whole>>

Newlines(s) == SelectSeq([i \in 1..Len(s) |-> i], LAMBDA i : s[i] = NL)
Lines(s) == LET at == Newlines(s) IN
  [k \in 1..Len(at) |-> SubSeq(s, IF k = 1 THEN 1 ELSE at[k - 1] + 1, at[k] - 1)]
Tail1(s) == LET at == Newlines(s) IN Drop(s, at[Len(at)])
Matching(s) == SelectSeq(Lines(s), LAMBDA line : match(pattern, line))

Init ==
  /\ pattern \in Strings(PatternChars, MaxPattern)
  /\ argv \in UNION {[1..n -> Strings(FileChars, MaxFile)] : n \in 1..MaxFiles}
  /\ st = "open" /\ input = <<>> /\ buf = <<>> /\ out = <<>>
  /\ due = <<>> /\ whole = TRUE

Open ==
  /\ st = "open" /\ argv # <<>>
  /\ st' = "read" /\ input' = Head(argv) /\ argv' = Tail(argv)
  /\ buf' = <<>> /\ due' = Append(due, Head(argv))
  /\ UNCHANGED <<pattern, out, whole>>

OpenFails ==
  /\ st = "open" /\ argv # <<>>
  /\ st' = "exit" /\ UNCHANGED <<pattern, argv, input, buf, out, due, whole>>

AllDone ==
  /\ st = "open" /\ argv = <<>>
  /\ st' = "exit" /\ UNCHANGED <<pattern, argv, input, buf, out, due, whole>>

KeptNone(full) == <<>>                      \* mutant: drops the start of the next line
Kept(full) == IF Newlines(full) = <<>> THEN <<>> ELSE Tail1(full)

\* One iteration: read k bytes behind what was kept, print, keep the last part.
Read(k) ==
  /\ st = "read" /\ k <= Len(input) /\ k <= BUFSIZE - Len(buf) - 1
  /\ LET full == buf \o SubSeq(input, 1, k) IN
       /\ out' = out \o Matching(full)
       /\ buf' = Kept(full)
       /\ whole' = (whole /\ Newlines(full) # <<>>)
  /\ input' = Drop(input, k)
  /\ UNCHANGED <<pattern, argv, st, due>>

\* read returns 0: at the end of the file, or asked for nothing.
ReadNothing ==
  /\ st = "read" /\ (input = <<>> \/ Len(buf) + 1 >= BUFSIZE)
  /\ st' = "open" /\ input' = <<>> /\ buf' = <<>>
  /\ UNCHANGED <<pattern, argv, out, due, whole>>

Next == Open \/ OpenFails \/ AllDone \/ (\E k \in 1..BUFSIZE : Read(k)) \/ ReadNothing
Spec == Init /\ [][Next]_vars

--------------------------------------------------------------------------------
(* Properties *)

\* What a pattern means: characters, each possibly starred, between anchors.
RECURSIVE Items(_)
Items(re) ==
  CASE re = <<>> -> <<>>
    [] Len(re) > 1 /\ re[2] = "*" -> <<[c |-> re[1], star |-> TRUE]>> \o Items(Drop(re, 2))
    [] OTHER -> <<[c |-> re[1], star |-> FALSE]>> \o Items(Drop(re, 1))

Step(item, text, S) ==
  LET fits(i) == i \in 1..Len(text) /\ item.c \in {".", text[i]} IN
  IF item.star
  THEN {j \in 1..(Len(text) + 1) : \E i \in S : i <= j /\ \A k \in i..(j - 1) : fits(k)}
  ELSE {i + 1 : i \in {j \in S : fits(j)}}

Denotes(re, text) ==
  LET anchored == re # <<>> /\ re[1] = "^"
      body == Items(IF anchored THEN Drop(re, 1) ELSE re)
      toEnd == body # <<>> /\ body[Len(body)] = [c |-> "$", star |-> FALSE]
      items == IF toEnd THEN SubSeq(body, 1, Len(body) - 1) ELSE body
      reached[n \in 0..Len(items)] ==
        IF n = 0 THEN (IF anchored THEN {1} ELSE 1..(Len(text) + 1))
                 ELSE Step(items[n], text, reached[n - 1])
  IN  IF toEnd THEN Len(text) + 1 \in reached[Len(items)] ELSE reached[Len(items)] # {}

\* However read cuts the files up, grep prints the lines of every file that the
\* pattern denotes ("Only supports ^ . * $ operators"), each once and in order,
\* as long as each read completes a line: nothing of a line that spans two reads
\* is lost or printed twice, and the backtracking finds exactly these lines.
PrintsMatching ==
  LET denoted[n \in 0..Len(due)] ==
        IF n = 0 THEN <<>>
        ELSE denoted[n - 1] \o SelectSeq(Lines(due[n]), LAMBDA line : Denotes(pattern, line))
  IN  st = "exit" /\ whole => out = denoted[Len(due)]
================================================================================
