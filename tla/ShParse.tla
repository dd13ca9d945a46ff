------------------------------ MODULE ShParse ------------------------------
(***************************************************************************)
(* The shell's parser (user/sh.c), by recursive descent over the characters*)
(* of a line, and nulterminate, which ends the words in the line itself.   *)
(* It is checked against the grammar it implements, given as the set of    *)
(* all trees that a sequence of tokens has.                                *)
(*                                                                         *)
(* A word of the tree is a pair of positions q, eq in the line, as argv and*)
(* eargv are. A panic of the shell ends the parse with the tree Panic.     *)
(***************************************************************************)
EXTENDS Integers, Sequences, SequencesExt

CONSTANTS
  WordChars,   \* the characters that words are made of
  MAXARGS,
  MaxLine      \* bound of the model: characters of a line

VARIABLES line, cmd, phase

NUL == "nul"
whitespace == {" "}
symbols == {"<", "|", ">", "&", ";", "(", ")"}

Node(type, left, right) == [type |-> type, left |-> left, right |-> right]
Nil == [type |-> "NIL"]
Panic == [type |-> "PANIC"]
execcmd(argv) == [type |-> "EXEC", argv |-> argv]
redircmd(sub, file, tok) ==
  [type |-> "REDIR", left |-> sub, file |-> file, tok |-> tok, fd |-> IF tok = "<" THEN 0 ELSE 1]
pipecmd(left, right) == Node("PIPE", left, right)
listcmd(left, right) == Node("LIST", left, right)
backcmd(sub) == Node("BACK", sub, Nil)

\* Each redirection is wrapped around what was parsed before it.
RECURSIVE Redirected(_, _)
Redirected(sub, redirs) ==
  IF redirs = <<>> THEN sub
  ELSE Redirected(redircmd(sub, redirs[1].file, redirs[1].tok), Tail(redirs))

-----------------------------------------------------------------------------
(* Tokens *)

es == Len(line) + 1
At(s) == IF s = es THEN NUL ELSE line[s]

\* The first place from s on whose character is not in a set.
Past(s, chars) ==
  CHOOSE t \in s..es : At(t) \notin chars /\ \A u \in s..t - 1 : At(u) \in chars

Skip(s) == Past(s, whitespace)

WordEnd(s) == Past(s, WordChars)

TokenAt(q) ==
  CASE At(q) \notin symbols \cup {NUL} -> "a"
    [] At(q) = ">" /\ At(q + 1) = ">" -> "+"
    [] OTHER -> At(q)

TokenEnd(q, tok) ==
  CASE tok = "a" -> WordEnd(q)
    [] tok = "+" -> q + 2
    [] tok = NUL -> q
    [] OTHER -> q + 1

Token(q, tok, eq) == [tok |-> tok, q |-> q, eq |-> eq, s |-> Skip(eq)]
TokenFrom(q, tok) == Token(q, tok, TokenEnd(q, tok))
gettoken(from) == TokenFrom(Skip(from), TokenAt(Skip(from)))

peek(s, toks) == At(Skip(s)) \in toks

-----------------------------------------------------------------------------
(* The recursive descent: each operator returns a tree and where it got to *)

Got(tree, s) == [cmd |-> tree, s |-> s]

\* parseredirs, with the redirections that it adds as a list.
RECURSIVE parseredirs(_, _)

Redir(redirs, tok, file) ==
  IF file.tok # "a" THEN [ok |-> FALSE]
  ELSE parseredirs(Append(redirs, [tok |-> tok, file |-> <<file.q, file.eq>>]), file.s)

RedirFrom(redirs, op) == Redir(redirs, op.tok, gettoken(op.s))

parseredirs(redirs, s) ==
  IF peek(s, {"<", ">"}) THEN RedirFrom(redirs, gettoken(s))
  ELSE [ok |-> TRUE, redirs |-> redirs, s |-> Skip(s)]

\* Mutant of TooMany: argv is filled to its end.
TooManyLate(argc) == argc > MAXARGS

TooMany(argc) == argc >= MAXARGS

\* The loop of parseexec.
RECURSIVE ExecLoop(_, _, _)

Argument(argv, t, more) ==
  IF t.tok # "a" \/ TooMany(Len(argv) + 1) \/ ~more.ok THEN Got(Panic, t.q)
  ELSE ExecLoop(Append(argv, <<t.q, t.eq>>), more.redirs, more.s)

ExecToken(argv, redirs, t) ==
  IF t.tok = NUL THEN Got(Redirected(execcmd(argv), redirs), t.q)
  ELSE Argument(argv, t, parseredirs(redirs, t.s))

ExecLoop(argv, redirs, s) ==
  IF peek(s, {"|", ")", "&", ";"}) THEN Got(Redirected(execcmd(argv), redirs), Skip(s))
  ELSE ExecToken(argv, redirs, gettoken(s))

RECURSIVE parseline(_)

Enclosed(inner, redirs) ==
  IF inner.cmd = Panic \/ ~peek(inner.s, {")"}) \/ ~redirs.ok THEN Got(Panic, inner.s)
  ELSE Got(Redirected(inner.cmd, redirs.redirs), redirs.s)

BlockRest(inner) == Enclosed(inner, parseredirs(<<>>, gettoken(inner.s).s))

parseblock(s) == BlockRest(parseline(gettoken(s).s))

ExecRest(redirs, s) ==
  IF redirs.ok THEN ExecLoop(<<>>, redirs.redirs, redirs.s) ELSE Got(Panic, s)

parseexec(s) ==
  IF peek(s, {"("}) THEN parseblock(s) ELSE ExecRest(parseredirs(<<>>, s), s)

\* A tree over two commands, if the right one was parsed.
Joined(tree, right) == Got(IF right.cmd = Panic THEN Panic ELSE tree, right.s)

RECURSIVE parsepipe(_)

Piped(left, right) == Joined(pipecmd(left.cmd, right.cmd), right)

PipeRest(left) ==
  IF left.cmd = Panic \/ ~peek(left.s, {"|"}) THEN left
  ELSE Piped(left, parsepipe(gettoken(left.s).s))

parsepipe(s) == PipeRest(parseexec(s))

RECURSIVE Background(_)
Background(r) ==
  IF r.cmd # Panic /\ peek(r.s, {"&"}) THEN Background(Got(backcmd(r.cmd), gettoken(r.s).s)) ELSE r

Listed(left, right) == Joined(listcmd(left.cmd, right.cmd), right)

ListRest(left) ==
  IF left.cmd = Panic \/ ~peek(left.s, {";"}) THEN left
  ELSE Listed(left, parseline(gettoken(left.s).s))

parseline(s) == ListRest(Background(parsepipe(s)))

Whole(r) == IF r.cmd # Panic /\ Skip(r.s) = es THEN r.cmd ELSE Panic
parsecmd == Whole(parseline(1))

\* The words of a tree, and so the places that nulterminate overwrites.
RECURSIVE Words(_)
Words(c) ==
  CASE c.type = "EXEC" -> ToSet(c.argv)
    [] c.type = "REDIR" -> Words(c.left) \cup {c.file}
    [] c.type = "BACK" -> Words(c.left)
    [] c.type \in {"PIPE", "LIST"} -> Words(c.left) \cup Words(c.right)

Ends(c) == {w[2] : w \in Words(c)}

nulterminate(c) == [s \in 1..es |-> IF s \in Ends(c) THEN NUL ELSE At(s)]
-----------------------------------------------------------------------------

Init ==
  /\ line \in UNION {[1..n -> WordChars \cup whitespace \cup symbols] : n \in 0..MaxLine}
  /\ cmd = Nil /\ phase = "read"

Parse ==
  /\ phase = "read"
  /\ cmd' = parsecmd
  /\ phase' = IF cmd' = Panic THEN "panic" ELSE "parsed"
  /\ UNCHANGED line

Terminate ==
  /\ phase = "parsed"
  /\ line' = nulterminate(cmd)
  /\ phase' = "done"
  /\ UNCHANGED cmd

Next == Parse \/ Terminate

Spec == Init /\ [][Next]_<<line, cmd, phase>>
-----------------------------------------------------------------------------
(* The grammar *)

Ops == {"<", ">", "+"}

\* The tokens of the line from s on: as long as they can be.
RECURSIVE Lex(_)
Lex(s) ==
  CASE s = es -> <<>>
    [] s < es /\ At(s) \in whitespace -> Lex(s + 1)
    [] s < es /\ At(s) \in WordChars ->
         LET e == CHOOSE e \in s + 1..es : At(e) \notin WordChars /\ \A u \in s..e - 1 : At(u) \in WordChars
         IN <<[tok |-> "a", word |-> <<s, e>>]>> \o Lex(e)
    [] s + 1 < es /\ At(s) = ">" /\ At(s + 1) = ">" -> <<[tok |-> "+"]>> \o Lex(s + 2)
    [] OTHER -> <<[tok |-> At(s)]>> \o Lex(s + 1)

IsFile(t, k) == k > 1 /\ t[k - 1].tok \in Ops
Simple(t) ==
  \A k \in DOMAIN t : \/ t[k].tok = "a"
                      \/ t[k].tok \in Ops /\ k < Len(t) /\ t[k + 1].tok = "a"
Pick(t, files) ==
  SelectSeq([k \in DOMAIN t |-> k], LAMBDA k : t[k].tok = "a" /\ IsFile(t, k) = files)
Args(t) == [j \in DOMAIN Pick(t, FALSE) |-> t[Pick(t, FALSE)[j]].word]
Redirs(t) ==
  LET ks == Pick(t, TRUE) IN [j \in DOMAIN ks |-> [tok |-> t[ks[j] - 1].tok, file |-> t[ks[j]].word]]

RECURSIVE LineTrees(_), BackTrees(_), PipeTrees(_)

\* Words and redirections, or a line in parentheses before redirections.
ExecTrees(t) ==
  LET Rest(i) == SubSeq(t, i + 1, Len(t))
      close == {i \in DOMAIN t : t[1].tok = "(" /\ t[i].tok = ")" /\ Simple(Rest(i)) /\ Args(Rest(i)) = <<>>}
  IN (IF Simple(t) /\ Len(Args(t)) < MAXARGS THEN {Redirected(execcmd(Args(t)), Redirs(t))} ELSE {})
     \cup UNION {{Redirected(c, Redirs(Rest(i))) : c \in LineTrees(SubSeq(t, 2, i - 1))} : i \in close}

\* What stands on the two sides of a token.
Split(t, tok, Left(_), Right(_), Join(_, _)) ==
  UNION {{Join(l, r) : l \in Left(SubSeq(t, 1, i - 1)), r \in Right(SubSeq(t, i + 1, Len(t)))} :
           i \in {i \in DOMAIN t : t[i].tok = tok}}

PipeTrees(t) == ExecTrees(t) \cup Split(t, "|", ExecTrees, PipeTrees, pipecmd)
BackTrees(t) ==
  PipeTrees(t) \cup IF t # <<>> /\ Last(t).tok = "&" THEN {backcmd(c) : c \in BackTrees(Front(t))} ELSE {}
LineTrees(t) == BackTrees(t) \cup Split(t, ";", BackTrees, LineTrees, listcmd)

\* parsecmd finds the one tree that the grammar gives a line, and panics exactly
\* when there is none (or a command has MAXARGS words): the lookahead of one
\* character is enough, and nothing of the line is left over or read twice.
\* After nulterminate each word of the tree ends at its own zero, although the
\* zeros take the place of characters that separate words or are operators.
ParsesGrammar ==
  /\ phase = "parsed" => LineTrees(Lex(1)) = {cmd}
  /\ phase = "panic" => LineTrees(Lex(1)) = {}
  /\ phase = "done" => \A w \in Words(cmd) : \A s \in w[1]..w[2] : line[s] = NUL <=> s = w[2]
=============================================================================
