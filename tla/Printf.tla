------------------------------- MODULE Printf -------------------------------
(***************************************************************************)
(* Formatted output: the kernel's cprintf (kernel/console.c) and the       *)
(* programs' printf (user/printf.c), two readings of the same formats, run *)
(* on every format up to a length and compared with what a format means.   *)
(*                                                                         *)
(* Integers have IntBits and LongBits instead of 32 and 64. An argument is *)
(* a slot of LongBits, of which va_arg takes as much as the type asks for. *)
(* A string is one token, and the bases are Ten and Sixteen, so that small *)
(* integers have several digits (the case of hexadecimal is left out).     *)
(***************************************************************************)
EXTENDS Integers, Sequences

CONSTANTS
  IntBits, LongBits, Ten, Sixteen,
  Slots,             \* arguments, out of 0..2^LongBits - 1
  MaxFmt,            \* bound of the model: characters of the format
  Others             \* characters that are no directive

VARIABLES fn, fmt, args, i, valist, state, lflag, out

vars == <<fn, fmt, args, i, valist, state, lflag, out>>

Alphabet == {"%", "d", "l", "x", "s"} \cup Others
Signed(x, bits) == IF x >= 2^(bits - 1) THEN x - 2^bits ELSE x
AsInt(slot) == Signed(slot % 2^IntBits, IntBits)
AsLong(slot) == Signed(slot, LongBits)

-----------------------------------------------------------------------------
(* printint and printint64 *)

digits == <<"0", "1", "2", "3">>

\* The do ... while loop over x % base, put out backwards.
RECURSIVE Digits(_, _)
Digits(x, base) ==
  (IF x < base THEN <<>> ELSE Digits(x \div base, base)) \o <<digits[(x % base) + 1]>>

\* Mutant of Magnitude: the smallest number is negated as an int.
MagnitudeInt(xx, neg, bits) == IF neg THEN (-xx) % 2^(bits - 1) ELSE xx % 2^bits

\* x, unsigned: the negation wraps around.
Magnitude(xx, neg, bits) == (IF neg THEN -xx ELSE xx) % 2^bits

Number(xx, base, sign, bits) ==
  LET neg == sign /\ xx < 0
  IN (IF neg THEN <<"-">> ELSE <<>>) \o Digits(Magnitude(xx, neg, bits), base)

Printint(slot, base, sign) == Number(AsInt(slot), base, sign, IntBits)

\* The kernel's printint64 takes 64 bits, the programs' one an int that it
\* negates before it widens it.
KernelPrintint64(slot, base, sign) == Number(AsLong(slot), base, sign, LongBits)

UserPrintint64(slot, base, sign) ==
  LET xx == AsInt(slot)
      neg == sign /\ xx < 0
      x == (IF neg THEN AsInt(-xx) ELSE xx) % 2^LongBits
  IN (IF neg THEN <<"-">> ELSE <<>>) \o Digits(x, base)

PrintArg(c, l, slot) ==
  LET base == IF c = "d" THEN Ten ELSE Sixteen
      sign == c = "d"
  IN CASE c = "s" -> IF slot = 0 THEN <<"(null)">> ELSE <<"string">>
       [] c # "s" /\ ~l -> Printint(slot, base, sign)
       [] OTHER -> IF fn = "cprintf" THEN KernelPrintint64(slot, base, sign)
                   ELSE UserPrintint64(slot, base, sign)

-----------------------------------------------------------------------------
(* The loops over the format *)

\* A caller passes enough arguments: a conversion takes two characters.
Init ==
  /\ fn \in {"cprintf", "printf"}
  /\ fmt \in UNION {[1..n -> Alphabet] : n \in 1..MaxFmt}
  /\ args \in [1..MaxFmt \div 2 -> Slots]
  /\ i = 1 /\ valist = 1 /\ state = "text" /\ lflag = FALSE /\ out = <<>>

Text ==
  /\ state = "text" /\ i <= Len(fmt)
  /\ IF fmt[i] = "%" THEN state' = "percent" /\ lflag' = FALSE /\ UNCHANGED out
     ELSE out' = Append(out, fmt[i]) /\ UNCHANGED <<state, lflag>>
  /\ i' = i + 1
  /\ UNCHANGED <<fn, fmt, args, valist>>

\* l: cprintf toggles lflag, printf sets it.
Long ==
  /\ state = "percent" /\ i <= Len(fmt) /\ fmt[i] = "l"
  /\ lflag' = (fn = "printf" \/ ~lflag)
  /\ i' = i + 1
  /\ UNCHANGED <<fn, fmt, args, valist, state, out>>

Directive ==
  /\ state = "percent" /\ i <= Len(fmt) /\ fmt[i] # "l"
  /\ out' = out \o CASE fmt[i] = "%" -> <<"%">>
                     [] fmt[i] \in {"d", "x", "s"} -> PrintArg(fmt[i], lflag, args[valist])
                     [] OTHER -> <<"%", fmt[i]>>
  /\ valist' = valist + IF fmt[i] \in {"d", "x", "s"} THEN 1 ELSE 0
  /\ state' = "text"
  /\ i' = i + 1
  /\ UNCHANGED <<fn, fmt, args, lflag>>

Next == Text \/ Long \/ Directive

Spec == Init /\ [][Next]_vars

-----------------------------------------------------------------------------
(* What a format means *)

RECURSIVE ValueOf(_, _)
ValueOf(text, base) ==
  IF text = <<>> THEN 0
  ELSE ValueOf(SubSeq(text, 1, Len(text) - 1), base) * base
         + (CHOOSE d \in 0..base - 1 : digits[d + 1] = text[Len(text)])

\* A number in a base: its digits without leading zeros, behind its sign.
Denotes(text, number, base) ==
  LET minus == text[1] = "-"
      ds == IF minus THEN Tail(text) ELSE text
  IN /\ minus = (number < 0) /\ ds # <<>>
     /\ \A j \in DOMAIN ds : \E d \in 1..base : ds[j] = digits[d]
     /\ ValueOf(ds, base) = (IF minus THEN -number ELSE number)
     /\ ds[1] = "0" => Len(ds) = 1

\* What a conversion of an argument is to print. The parameter of printf's
\* printint64 is an int, so its long numbers are those of an int.
Says(text, c, long, slot) ==
  LET int == fn = "printf" \/ ~long
      number == IF int THEN AsInt(slot) ELSE AsLong(slot)
      bits == number % 2^(IF long THEN LongBits ELSE IntBits)
  IN CASE c = "s" -> text = <<IF slot = 0 THEN "(null)" ELSE "string">>
       [] c = "d" -> Denotes(text, number, Ten)
       [] c = "x" -> Denotes(text, bits, Sixteen)

\* The text t is what the format says from its n-th character on, with the
\* arguments from the k-th on.
RECURSIVE Means(_, _, _)
Means(t, n, k) ==
  LET c == CHOOSE m \in n + 1..Len(fmt) + 1 :
             /\ \A j \in n + 1..m - 1 : fmt[j] = "l"
             /\ m > Len(fmt) \/ fmt[m] # "l"
      ls == c - n - 1
      long == IF fn = "printf" THEN ls > 0 ELSE ls % 2 = 1
      Starts(u) == Len(t) >= Len(u) /\ SubSeq(t, 1, Len(u)) = u
      After(u) == SubSeq(t, Len(u) + 1, Len(t))
      Literal(u, m) == Starts(u) /\ Means(After(u), m, k)
  IN CASE n > Len(fmt) -> t = <<>>
       [] n <= Len(fmt) /\ fmt[n] # "%" -> Literal(<<fmt[n]>>, n + 1)
       [] n <= Len(fmt) /\ fmt[n] = "%" /\ c > Len(fmt) -> t = <<>>
       [] OTHER -> CASE fmt[c] = "%" -> Literal(<<"%">>, c + 1)
                     [] fmt[c] \in {"d", "x", "s"} ->
                          \E m \in 1..Len(t) :
                            /\ Says(SubSeq(t, 1, m), fmt[c], long, args[k])
                            /\ Means(SubSeq(t, m + 1, Len(t)), c + 1, k + 1)
                     [] OTHER -> Literal(<<"%", fmt[c]>>, c + 1)

\* printf's printint64 negates the smallest int before it widens it.
SmallestLong ==
  /\ fn = "printf" /\ \E n \in DOMAIN fmt : fmt[n] = "l"
  /\ \E k \in DOMAIN args : AsInt(args[k]) = -(2^(IntBits - 1))

\* What is printed is what the format says: text as it stands, %% as one, each
\* argument in turn as the number that it is, the smallest one included, an
\* unknown directive echoed, nothing for a percent sign at the end.
FormatObeyed == i > Len(fmt) /\ ~SmallestLong => Means(out, 1, 1)
=============================================================================
