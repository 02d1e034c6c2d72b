-------------------------------- MODULE Text -------------------------------
(***************************************************************************)
(* Two algorithms on buffers of characters that the kernel rests on:       *)
(* str_split (common/string.c), which cuts paths, init file lines and      *)
(* addresses into tokens, and the numbers of vsprintf (common/printf.c).   *)
(* Each is stepped token by token, conversion by conversion, as the code   *)
(* does it, and compared with what it should give.                         *)
(***************************************************************************)
EXTENDS Integers, Sequences, SequencesExt

CONSTANTS
  Chars, MaxLen,       \* characters of the strings to split, and the bound of their length
  Delim, Dot,          \* the delimiter and '.'
  Conversions,         \* [pad, letter, value] a format may have; pad 0 is none
  MaxConversions,      \* bound
  BufSize              \* 512

VARIABLES
  input, rest, list, numtokens,    \* str_split; rest is NULL at the end; list is a token list
  call, buf, size, size_override, out

splitvars == <<input, rest, list, numtokens>>
printvars == <<call, buf, size, size_override, out>>
textvars == <<splitvars, printvars>>

NULL == <<"NULL">>

-----------------------------------------------------------------------------
(* strsep gives the characters up to the next delimiter, empty ones too. *)

EndOf(s) == LET n == CHOOSE n \in 0..Len(s) : (n = Len(s) \/ s[n + 1] = Delim) /\ \A i \in 1..n : s[i] # Delim IN n
Token(s) == SubSeq(s, 1, EndOf(s))
After(s) == IF EndOf(s) = Len(s) THEN NULL ELSE SubSeq(s, EndOf(s) + 2, Len(s))

IsDot(t) == t = <<Dot>>
IsDotDotPrefix(t) == Len(t) >= 2 /\ t[1] = Dot /\ t[2] = Dot     \* mutant: only the first two characters are compared
IsDotDot(t) == t = <<Dot, Dot>>

(* A token list: the tokens from the tail, which list_pop takes, and those a walk from the head
   meets. list_pop does not reset the head, so the walk is stuck at the token that left the list
   empty once. *)
list_create == [tokens |-> <<>>, walk |-> <<>>, stuck |-> FALSE]
list_push(l, t) == [l EXCEPT !.tokens = Append(@, t), !.walk = IF l.stuck THEN @ ELSE Append(@, t)]
list_pop(l) == [tokens |-> Front(l.tokens),
                walk   |-> IF l.stuck \/ Len(l.tokens) = 1 THEN l.walk ELSE Front(l.walk),
                stuck  |-> l.stuck \/ Len(l.tokens) = 1]
Parent(l) == IF l.tokens = <<>> THEN l ELSE list_pop(l)

SplitStart(s) == input = s /\ rest = s /\ list = list_create /\ numtokens = 0
str_split ==
  /\ rest # NULL /\ rest' = After(rest)
  /\ LET t == Token(rest) IN
     CASE IsDot(t)    -> UNCHANGED <<list, numtokens>>
       [] IsDotDot(t) -> list' = Parent(list) /\ UNCHANGED numtokens
       [] OTHER       -> list' = list_push(list, t) /\ numtokens' = numtokens + 1
  /\ UNCHANGED input

-----------------------------------------------------------------------------
(* vsprintf: one conversion of a number. The buffer is cleared once for each call, and a width
   stays for the conversions after it. A character is a digit, "-" or End, the NUL behind the text. *)

End == -1
Base(c) == IF c.letter = "x" THEN 16 ELSE 10
itoa[n \in Nat, base \in {10, 16}] ==
  IF n < base THEN <<n>> ELSE Append(itoa[n \div base, base], n % base)
Sign(c) == IF c.letter = "d" /\ c.value < 0 THEN <<"-">> ELSE <<>>
Magnitude(c) == IF c.value < 0 THEN -c.value ELSE c.value

PrintStart(c) ==
  /\ call = c /\ out = <<>>
  /\ buf = [i \in 0..BufSize - 1 |-> End] /\ size = 8 /\ size_override = FALSE

Written(b, digits) == [i \in DOMAIN b |-> IF i < Len(digits) THEN digits[i + 1] ELSE IF i = Len(digits) THEN End ELSE b[i]]
\* the digits go to the end of the width, zeros before them; what is behind stays
PaddedLate(b, len, width) == [i \in DOMAIN b |-> IF i \in width - len + 1..width THEN b[i - (width - len) - 1]
                                             ELSE IF i < width - len + 1 THEN 0 ELSE b[i]]     \* mutant: a place too far
Padded(b, len, width) == [i \in DOMAIN b |-> IF i \in width - len..width - 1 THEN b[i - (width - len)]
                                             ELSE IF i < width - len THEN 0 ELSE b[i]]
UpToEnd(b) == LET n == CHOOSE n \in DOMAIN b : b[n] = End /\ \A i \in 0..n - 1 : b[i] # End
              IN  [i \in 1..n |-> b[i - 1]]

vsprintf ==
  /\ Len(out) < Len(call)
  /\ LET c == call[Len(out) + 1]
         digits == itoa[Magnitude(c), Base(c)]
         override == size_override \/ c.pad # 0
         width == IF c.pad # 0 THEN c.pad ELSE IF override THEN size ELSE Len(digits)
         b == Written(buf, digits)
     IN  /\ size_override' = override /\ size' = width
         /\ buf' = IF c.letter \in {"x", "p", "d"} /\ Len(digits) < width THEN Padded(b, Len(digits), width) ELSE b
         /\ out' = Append(out, Sign(c) \o UpToEnd(buf'))
  /\ UNCHANGED call

-----------------------------------------------------------------------------
TextInit ==
  /\ \E s \in BoundedSeq(Chars, MaxLen) : SplitStart(s)
  /\ \E c \in BoundedSeq(Conversions, MaxConversions) : PrintStart(c)
TextNext == \/ str_split /\ UNCHANGED printvars
            \/ vsprintf /\ UNCHANGED splitvars
TextSpec == TextInit /\ [][TextNext]_textvars

-----------------------------------------------------------------------------
(* Properties. *)

(* The tokens that str_split leaves are those no ".." takes back, each ".." taking the nearest
   before it that is left, and one too many taking nothing; "." and ".." themselves are never among
   them; a walk from the head meets the same, unless the list was empty once after its first token;
   the count it reports is right unless something was taken back (str_split). *)
RECURSIVE AllTokens(_)
AllTokens(s) == IF s = NULL THEN <<>> ELSE <<Token(s)>> \o AllTokens(After(s))
Ordinary(t) == t \notin {<<Dot>>, <<Dot, Dot>>}
Count(s, from, to, Test(_)) == Len(SelectSeq(SubSeq(s, from, to), Test))
KeptBefore(s, n, i) ==
  /\ Ordinary(s[i])
  /\ \A k \in i + 1..n : Count(s, i + 1, k, LAMBDA t : t = <<Dot, Dot>>) <= Count(s, i + 1, k, Ordinary)
Kept(s, i) == KeptBefore(s, Len(s), i)
SplitResolves ==
  rest = NULL =>
    LET s == AllTokens(input)
        kept == SelectSeq([i \in 1..Len(s) |-> i], LAMBDA i : Kept(s, i))
        emptied == \E i \in 1..Len(s) : (\E k \in 1..i : Ordinary(s[k])) /\ \A k \in 1..i : ~KeptBefore(s, i, k)
    IN  /\ list.tokens = [k \in 1..Len(kept) |-> s[kept[k]]]
        /\ IF emptied THEN Len(list.walk) = 1 ELSE list.walk = list.tokens
        /\ Len(list.tokens) <= numtokens
        /\ numtokens = Len(SelectSeq(s, Ordinary))

(* Every number is printed with the digits of its value, padded with zeros to the width in force,
   which is the last one given in the call; unless something longer than that width was printed
   before it in the same call, whose end then follows it (vsprintf). *)
RECURSIVE Value(_, _)
Value(digits, base) == IF digits = <<>> THEN 0 ELSE Value(Front(digits), base) * base + Last(digits)
InForce(j) == LET given == {i \in 1..j : call[i].pad # 0}
            IN  IF given = {} \/ call[j].letter = "u" THEN 0 ELSE call[CHOOSE i \in given : \A k \in given : k <= i].pad
Body(j) == SubSeq(out[j], Len(Sign(call[j])) + 1, Len(out[j]))
NumbersPrinted ==
  \A j \in 1..Len(out) :
    (\A i \in 1..j - 1 : Len(Body(i)) <= InForce(j)) \/ InForce(j) = 0 =>
      /\ SubSeq(out[j], 1, Len(Sign(call[j]))) = Sign(call[j])
      /\ Value(Body(j), Base(call[j])) = Magnitude(call[j])
      /\ Len(Body(j)) >= InForce(j) /\ Len(Body(j)) >= 1
      /\ (Len(Body(j)) > InForce(j) /\ Len(Body(j)) > 1) => Body(j)[1] # 0
=============================================================================
