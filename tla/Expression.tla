----------------------------- MODULE Expression ----------------------------
(***************************************************************************)
(* The evaluation of trigger expressions once their functions are          *)
(* replaced by values (libs/zbxserver/expression.c, and compress_signs of  *)
(* libs/zbxcommon/str.c): parentheses are replaced by what they evaluate   *)
(* to, then the text is split at the operator with the lowest priority.    *)
(*                                                                         *)
(* A text is a sequence of tokens: numbers, operators, parentheses and the *)
(* N that compress_signs writes for the sign of a negative number.  Values *)
(* are fractions, exact but where the code prints a value with six digits. *)
(* Expressions grow one token at a time.                                   *)
(***************************************************************************)
EXTENDS Integers, SequencesExt

CONSTANTS
    Numbers,            \* numbers of the expressions: [value, suffix]
    Kilo,               \* what the suffix K stands for
    Error,
    MaxLength, MaxSuffixes  \* bounds: the tokens and the suffixes of an expression

VARIABLE expression

Operators == <<"|", "&", "=", "#", ">", "<", "+", "-", "*", "/">>    \* the lowest priority first

Signs == {"+", "-"}

Symbol(s) == [kind |-> s]
Number(fraction, suffix) == [kind |-> "number", value |-> fraction, suffix |-> suffix]

Kind(tokens, i) == IF i \in 1 .. Len(tokens) THEN tokens[i].kind ELSE "end"

RECURSIVE Gcd(_, _)
Gcd(a, b) == IF b = 0 THEN a ELSE Gcd(b, a % b)

Abs(n) == IF n < 0 THEN -n ELSE n

(* Fractions in lowest terms with a positive denominator.                  *)
Fraction(n, d) ==
    LET g == Gcd(Abs(n), Abs(d))
        s == IF d < 0 THEN -1 ELSE 1
    IN  [n |-> s * (n \div g), d |-> s * (d \div g)]

Whole(n) == [n |-> n, d |-> 1]
Truth(b) == IF b THEN Whole(1) ELSE Whole(0)
Negative(x) == [x EXCEPT !.n = -@]

Less(x, y) == x.n * y.d < y.n * x.d
Difference(x, y) == Fraction(x.n * y.d - y.n * x.d, x.d * y.d)

(* cmp_double: equal is what differs by less than 0.000001.                *)
Close(x, y) == LET z == Difference(x, y) IN Abs(z.n) <= (z.d - 1) \div 1000000

Apply(op, x, y) ==
    CASE op = "|" -> Truth(x = Whole(1) \/ y = Whole(1))
      [] op = "&" -> Truth(x = Whole(1) /\ y = Whole(1))
      [] op = "=" -> Truth(Close(x, y))
      [] op = "#" -> Truth(~Close(x, y))
      [] op = ">" -> Truth(Less(y, x))
      [] op = "<" -> Truth(Less(x, y))
      [] op = "+" -> Fraction(x.n * y.d + y.n * x.d, x.d * y.d)
      [] op = "-" -> Difference(x, y)
      [] op = "*" -> Fraction(x.n * y.n, x.d * y.d)
      [] op = "/" -> IF Close(y, Whole(0)) THEN Error ELSE Fraction(x.n * y.d, x.d * y.n)

-----------------------------------------------------------------------------
(* compress_signs: one sign of each run of signs, then no plus that is not *)
(* binary and an N for each minus.                                         *)
MergeSign(tokens, token) ==
    IF token.kind \in Signs /\ Kind(tokens, Len(tokens)) \in Signs
    THEN Append(Front(tokens), Symbol(IF token.kind = Last(tokens).kind THEN "+" ELSE "-"))
    ELSE Append(tokens, token)

(* A sign after a digit or a point is binary; a suffix is neither.         *)
IsDigit(tokens) == Kind(tokens, Len(tokens)) = "number" /\ ~Last(tokens).suffix

RewriteSign(tokens, token) ==
    CASE token.kind = "+" -> IF IsDigit(tokens) THEN Append(tokens, token) ELSE tokens
      [] token.kind = "-" -> IF IsDigit(tokens) THEN tokens \o <<Symbol("+"), Symbol("N")>>
                                                ELSE Append(tokens, Symbol("N"))
      [] OTHER -> Append(tokens, token)

(* Mutant: two signs in a row are not compressed.                          *)
compress_signsOnce(tokens) == FoldLeft(RewriteSign, <<>>, tokens)

compress_signs(tokens) == FoldLeft(RewriteSign, <<>>, FoldLeft(MergeSign, <<>>, tokens))

str2double(token) ==
    IF token.suffix THEN [token.value EXCEPT !.n = @ * Kilo] ELSE token.value

(* The first token of the operator with the lowest priority, 0 for none.   *)
FirstOf(tokens, op) == SelectInSeq(tokens, LAMBDA token : token.kind = op)

LowestIn(tokens) ==
    LET present == SelectSeq(Operators, LAMBDA op : FirstOf(tokens, op) > 0)
    IN  IF present = <<>> THEN 0 ELSE FirstOf(tokens, Head(present))

RECURSIVE evaluate_simple(_)
evaluate_simple(text) ==
    LET tokens == compress_signs(text)
        at == LowestIn(tokens)
    IN  IF Len(tokens) = 1 /\ Kind(tokens, 1) = "number" THEN str2double(tokens[1])
        ELSE IF Len(tokens) = 2 /\ Kind(tokens, 1) = "N" /\ Kind(tokens, 2) = "number"
        THEN Negative(str2double(tokens[2]))
        ELSE IF at = 0 THEN Error
        ELSE LET op == tokens[at].kind
                 value1 == evaluate_simple(SubSeq(tokens, 1, at - 1))
                 value2 == evaluate_simple(SubSeq(tokens, at + 1, Len(tokens)))
             IN  IF value1 = Error THEN Error
                 ELSE IF op = "|" /\ value1 = Whole(1) THEN value1
                 ELSE IF value2 = Error THEN Error
                 ELSE Apply(op, value1, value2)

(* The nearest multiple of 0.000001 to x, not negative: six digits of the  *)
(* quotient, one after the other, and the remainder.                       *)
Rounded(x) ==
    LET digits[k \in 0 .. 6] ==
            IF k = 0 THEN <<0, x.n % x.d>>
            ELSE LET rest == 10 * digits[k - 1][2]
                 IN  <<10 * digits[k - 1][1] + rest \div x.d, rest % x.d>>
        millionths == digits[6][1] + (IF 2 * digits[6][2] >= x.d THEN 1 ELSE 0)
        fraction == Fraction(millionths, 1000000)
    IN  [fraction EXCEPT !.n = @ + (x.n \div x.d) * fraction.d]

(* "%lf": six digits after the point, and a minus.                         *)
Printed(x) ==
    IF x.n < 0 THEN <<Symbol("-"), Number(Rounded(Negative(x)), FALSE)>>
               ELSE <<Number(Rounded(x), FALSE)>>

RECURSIVE evaluate(_)
evaluate(tokens) ==
    LET r == FirstOf(tokens, ")")
        l == SelectLastInSubSeq(tokens, 1, r, LAMBDA token : token.kind = "(")
        value == evaluate_simple(SubSeq(tokens, l + 1, r - 1))
    IN  IF r = 0 THEN evaluate_simple(tokens)
        ELSE IF l = 0 \/ value = Error THEN Error
        ELSE evaluate(SubSeq(tokens, 1, l - 1) \o Printed(value) \o SubSeq(tokens, r + 1, Len(tokens)))

-----------------------------------------------------------------------------
(* Expressions that users write.                                           *)
Count(tokens, kinds) == Cardinality({i \in 1 .. Len(tokens) : tokens[i].kind \in kinds})

Depth(tokens) == Count(tokens, {"("}) - Count(tokens, {")"})

AfterOperand == Kind(expression, Len(expression)) \in {"number", ")"}

Init == expression = <<>>

AddOperand ==
    /\ ~AfterOperand
    /\ \/ \E x \in Numbers : expression' = Append(expression, Number(Whole(x.value), x.suffix))
       \/ expression' = Append(expression, Symbol("("))
       \/ \E sign \in Signs : expression' = Append(expression, Symbol(sign))

AddOperator ==
    /\ AfterOperand
    /\ \/ \E i \in 1 .. Len(Operators) : expression' = Append(expression, Symbol(Operators[i]))
       \/ Depth(expression) > 0 /\ expression' = Append(expression, Symbol(")"))

SuffixCount(tokens) == Cardinality({i \in 1 .. Len(tokens) : tokens[i].kind = "number" /\ tokens[i].suffix})

Next ==
    /\ AddOperand \/ AddOperator
    /\ Len(expression') + Depth(expression') <= MaxLength
    /\ SuffixCount(expression') <= MaxSuffixes

Spec == Init /\ [][Next]_expression
-----------------------------------------------------------------------------
(* What an expression means: it is taken apart at the last of the          *)
(* operators with the lowest priority outside of all parentheses, and what *)
(* stands in parentheses counts to six digits after the point.             *)
UnaryAt(tokens, i) == Kind(tokens, i) \in Signs /\ Kind(tokens, i - 1) \notin {"number", ")"}

IndexOf(op) == CHOOSE i \in 1 .. Len(Operators) : Operators[i] = op

DepthAt(tokens, i) == Depth(SubSeq(tokens, 1, i - 1))

Binary(tokens) ==
    {i \in 1 .. Len(tokens) : /\ Contains(Operators, tokens[i].kind)
                              /\ ~UnaryAt(tokens, i)
                              /\ DepthAt(tokens, i) = 0}

RECURSIVE Meaning(_)
Meaning(tokens) ==
    LET priorities == {IndexOf(tokens[i].kind) : i \in Binary(tokens)}
        at == Max({i \in Binary(tokens) : IndexOf(tokens[i].kind) = Min(priorities)})
        value1 == Meaning(SubSeq(tokens, 1, at - 1))
        value2 == Meaning(SubSeq(tokens, at + 1, Len(tokens)))
        inner == Meaning(SubSeq(tokens, 2, Len(tokens) - 1))
        rounded == IF inner = Error THEN Error
                   ELSE IF inner.n < 0 THEN Negative(Rounded(Negative(inner))) ELSE Rounded(inner)
    IN  IF Binary(tokens) # {}
        THEN IF Error \in {value1, value2} THEN Error ELSE Apply(tokens[at].kind, value1, value2)
        ELSE CASE tokens[1].kind = "number" -> str2double(tokens[1])
               [] tokens[1].kind = "(" -> rounded
               [] tokens[1].kind = "+" -> Meaning(Tail(tokens))
               [] tokens[1].kind = "-" -> LET value == Meaning(Tail(tokens))
                                          IN  IF value = Error THEN Error ELSE Negative(value)

(* Expressions that are evaluated as they are read: of two equal operators *)
(* the code takes the first one apart first, so 8/4/2 is 8/(4/2), and a    *)
(* sign after a suffix is not binary, so 5K-1 is an error.                 *)
Plain(tokens) ==
    /\ \A op \in {"=", "#", ">", "<", "/"} : Count(tokens, {op}) <= 1
    /\ \A i \in 1 .. Len(tokens) - 1 : ~(tokens[i].kind = "number" /\ tokens[i].suffix /\ tokens[i + 1].kind \in Signs)

(* Taking the text apart and putting values back into it, with their sign, *)
(* gives every expression the value that it has as a formula in which each *)
(* value in parentheses is rounded to six digits, and nothing else is, so  *)
(* (1/2K)*2K is 0.999424; unless the formula has no value.                 *)
EvaluatesFormula ==
    AfterOperand /\ Depth(expression) = 0 /\ Plain(expression)
        => LET value == Meaning(expression) IN value = Error \/ evaluate(expression) = value
=============================================================================
