---------------------------- MODULE MCCalculator ----------------------------
(***************************************************************************)
(* Expressions for the calculator, printed from their syntax trees, and    *)
(* texts that are none. CalculatorAssumption is a check of its own here:   *)
(* Reading finds in each text the tree it was printed from.                *)
(***************************************************************************)
EXTENDS Calculator

CONSTANTS Signs, Longest

S(str) == [base |-> "sign", written |-> str]
Literal(base, digits) == [base |-> base, written |-> digits]

\* Literals of every base and what they are worth; of those the lexer reads
\* on behind there is no telling.
Literals == {
  [lexeme |-> Literal("float", <<1, 2>>), worth |-> 12],
  [lexeme |-> Literal("b", <<1, 0>>), worth |-> 2],
  [lexeme |-> Literal("x", <<15, 1>>), worth |-> 241],
  [lexeme |-> Literal("r", <<"m", "c", "m", "x", "c", "i", "x">>), worth |-> 1999]}
Unsure == {Literal("float", <<3>>), Literal("o", <<1, 7>>)}

Leaf(i) == [text |-> <<i.lexeme>>, tree |-> <<i.worth>>, op |-> "number"]
Two == Leaf(CHOOSE i \in Literals : i.worth = 2)

Loose == [o \in {"^", "*", "/", "%", "+", "-", "number"} |->
            CASE o = "number" -> 0 [] o = "^" -> 1 [] o \in {"*", "/", "%"} -> 2 [] OTHER -> 3]
InParentheses(e) == <<S("(")>> \o e.text \o <<S(")")>>

\* l op r with the parentheses it needs, and with all.
Written(op, l, r) ==
  LET left == IF Loose[l.op] <= Loose[op] THEN {l.text, InParentheses(l)} ELSE {InParentheses(l)}
      right == IF Loose[r.op] < Loose[op] THEN {r.text, InParentheses(r)} ELSE {InParentheses(r)}
  IN {[text |-> a \o <<S(op)>> \o b, tree |-> <<op, l.tree, r.tree>>, op |-> op] :
        a \in left, b \in right}

RECURSIVE Expressions(_)
Expressions(operands) ==
  IF operands = 1 THEN {Two}
  ELSE UNION {UNION {Written(op, l, r) : op \in Signs,
                 l \in Expressions(n), r \in Expressions(operands - n)} : n \in 1 .. operands - 1}

\* Every pair of literals, a sign in front, and up to four operands.
Printed ==
  UNION {Written("-", Leaf(i), Leaf(j)) : i, j \in Literals}
  \cup {[text |-> <<S("-")>> \o e.text, tree |-> <<"-", <<0>>, e.tree>>, op |-> "-"] :
          e \in {f \in Expressions(2) : f.op \notin {"+", "-"}}}
  \cup UNION {Expressions(n) : n \in 1 .. 4}

\* Texts without a meaning, unmatched parentheses and unsure literals among them.
MCLexemes == {S(str) : str \in Signs \cup {"(", ")", "=", "a"}} \cup {i.lexeme : i \in Literals} \cup Unsure
Anything == UNION {[1 .. n -> {S("("), S(")"), S("-"), S("="), S("a"), Literal("float", <<3>>), Literal("o", <<1, 7>>)}] : n \in 0 .. 3}

\* What a tree is worth, as a fraction: 1/0 is infinite, 0/0 no number. An
\* exponent that is no integer occurs on top of all and on a 2 only: that is a
\* root of 2 or infinite, and behind its integer there is something positive.
Fraction(n, d) == IF d < 0 THEN [n |-> -n, d |-> -d] ELSE [n |-> n, d |-> d]
Power(x, y) ==
  CASE y.d = 0 \/ y.n % y.d # 0 -> Fraction(1, 2)
    [] y.n = 0 -> Fraction(1, 1)
    [] y.n > 0 -> Fraction(x.n ^ (y.n \div y.d), x.d ^ (y.n \div y.d))
    [] OTHER -> Fraction(x.d ^ (-y.n \div y.d), x.n ^ (-y.n \div y.d))

RECURSIVE Worths(_)
Worths(tree) ==
  IF Len(tree) = 1 THEN Fraction(tree[1], 1)
  ELSE LET x == Worths(tree[2])  y == Worths(tree[3]) IN
       CASE tree[1] = "-" -> Fraction(x.n * y.d - y.n * x.d, x.d * y.d)
         [] tree[1] = "/" -> Fraction(x.n * y.d, x.d * y.n)
         [] tree[1] = "^" -> Power(x, y)

MCCutOff(tree) ==
  LET x == Worths(tree) IN
  CASE x.d # 0 /\ x.n % x.d = 0 -> "none"
    [] (x.d = 0 \/ x.n % x.d # 0) /\ x.n < 0 -> "negative"
    [] OTHER -> "positive"

MCInputs ==
  {[text |-> e.text, tree |-> e.tree] : e \in {f \in Printed : Len(f.text) <= Longest}}
  \cup {[text |-> t, tree |-> <<>>] : t \in Anything}
=============================================================================
