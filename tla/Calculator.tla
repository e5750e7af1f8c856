----------------------------- MODULE Calculator -----------------------------
(***************************************************************************)
(* The calculator behind the command calc: CalcLexer splits the text into  *)
(* tokens, makepolishform turns them into Polish form with a stack of      *)
(* operators, calculate evaluates that form with the same stack.  Queue    *)
(* and stack are the global arrays q and sk of MAXTOKENS tokens, whose     *)
(* put() and get() test nothing.                                           *)
(*                                                                         *)
(* Of the text the model keeps the lexemes, of a number the way it is      *)
(* written.  The value of an operation is its syntax tree, so that every   *)
(* wrong grouping shows, whatever numbers it is tried with.                *)
(***************************************************************************)
EXTENDS Integers, Sequences, FiniteSets

CONSTANTS
  Lexemes,     \* signs, and numbers by the way they are written: base and digits
  Inputs,      \* what may be typed: the text, and the tree it stands for
  MAXTOKENS,   \* the length of the arrays
  CutOff(_)    \* d - cast_int(d) of a tree's worth d: "none" (less than
               \* 0.00000049 either way), "negative", or "positive"

Arithmetic == {"+", "-", "*", "/", "%", "^"}
Ignored == {"~", "!", ":", "=", "<", ">"}  \* operators calculate passes over
Operators == Arithmetic \cup Ignored

Index == 0 .. MAXTOKENS - 1
Number(value) == [type |-> "number", value |-> value]
Sign(type, str) == [type |-> type, value |-> str]
NoToken == Sign("none", "")

VARIABLES
  input,       \* the member of Inputs that is worked on
  text,        \* the lexemes the lexer has not read
  tkn,         \* t, the token makepolishform is at
  step,        \* "polish", "drain", "calculate", "answered"; "astray" once
               \* a token before the array decides how it goes on
  q, inptr, outptr,  \* the queue: a, inptr, outptr
  sk, top,     \* the stack: a, inptr
  answer

vars == <<input, text, tkn, step, q, inptr, outptr, sk, top, answer>>

Init ==
  /\ input \in Inputs /\ text = input.text
  /\ tkn = NoToken /\ step = "polish"
  /\ q = [i \in Index |-> NoToken] /\ inptr = 0 /\ outptr = 0
  /\ sk = [i \in Index |-> NoToken] /\ top = 0
  /\ answer = <<>>

-----------------------------------------------------------------------------
(* CalcLexer                                                               *)

getpriority(t) ==
  CASE t.value \in {"^", "**"} -> 5
    [] t.value \in {"*", "/", "%"} -> 6
    [] t.value \in {"+", "-"} -> 7
    [] t.value = ":" -> 16
    [] t.value = "(" -> 100
    [] OTHER -> 0

getRomanVal == [i |-> 1, v |-> 5, x |-> 10, l |-> 50, c |-> 100, d |-> 500, m |-> 1000]

\* A letter counts against the total when a larger one follows.
roman_to_f(s) ==
  LET val[i \in 0 .. Len(s)] == IF i = 0 THEN 0 ELSE getRomanVal[s[i]]
      d[i \in 0 .. Len(s)] ==
        IF i = 0 THEN 0
        ELSE IF val[i - 1] < val[i] THEN d[i - 1] - val[i - 1] ELSE d[i - 1] + val[i - 1]
  IN d[Len(s)] + val[Len(s)]

\* bin_string_to_f, hex_string_to_f and oct_string_to_f, from the last digit on.
string_to_f(base, s) ==
  LET d[i \in 0 .. Len(s)] == IF i = 0 THEN 0 ELSE d[i - 1] + s[Len(s) - i + 1] * base^(i - 1)
  IN d[Len(s)]

\* atof(&c) and atoi(&c) read on behind c: there may be a digit.
BehindC(digit) == {digit, 10 * digit + 7}

\* The values a number may be read as.
Values(lexeme) ==
  LET s == lexeme.written IN
  CASE lexeme.base = "float" ->
         IF Len(s) = 1 THEN BehindC(s[1]) ELSE {string_to_f(10, s)}
    [] lexeme.base = "b" -> {string_to_f(2, s)}
    [] lexeme.base = "x" -> {string_to_f(16, s)}
    [] lexeme.base = "o" ->
         {string_to_f(8, [i \in DOMAIN s |-> IF i \in W THEN 10 * s[i] + 7 ELSE s[i]]) :
            W \in SUBSET DOMAIN s}
    [] lexeme.base = "r" -> {roman_to_f(s)}

getNextToken(lexeme) ==
  CASE lexeme.base = "sign" ->
         {Sign(CASE lexeme.written = "(" -> "open" [] lexeme.written = ")" -> "close"
                 [] lexeme.written \in Operators -> "operator" [] OTHER -> "unknown", lexeme.written)}
    [] OTHER -> {Number(<<value>>) : value \in Values(lexeme)}

-----------------------------------------------------------------------------
(* What a text stands for                                                  *)

\* Where a sign is among the first n lexemes, and how often.
Places(s, n, str) == {i \in 1 .. n : s[i].base = "sign" /\ s[i].written = str}
Count(s, n, str) == Cardinality(Places(s, n, str))
Matched(s) == \A n \in 0 .. Len(s) : Count(s, n, ")") <= Count(s, n, "(")
Depth(s, n) == Count(s, n, "(") - Count(s, n, ")")

IsArithmetic(l) == l.base = "sign" /\ l.written \in Arithmetic
EndsOperand(l) == l.base # "sign" \/ l.written = ")"

\* The texts that mean something: operands and operators in turn, maybe a sign in
\* front of all, every parenthesis with its other half, and only literals the
\* lexer has one value for.
Expression(s) ==
  /\ Len(s) > 0 /\ Matched(s) /\ Depth(s, Len(s)) = 0
  /\ s[1].base = "sign" => s[1].written \in {"(", "+", "-"}
  /\ \A i \in 2 .. Len(s) : EndsOperand(s[i - 1]) <=> s[i].base = "sign" /\ s[i].written # "("
  /\ EndsOperand(s[Len(s)])
  /\ \A i \in 1 .. Len(s) :
       IF s[i].base = "sign" THEN s[i].written \in Arithmetic \cup {"(", ")"}
                             ELSE Values(s[i]) # {} /\ \A x, y \in Values(s[i]) : x = y

\* How tight an operator binds, 1 the tightest; the operators among the lexemes
\* a to b that are in no parentheses; the last of the loosest of these.
Rank(op) == CASE op = "^" -> 1 [] op \in {"*", "/", "%"} -> 2 [] OTHER -> 3
Outer(s, a, b) == {k \in a .. b : IsArithmetic(s[k]) /\ Depth(s, k) = Depth(s, a - 1)}
Before(s, j, k) ==
  \/ Rank(s[j].written) < Rank(s[k].written)
  \/ Rank(s[j].written) = Rank(s[k].written) /\ j < k
Roots(s, a, b) == {k \in Outer(s, a, b) : \A j \in Outer(s, a, b) \ {k} : Before(s, j, k)}
Root(s, a, b) == CHOOSE k \in Roots(s, a, b) : TRUE
Worth(lexeme) == CHOOSE value \in Values(lexeme) : TRUE

\* The trees of the l lexemes from a on: nothing is 0, a number its value, two
\* parentheses what is between them.
Readings(s) ==
  LET v[l \in 0 .. Len(s)] ==
        [a \in 1 .. Len(s) + 1 - l |->
           LET b == a + l - 1  k == Root(s, a, b) IN
           CASE l = 0 -> <<0>>
             [] Roots(s, a, b) # {} -> <<s[k].written, v[k - a][a], v[b - k][k + 1]>>
             [] l = 1 /\ Roots(s, a, b) = {} -> <<Worth(s[a])>>
             [] OTHER -> v[l - 2][a + 1]]
  IN v
Reading(s, a, b) == Readings(s)[b - a + 1][a]

\* A line of IRC has at most 510 characters, and the arrays 1000 tokens. A text
\* that comes with a tree is an expression, and the tree is what it stands for.
ASSUME CalculatorAssumption ==
  /\ MAXTOKENS \in Nat
  /\ \A i \in Inputs : \E n \in 0 .. MAXTOKENS : i.text \in [1 .. n -> Lexemes]
  /\ \A i \in Inputs : i.tree # <<>> =>
       Expression(i.text) /\ i.tree = Reading(i.text, 1, Len(i.text))

-----------------------------------------------------------------------------
(* IRCSession::makepolishform                                              *)

Polish == step = "polish"
seek == sk[top - 1]

\* Faulty: q.put(sk.seek()) (TypeOK).
UnloadSeek ==
  /\ q' = [q EXCEPT ![inptr] = seek] /\ inptr' = inptr + 1
  /\ UNCHANGED <<sk, top, outptr>>

\* q.put(sk.get())
Unload ==
  /\ q' = [q EXCEPT ![inptr] = seek] /\ inptr' = inptr + 1
  /\ top' = top - 1
  /\ UNCHANGED <<sk, outptr>>

Push(t) ==
  /\ top >= 0
  /\ sk' = [sk EXCEPT ![top] = t] /\ top' = top + 1
  /\ UNCHANGED <<q, inptr, outptr>>

Take ==
  /\ Polish /\ tkn.type = "none" /\ text # <<>>
  /\ tkn' \in getNextToken(Head(text))
  /\ text' = Tail(text)
  /\ UNCHANGED <<input, step, q, inptr, outptr, sk, top, answer>>

Done == tkn' = NoToken /\ UNCHANGED <<input, text, step, answer>>

TakeNumber ==
  /\ Polish /\ tkn.type = "number"
  /\ q' = [q EXCEPT ![inptr] = tkn] /\ inptr' = inptr + 1
  /\ UNCHANGED <<outptr, sk, top>>
  /\ Done

TakeOpen ==
  /\ Polish /\ tkn.type = "open"
  /\ Push(tkn)
  /\ Done

\* Faulty: the loop does not stop at ( (NoUnderflow).
CloseUnloadsAll ==
  /\ Polish /\ tkn.type = "close"
  /\ top > 0
  /\ Unload
  /\ UNCHANGED <<input, text, tkn, step, answer>>

\* The loop of `)'.
CloseUnloads ==
  /\ Polish /\ tkn.type = "close"
  /\ top > 0 /\ seek.type # "open"
  /\ Unload
  /\ UNCHANGED <<input, text, tkn, step, answer>>

\* sk.get() after the loop, whether or not there is anything on the stack: each
\* ) without a ( takes the index one further down.
CloseEnds ==
  /\ Polish /\ tkn.type = "close"
  /\ ~(top > 0 /\ seek.type # "open")
  /\ top' = top - 1
  /\ UNCHANGED <<q, inptr, outptr, sk>>
  /\ Done

\* Before the array there is no token: to copy one from there may end the bot,
\* and what a token put there destroys the model does not follow.
GoAstray ==
  /\ Polish
  /\ \/ tkn.type = "close" /\ top <= 0
     \/ tkn.type = "open" /\ top < 0
     \/ tkn.type = "operator" /\ top < 0
  /\ step' = "astray"
  /\ UNCHANGED <<input, text, tkn, q, inptr, outptr, sk, top, answer>>

\* Faulty: groups to the right (AnswerIsExpected).
LooserRight(t) == top > 0 /\ getpriority(seek) < getpriority(t)

\* The operator on the stack has its operands complete.
Looser(t) == top > 0 /\ getpriority(seek) <= getpriority(t)

OperatorUnloads ==
  /\ Polish /\ tkn.type = "operator"
  /\ Looser(tkn)
  /\ Unload
  /\ UNCHANGED <<input, text, tkn, step, answer>>

OperatorStays ==
  /\ Polish /\ tkn.type = "operator"
  /\ ~Looser(tkn)
  /\ Push(tkn)
  /\ Done

Skip ==
  /\ Polish /\ tkn.type = "unknown"
  /\ UNCHANGED <<q, inptr, outptr, sk, top>>
  /\ Done

Terminate ==
  /\ Polish /\ tkn.type = "none" /\ text = <<>>
  /\ step' = "drain"
  /\ UNCHANGED <<input, text, tkn, q, inptr, outptr, sk, top, answer>>

\* What is left on the stack, open parentheses included.
Drain ==
  /\ step = "drain" /\ top > 0
  /\ Unload
  /\ UNCHANGED <<input, text, tkn, step, answer>>

\* The end of makepolishform, and sk = TokenStack() of calculate.
Calculate ==
  /\ step = "drain" /\ top <= 0
  /\ step' = "calculate"
  /\ sk' = [i \in Index |-> NoToken] /\ top' = 0
  /\ UNCHANGED <<input, text, tkn, q, inptr, outptr, answer>>

-----------------------------------------------------------------------------
(* IRCSession::calculate                                                   *)

Evaluating == step = "calculate" /\ inptr > outptr
Get == outptr' = outptr + 1 /\ UNCHANGED <<input, text, tkn, step, q, inptr, answer>>

GetNumber ==
  /\ Evaluating /\ q[outptr].type = "number"
  /\ sk' = [sk EXCEPT ![top] = q[outptr]] /\ top' = top + 1
  /\ Get

\* An operand that is not there is Token's 0.
Below(n) == IF n > 0 /\ sk[n - 1].type = "number" THEN n - 1 ELSE n
Operand(n) == IF n > 0 /\ sk[n - 1].type = "number" THEN sk[n - 1].value ELSE <<0>>

GetOperator ==
  /\ Evaluating /\ q[outptr].type = "operator" /\ q[outptr].value \in Arithmetic
  /\ LET o2 == Operand(top)  o1 == Operand(Below(top))  n == Below(Below(top))
     IN /\ sk' = [sk EXCEPT ![n] = Number(<<q[outptr].value, o1, o2>>)]
        /\ top' = n + 1
  /\ Get

PassOver ==
  /\ Evaluating /\ q[outptr].type # "number"
  /\ ~(q[outptr].type = "operator" /\ q[outptr].value \in Arithmetic)
  /\ UNCHANGED <<sk, top>>
  /\ Get

\* d-cast_int(d) < 0.00000049 is true of every negative fraction too: then what
\* is said is the integer it is cut to, (10-11)/2 is answered 0.
Answer ==
  /\ step = "calculate" /\ inptr <= outptr
  /\ LET d == Operand(top) IN
     answer' = [of |-> d, said |-> IF CutOff(d) = "positive" THEN "%f" ELSE "%d"]
  /\ top' = Below(top)
  /\ step' = "answered"
  /\ UNCHANGED <<input, text, tkn, q, inptr, outptr, sk>>

makepolishform ==
  \/ Take \/ TakeNumber \/ TakeOpen \/ CloseUnloads \/ CloseEnds
  \/ OperatorUnloads \/ OperatorStays \/ GoAstray \/ Skip \/ Terminate \/ Drain \/ Calculate

calculate == GetNumber \/ GetOperator \/ PassOver \/ Answer

Next == makepolishform \/ calculate

Spec == Init /\ [][Next]_vars

-----------------------------------------------------------------------------
(* Properties                                                              *)

Steps == {"polish", "drain", "calculate", "answered", "astray"}

\* The tokens of the text fill neither array: put() writes nothing behind its
\* end, whatever the order of operators and parentheses. How far before its
\* beginning the index of the stack gets is a matter of how many ) there are.
TypeOK ==
  /\ step \in Steps
  /\ inptr \in 0 .. MAXTOKENS /\ outptr \in 0 .. inptr
  /\ top \in Int /\ top <= MAXTOKENS

\* makepolishform takes a token from an empty stack only for a ) that no (
\* precedes, although it does so without a look.
NoUnderflow == Matched(input.text) => top >= 0

\* The answer to a well-formed expression is computed from what it says:
\* operators of one priority group to the left (^ too), parentheses go first, a
\* sign in front of all is a subtraction from 0, a literal has the value of its
\* base. A positive fraction is said with its digits, a whole number without
\* any. A negative fraction loses its digits: there the answer is wrong.
AnswerIsExpected ==
  step = "answered" /\ input.tree # <<>> =>
    /\ answer.of = input.tree
    /\ answer.said = "%f" <=> CutOff(input.tree) = "positive"
=============================================================================
