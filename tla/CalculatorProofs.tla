-------------------------- MODULE CalculatorProofs --------------------------
(***************************************************************************)
(* The arrays of the calculator never overflow, whatever the text, as long *)
(* as it has no more than MAXTOKENS tokens; the stack is never taken from  *)
(* when it is empty, as long as no ) comes before its (; and the answer to *)
(* an expression is that of the tree it stands for, but for the digits of  *)
(* a negative fraction.                                                    *)
(***************************************************************************)
EXTENDS Calculator, SequenceTheorems, FiniteSetTheorems, NaturalsInduction,
        WellFoundedInduction, TLAPS

\* The token the lexer has read and makepolishform not yet placed.
Held == IF tkn.type = "none" THEN 0 ELSE 1

Room ==
  /\ text \in Seq(Lexemes)
  /\ step \in {"polish", "drain"} =>
       /\ outptr = 0
       /\ inptr + Len(text) + Held <= MAXTOKENS
       /\ inptr + top + Len(text) + Held <= MAXTOKENS
  /\ step = "calculate" => top >= 0 /\ top + (inptr - outptr) <= MAXTOKENS

IInv == TypeOK /\ Room

\* At the start the tokens of the text are all there is.
LEMMA InitRoom == Init => IInv
<1>. SUFFICES ASSUME Init PROVE IInv
  OBVIOUS
<1>1. PICK n \in 0 .. MAXTOKENS : text \in [1 .. n -> Lexemes]
  BY CalculatorAssumption DEF Init
<1>2. text \in Seq(Lexemes) /\ Len(text) = n
  BY <1>1
<1>3. Held = 0
  BY DEF Init, Held, NoToken, Sign
<1>. QED
  BY <1>2, <1>3, CalculatorAssumption DEF Init, IInv, TypeOK, Room, Steps

\* The steps of makepolishform move a token on, or drop it.
LEMMA PolishRoom == IInv /\ makepolishform => IInv'
<1>. SUFFICES ASSUME IInv, makepolishform PROVE IInv'
  OBVIOUS
<1>. USE CalculatorAssumption DEF IInv, TypeOK, Room, Steps, Polish
<1>0. Len(text) \in Nat /\ Held \in {0, 1} /\ Held' \in {0, 1}
  BY LenProperties DEF Held
<1>a. ASSUME Done, tkn.type # "none" PROVE Held = 1 /\ Held' = 0 /\ UNCHANGED <<text, step>>
  BY <1>a DEF Held, Done, NoToken, Sign
<1>b. ASSUME UNCHANGED tkn PROVE Held' = Held
  BY <1>b DEF Held
<1>1. CASE Take
  <2>1. Tail(text) \in Seq(Lexemes) /\ Len(Tail(text)) = Len(text) - 1
    BY <1>1, HeadTailProperties DEF Take
  <2>. QED
    BY <2>1, <1>0, <1>1 DEF Take, Held
<1>2. CASE TakeNumber
  BY <1>0, <1>a, <1>2 DEF TakeNumber
<1>3. CASE TakeOpen
  BY <1>0, <1>a, <1>3 DEF TakeOpen, Push
<1>4. CASE CloseUnloads
  BY <1>0, <1>b, <1>4 DEF CloseUnloads, Unload
<1>5. CASE CloseEnds
  BY <1>0, <1>a, <1>5 DEF CloseEnds
<1>6. CASE OperatorUnloads
  BY <1>0, <1>b, <1>6 DEF OperatorUnloads, Looser, Unload
<1>7. CASE OperatorStays
  BY <1>0, <1>a, <1>7 DEF OperatorStays, Push
<1>8. CASE Skip
  BY <1>0, <1>a, <1>8 DEF Skip
<1>9. CASE Terminate
  BY <1>0, <1>b, <1>9 DEF Terminate
<1>10. CASE Drain
  BY <1>0, <1>b, <1>10 DEF Drain, Unload
<1>11. CASE Calculate
  BY <1>0, <1>b, <1>11 DEF Calculate
<1>12. CASE GoAstray
  BY <1>0, <1>b, <1>12 DEF GoAstray
<1>. QED
  BY <1>1, <1>2, <1>3, <1>4, <1>5, <1>6, <1>7, <1>8, <1>9, <1>10, <1>11, <1>12 DEF makepolishform

\* Taking operands never makes the stack longer.
LEMMA BelowBounds == ASSUME NEW n \in Nat PROVE Below(n) \in 0 .. n
BY DEF Below

\* The steps of calculate take one token from the queue and leave at most one.
LEMMA CalculateRoom == IInv /\ calculate => IInv'
<1>. SUFFICES ASSUME IInv, calculate PROVE IInv'
  OBVIOUS
<1>. USE CalculatorAssumption DEF IInv, TypeOK, Room, Steps, Evaluating, Get
<1>0. top \in Nat
  BY DEF calculate, GetNumber, GetOperator, PassOver, Answer
<1>1. CASE GetNumber
  BY <1>1 DEF GetNumber
<1>2. CASE GetOperator
  <2>1. top' = Below(Below(top)) + 1
    BY <1>2 DEF GetOperator
  <2>2. Below(top) \in 0 .. top
    BY <1>0, BelowBounds
  <2>3. Below(Below(top)) \in 0 .. Below(top)
    BY <2>2, BelowBounds
  <2>4. top' \in Nat /\ top' <= top + 1
    BY <2>1, <2>2, <2>3
  <2>. QED
    BY <2>4, <1>2 DEF GetOperator
<1>3. CASE PassOver
  BY <1>3 DEF PassOver
<1>4. CASE Answer
  <2>1. Below(top) \in 0 .. top
    BY <1>0, BelowBounds
  <2>. QED
    BY <2>1, <1>4 DEF Answer
<1>. QED
  BY <1>1, <1>2, <1>3, <1>4 DEF calculate

LEMMA RoomKept == IInv /\ [Next]_vars => IInv'
<1>1. CASE UNCHANGED vars
  BY <1>1 DEF vars, IInv, TypeOK, Room, Held
<1>. QED
  BY <1>1, PolishRoom, CalculateRoom DEF Next

\* put() never writes behind the arrays, for every text of at most MAXTOKENS
\* tokens, those with too many ) included.
THEOREM ArraysSuffice == Spec => []TypeOK
<1>1. IInv => TypeOK
  BY DEF IInv
<1>. QED
  BY InitRoom, RoomKept, <1>1, PTL DEF Spec

-----------------------------------------------------------------------------
(* The depth of the parentheses                                            *)

\* The lexemes read; the parentheses on the stack that wait for their other
\* half, and the one in hand.
Read == Len(input.text) - Len(text)
Open == {i \in 0 .. top - 1 : sk[i].type = "open"}
InHand == IF tkn.type = "open" THEN 1 ELSE IF tkn.type = "close" THEN -1 ELSE 0

\* A token that is an operator binds tighter than any parenthesis.
Known(t) ==
  /\ t.type = "open" => t.value = "("
  /\ t.type = "operator" => t.value \in Operators

DepthInv ==
  /\ input.text \in Seq(Lexemes)
  /\ Polish =>
       /\ Read \in Nat /\ \A i \in 1 .. Len(text) : text[i] = input.text[Read + i]
       /\ DOMAIN sk = Index /\ \A i \in 0 .. top - 1 : Known(sk[i])
       /\ Known(tkn)
       /\ Matched(input.text) => Cardinality(Open) + InHand = Depth(input.text, Read)
  /\ Matched(input.text) => top >= 0

\* One lexeme more, one parenthesis more at most.
LEMMA DepthOfNext ==
  ASSUME NEW s \in Seq(Lexemes), NEW n \in 0 .. Len(s) - 1
  PROVE  /\ Depth(s, n) \in Int
         /\ Depth(s, n + 1) =
              Depth(s, n) + (IF s[n + 1].base = "sign" /\ s[n + 1].written = "(" THEN 1
                             ELSE IF s[n + 1].base = "sign" /\ s[n + 1].written = ")" THEN -1 ELSE 0)
<1>0. Len(s) \in Nat /\ n \in Nat
  BY LenProperties
<1>1. ASSUME NEW str
      PROVE  /\ Count(s, n, str) \in Nat
             /\ Count(s, n + 1, str) =
                  IF s[n + 1].base = "sign" /\ s[n + 1].written = str
                    THEN Count(s, n, str) + 1 ELSE Count(s, n, str)
  <2>1. IsFiniteSet(Places(s, n, str)) /\ Count(s, n, str) \in Nat
    <3>1. IsFiniteSet(1 .. n)
      BY <1>0, FS_Interval
    <3>2. Places(s, n, str) \in SUBSET (1 .. n)
      BY DEF Places
    <3>3. IsFiniteSet(Places(s, n, str))
      BY <3>1, <3>2, FS_Subset
    <3>. QED BY <3>3, FS_CardinalityType DEF Count
  <2>2. 1 .. n + 1 = (1 .. n) \cup {n + 1} /\ n + 1 \notin 1 .. n
    BY <1>0
  <2>3. CASE s[n + 1].base = "sign" /\ s[n + 1].written = str
    <3>1. Places(s, n + 1, str) = Places(s, n, str) \cup {n + 1} /\ n + 1 \notin Places(s, n, str)
      BY <2>2, <2>3 DEF Places
    <3>. QED BY <2>1, <2>3, <3>1, FS_AddElement DEF Count
  <2>4. CASE ~(s[n + 1].base = "sign" /\ s[n + 1].written = str)
    <3>1. Places(s, n + 1, str) = Places(s, n, str)
      BY <2>2, <2>4 DEF Places
    <3>. QED BY <2>1, <2>4, <3>1 DEF Count
  <2>. QED BY <2>1, <2>3, <2>4
<1>. QED BY <1>1 DEF Depth

LEMMA NothingRead == \A s : Depth(s, 0) = 0
<1>1. \A s, str : Places(s, 0, str) = {}
  BY DEF Places
<1>. QED BY <1>1, FS_EmptySet DEF Depth, Count

\* What is pushed is counted, and what is popped is no longer.
LEMMA OpenPushed ==
  ASSUME top \in Nat, DOMAIN sk = Index, top \in Index, NEW t, Push(t)
  PROVE  /\ IsFiniteSet(Open) /\ Cardinality(Open) \in Nat
         /\ Cardinality(Open') = Cardinality(Open) + (IF t.type = "open" THEN 1 ELSE 0)
         /\ DOMAIN sk' = Index /\ sk'[top] = t /\ \A i \in 0 .. top - 1 : sk'[i] = sk[i]
<1>1. IsFiniteSet(Open) /\ Cardinality(Open) \in Nat
  <2>1. IsFiniteSet(0 .. top - 1)
    BY FS_Interval
  <2>2. Open \in SUBSET (0 .. top - 1)
    BY DEF Open
  <2>. QED BY <2>1, <2>2, FS_Subset, FS_CardinalityType
<1>2. /\ top' = top + 1 /\ 0 .. top' - 1 = (0 .. top - 1) \cup {top} /\ top \notin 0 .. top - 1
      /\ DOMAIN sk' = Index /\ sk'[top] = t /\ \A i \in 0 .. top - 1 : sk'[i] = sk[i]
  BY CalculatorAssumption DEF Push, Index
<1>3. CASE t.type = "open"
  <2>1. Open' = Open \cup {top} /\ top \notin Open
    BY <1>2, <1>3 DEF Open
  <2>. QED BY <1>1, <1>2, <1>3, <2>1, FS_AddElement
<1>4. CASE t.type # "open"
  <2>1. Open' = Open
    BY <1>2, <1>4 DEF Open
  <2>. QED BY <1>1, <1>2, <1>4, <2>1
<1>. QED BY <1>3, <1>4, <1>1, <1>2

LEMMA OpenPopped ==
  ASSUME top \in Nat, top > 0, top' = top - 1, UNCHANGED sk
  PROVE  /\ Cardinality(Open) \in Nat
         /\ Cardinality(Open') = Cardinality(Open) - (IF seek.type = "open" THEN 1 ELSE 0)
<1>1. IsFiniteSet(Open) /\ Cardinality(Open) \in Nat
  <2>1. IsFiniteSet(0 .. top - 1)
    BY FS_Interval
  <2>2. Open \in SUBSET (0 .. top - 1)
    BY DEF Open
  <2>. QED BY <2>1, <2>2, FS_Subset, FS_CardinalityType
<1>2. 0 .. top' - 1 = (0 .. top - 1) \ {top - 1} /\ top - 1 \in 0 .. top - 1
  OBVIOUS
<1>3. CASE seek.type = "open"
  <2>1. Open' = Open \ {top - 1} /\ top - 1 \in Open
    BY <1>2, <1>3 DEF Open, seek
  <2>. QED BY <1>1, <1>3, <2>1, FS_RemoveElement
<1>4. CASE seek.type # "open"
  <2>1. Open' = Open
    BY <1>2, <1>4 DEF Open, seek
  <2>. QED BY <1>1, <1>4, <2>1
<1>. QED BY <1>3, <1>4, <1>1

\* What the lexer makes of a lexeme.
LEMMA LexerKnows ==
  ASSUME NEW l, NEW t \in getNextToken(l)
  PROVE  /\ Known(t)
         /\ t.type # "none"
         /\ t.type = "open" <=> l.base = "sign" /\ l.written = "("
         /\ t.type = "close" <=> l.base = "sign" /\ l.written = ")"
<1>0. "(" \notin Operators /\ ")" \notin Operators
  BY DEF Operators, Arithmetic, Ignored
<1>1. CASE l.base = "sign"
  <2>1. PICK type : /\ t = [type |-> type, value |-> l.written]
                    /\ type = CASE l.written = "(" -> "open" [] l.written = ")" -> "close"
                                [] l.written \in Operators -> "operator" [] OTHER -> "unknown"
    BY <1>1 DEF getNextToken, Sign
  <2>2. t.type = type /\ t.value = l.written
    BY <2>1
  <2>3. CASE l.written = "("
    BY <1>0, <1>1, <2>1, <2>2, <2>3 DEF Known
  <2>4. CASE l.written = ")"
    BY <1>0, <1>1, <2>1, <2>2, <2>4 DEF Known
  <2>5. CASE l.written \in Operators
    BY <1>0, <1>1, <2>1, <2>2, <2>5 DEF Known
  <2>6. CASE l.written \notin Operators \cup {"(", ")"}
    BY <1>0, <1>1, <2>1, <2>2, <2>6 DEF Known
  <2>. QED BY <2>3, <2>4, <2>5, <2>6
<1>2. CASE l.base # "sign"
  <2>1. t.type = "number"
    BY <1>2 DEF getNextToken, Number
  <2>. QED BY <1>2, <2>1 DEF Known
<1>. QED BY <1>1, <1>2

\* An operator does not unload a parenthesis.
LEMMA ParenthesisStays ==
  ASSUME Known(tkn), tkn.type = "operator", Looser(tkn), Known(seek)
  PROVE  seek.type # "open"
<1>1. tkn.value \in Operators
  BY DEF Known
<1>2. getpriority(tkn) \in {0, 5, 6, 7, 16}
  <2>1. tkn.value # "("
    BY <1>1 DEF Operators, Arithmetic, Ignored
  <2>2. CASE tkn.value \in {"^", "**"}
    BY <2>2 DEF getpriority
  <2>3. CASE tkn.value \in {"*", "/", "%"}
    BY <2>3 DEF getpriority
  <2>4. CASE tkn.value \in {"+", "-"}
    BY <2>4 DEF getpriority
  <2>5. CASE tkn.value = ":"
    BY <2>5 DEF getpriority
  <2>6. CASE tkn.value \notin {"^", "**", "*", "/", "%", "+", "-", ":"}
    BY <2>1, <2>6 DEF getpriority
  <2>. QED BY <2>2, <2>3, <2>4, <2>5, <2>6
<1>3. seek.value = "(" => getpriority(seek) = 100
  BY DEF getpriority
<1>. QED BY <1>2, <1>3 DEF Looser, Known

-----------------------------------------------------------------------------
(* Nothing is taken from the empty stack                                   *)

LEMMA InitDepth == Init => DepthInv
<1>. SUFFICES ASSUME Init PROVE DepthInv
  OBVIOUS
<1>1. input.text \in Seq(Lexemes) /\ text = input.text
  BY CalculatorAssumption DEF Init
<1>2. Len(input.text) \in Nat /\ Read = 0
  BY <1>1, LenProperties DEF Read
<1>3. Open = {} /\ InHand = 0 /\ Known(tkn) /\ top = 0 /\ DOMAIN sk = Index
  <2>1. top = 0 /\ DOMAIN sk = Index /\ tkn.type = "none"
    BY DEF Init, NoToken, Sign
  <2>2. 0 .. top - 1 = {}
    BY <2>1
  <2>. QED BY <2>1, <2>2 DEF Open, InHand, Known
<1>4. Cardinality(Open) + InHand = Depth(input.text, Read)
  BY <1>2, <1>3, NothingRead, FS_EmptySet
<1>. QED BY <1>1, <1>2, <1>3, <1>4 DEF DepthInv

\* A step that leaves the lexemes alone and keeps the depth.
LEMMA DepthKept ==
  ASSUME DepthInv, UNCHANGED <<input, text, step>>, Polish,
         DOMAIN sk' = Index, \A i \in 0 .. top' - 1 : Known(sk'[i]), Known(tkn'),
         Matched(input.text) =>
           Cardinality(Open') + InHand' = Cardinality(Open) + InHand /\ top' >= 0
  PROVE  DepthInv'
<1>1. Read' = Read
  BY DEF Read
<1>. QED BY <1>1 DEF DepthInv, Polish

\* A ) in hand, of a text in which it has its (, finds that one.
LEMMA CloseHasOpen ==
  ASSUME IInv, DepthInv, Polish, tkn.type = "close", Matched(input.text), top \in Nat
  PROVE  Cardinality(Open) \in Nat \ {0} /\ top > 0
<1>1. IsFiniteSet(Open) /\ Cardinality(Open) \in Nat
  <2>1. IsFiniteSet(0 .. top - 1)
    BY FS_Interval
  <2>2. Open \in SUBSET (0 .. top - 1)
    BY DEF Open
  <2>. QED BY <2>1, <2>2, FS_Subset, FS_CardinalityType
<1>2. Len(input.text) \in Nat /\ Len(text) \in Nat /\ Read \in 0 .. Len(input.text)
  BY LenProperties DEF DepthInv, IInv, Room, Read
<1>3. Depth(input.text, Read) \in Nat
  <2>1. ASSUME NEW str PROVE Count(input.text, Read, str) \in Nat
    <3>1. IsFiniteSet(1 .. Read)
      BY <1>2, FS_Interval
    <3>2. Places(input.text, Read, str) \in SUBSET (1 .. Read)
      BY DEF Places
    <3>3. IsFiniteSet(Places(input.text, Read, str))
      BY <3>1, <3>2, FS_Subset
    <3>. QED BY <3>3, FS_CardinalityType DEF Count
  <2>2. Count(input.text, Read, ")") <= Count(input.text, Read, "(")
    BY <1>2 DEF Matched
  <2>. QED BY <2>1, <2>2 DEF Depth
<1>4. Cardinality(Open) # 0
  BY <1>1, <1>3 DEF DepthInv, InHand
<1>5. Open # {}
  BY <1>4, FS_EmptySet
<1>. QED BY <1>1, <1>4, <1>5 DEF Open

\* The lexemes behind the one that is read.
LEMMA LexemeRead ==
  ASSUME IInv, DepthInv, Take
  PROVE  /\ Read \in 0 .. Len(input.text) - 1 /\ Read' = Read + 1 /\ Len(input.text) \in Nat
         /\ Head(text) = text[1] /\ text[1] = input.text[Read + 1]
         /\ \A i \in 1 .. Len(text') : text'[i] = input.text'[Read' + i]
<1>0. input.text \in Seq(Lexemes) /\ text \in Seq(Lexemes)
  BY DEF IInv, Room, DepthInv
<1>1. /\ Polish /\ tkn.type = "none" /\ text # <<>> /\ tkn' \in getNextToken(Head(text))
      /\ text' = Tail(text) /\ UNCHANGED <<input, step, sk, top>>
  BY DEF Take
<1>2. /\ Len(text) \in Nat /\ Len(text) >= 1 /\ Tail(text) \in Seq(Lexemes)
      /\ Len(Tail(text)) = Len(text) - 1 /\ Head(text) = text[1]
      /\ \A i \in 1 .. Len(text) - 1 : Tail(text)[i] = text[i + 1]
  BY <1>0, <1>1, HeadTailProperties, LenProperties, EmptySeq
<1>3. Len(input.text) \in Nat
  BY <1>0, LenProperties
<1>4. Read \in Nat /\ \A i \in 1 .. Len(text) : text[i] = input.text[Read + i]
  BY <1>1 DEF DepthInv
<1>5. Read = Len(input.text) - Len(text) /\ Read' = Len(input.text) - Len(text')
  BY <1>1 DEF Read
<1>6. Len(text') = Len(text) - 1 /\ Read' = Read + 1
  BY <1>1, <1>2, <1>3, <1>5
<1>7. ASSUME NEW i \in 1 .. Len(text') PROVE text'[i] = input.text[Read' + i]
  <2>1. i \in 1 .. Len(text) - 1 /\ i + 1 \in 1 .. Len(text)
    BY <1>2, <1>6
  <2>2. text'[i] = text[i + 1] /\ text[i + 1] = input.text[Read + (i + 1)]
    BY <1>1, <1>2, <1>4, <2>1
  <2>3. Read + (i + 1) = Read' + i
    BY <1>4, <1>6, <2>1
  <2>. QED BY <2>2, <2>3
<1>. QED BY <1>1, <1>2, <1>3, <1>4, <1>5, <1>6, <1>7

\* Below the empty stack, that of an unmatched ), there is no token to know.
LEMMA AstrayDepth == IInv /\ DepthInv /\ top < 0 /\ makepolishform => DepthInv'
<1>. SUFFICES ASSUME IInv, DepthInv, top < 0, makepolishform PROVE DepthInv'
  OBVIOUS
<1>1. ~Matched(input.text) /\ top \in Int /\ 0 .. top - 1 = {}
  BY DEF DepthInv, IInv, TypeOK
<1>2. UNCHANGED <<input, sk>> \/ Calculate
  BY <1>1 DEF makepolishform, Take, TakeNumber, TakeOpen, CloseUnloads, CloseEnds, OperatorUnloads,
              OperatorStays, Looser, Skip, Terminate, Drain, GoAstray, Push, Unload, Done
<1>3. CASE Take
  <2>1. Polish /\ UNCHANGED <<input, step, sk, top>> /\ tkn' \in getNextToken(Head(text))
    BY <1>3 DEF Take
  <2>2. Known(tkn')
    BY <2>1, LexerKnows
  <2>3. /\ Read' \in Nat
        /\ \A i \in 1 .. Len(text') : text'[i] = input.text'[Read' + i]
    BY <1>3, LexemeRead
  <2>. QED BY <1>1, <2>1, <2>2, <2>3 DEF DepthInv, Polish
<1>4. CASE Polish /\ UNCHANGED sk /\ Done /\ top' <= top /\ top' \in Int
  <2>1. Read' = Read /\ Known(tkn') /\ 0 .. top' - 1 = {} /\ UNCHANGED <<input, text, step>>
    <3>1. 0 .. top' - 1 = {}
      <4>1. \A n \in Int : n < 0 => 0 .. n - 1 = {}
        OBVIOUS
      <4>2. top' \in Int /\ top' < 0
        BY <1>1, <1>4
      <4>. QED BY <4>1, <4>2
    <3>. QED BY <1>4, <3>1 DEF Done, Read, NoToken, Sign, Known
  <2>. QED BY <1>1, <1>4, <2>1 DEF DepthInv, Polish
<1>5. CASE ~Polish' /\ UNCHANGED input
  BY <1>1, <1>5 DEF DepthInv
<1>. QED
  BY <1>1, <1>3, <1>4, <1>5 DEF makepolishform, TakeNumber, TakeOpen, CloseUnloads, CloseEnds,
     OperatorUnloads, OperatorStays, Looser, Skip, Terminate, Drain, GoAstray, Calculate, Push, Polish

LEMMA PolishDepth == IInv /\ IInv' /\ DepthInv /\ top >= 0 /\ makepolishform => DepthInv'
<1>. SUFFICES ASSUME IInv, IInv', DepthInv, top >= 0, makepolishform PROVE DepthInv'
  OBVIOUS
<1>0. /\ top \in Nat /\ top \in 0 .. MAXTOKENS /\ top' \in Int /\ top' <= MAXTOKENS /\ MAXTOKENS \in Nat
      /\ input.text \in Seq(Lexemes) /\ text \in Seq(Lexemes)
  BY CalculatorAssumption DEF IInv, TypeOK, Room, DepthInv
<1>a. Polish => /\ DOMAIN sk = Index /\ \A i \in 0 .. top - 1 : Known(sk[i])
                /\ Known(tkn) /\ (top > 0 => Known(seek))
  BY <1>0 DEF DepthInv, seek
<1>b. ASSUME Done PROVE UNCHANGED <<input, text, step>> /\ Known(tkn') /\ InHand' = 0
  BY <1>b DEF Done, NoToken, Sign, Known, InHand
<1>1. CASE Take
  <2>1. /\ Polish /\ tkn.type = "none" /\ text # <<>> /\ tkn' \in getNextToken(Head(text))
        /\ text' = Tail(text) /\ UNCHANGED <<input, step, sk, top>>
    BY <1>1 DEF Take
  <2>3. /\ Read \in 0 .. Len(input.text) - 1 /\ Read' = Read + 1 /\ Len(input.text) \in Nat
        /\ Head(text) = text[1] /\ text[1] = input.text[Read + 1]
        /\ \A i \in 1 .. Len(text') : text'[i] = input.text'[Read' + i]
    BY <1>1, LexemeRead
  <2>4. /\ Known(tkn')
        /\ tkn'.type = "open" <=> text[1].base = "sign" /\ text[1].written = "("
        /\ tkn'.type = "close" <=> text[1].base = "sign" /\ text[1].written = ")"
    BY <2>1, <2>3, LexerKnows
  <2>5. Depth(input.text, Read + 1) = Depth(input.text, Read) + InHand' /\ Depth(input.text, Read) \in Int
    BY <1>0, <2>3, <2>4, DepthOfNext DEF InHand
  <2>6. Matched(input.text) => Cardinality(Open') + InHand' = Depth(input.text', Read')
    <3>1. Open' = Open
      BY <2>1 DEF Open
    <3>2. InHand = 0 /\ InHand' \in Int
      BY <2>1 DEF InHand
    <3>3. ASSUME Matched(input.text) PROVE Cardinality(Open) = Depth(input.text, Read)
      <4>1. Cardinality(Open) \in Nat
        <5>1. IsFiniteSet(0 .. top - 1)
          BY <1>0, FS_Interval
        <5>2. Open \in SUBSET (0 .. top - 1)
          BY DEF Open
        <5>. QED BY <5>1, <5>2, FS_Subset, FS_CardinalityType
      <4>. QED BY <2>1, <3>2, <3>3, <4>1 DEF DepthInv
    <3>. QED BY <2>1, <2>3, <2>5, <3>1, <3>2, <3>3
  <2>7. Read' \in Nat
    BY <2>3
  <2>. QED BY <1>0, <1>a, <2>1, <2>3, <2>4, <2>6, <2>7 DEF DepthInv, Polish
<1>2. CASE TakeNumber
  <2>1. Polish /\ tkn.type = "number" /\ UNCHANGED <<sk, top>> /\ Done
    BY <1>2 DEF TakeNumber
  <2>2. Open' = Open /\ InHand = 0
    BY <2>1 DEF Open, InHand
  <2>. QED BY <1>0, <1>a, <1>b, <2>1, <2>2, DepthKept
<1>3. CASE TakeOpen
  <2>1. Polish /\ tkn.type = "open" /\ Push(tkn) /\ Done /\ top' = top + 1
    BY <1>3 DEF TakeOpen, Push
  <2>2. top \in Index
    BY <1>0, <2>1 DEF Index
  <2>3. /\ Cardinality(Open) \in Nat /\ Cardinality(Open') = Cardinality(Open) + 1
        /\ DOMAIN sk' = Index /\ sk'[top] = tkn /\ \A i \in 0 .. top - 1 : sk'[i] = sk[i]
    BY <1>0, <1>a, <2>1, <2>2, OpenPushed
  <2>4. \A i \in 0 .. top' - 1 : Known(sk'[i])
    <3>1. \A i \in 0 .. top' - 1 : i = top \/ i \in 0 .. top - 1
      BY <1>0, <2>1
    <3>. QED BY <3>1, <1>a, <2>1, <2>3
  <2>5. InHand = 1
    BY <2>1 DEF InHand
  <2>. QED BY <1>0, <1>b, <2>1, <2>3, <2>4, <2>5, DepthKept
<1>4. ASSUME Polish, Unload, top > 0, seek.type # "open", UNCHANGED <<input, text, tkn, step>>
      PROVE  DepthInv'
  <2>1. top' = top - 1 /\ UNCHANGED sk
    BY <1>4 DEF Unload
  <2>2. Cardinality(Open) \in Nat /\ Cardinality(Open') = Cardinality(Open)
    BY <1>0, <1>4, <2>1, OpenPopped
  <2>3. \A i \in 0 .. top' - 1 : Known(sk'[i])
    BY <1>0, <1>a, <1>4, <2>1
  <2>4. InHand' = InHand /\ Known(tkn')
    BY <1>a, <1>4 DEF InHand
  <2>. QED BY <1>0, <1>a, <1>4, <2>1, <2>2, <2>3, <2>4, DepthKept
<1>5. CASE CloseUnloads
  BY <1>4, <1>5 DEF CloseUnloads
<1>6. CASE CloseEnds
  <2>1. /\ Polish /\ tkn.type = "close" /\ ~(top > 0 /\ seek.type # "open")
        /\ top' = top - 1 /\ UNCHANGED sk /\ Done
    BY <1>6 DEF CloseEnds
  <2>2. ASSUME Matched(input.text)
        PROVE  Cardinality(Open') + InHand' = Cardinality(Open) + InHand /\ top' >= 0
    <3>1. top > 0
      BY <1>0, <2>1, <2>2, CloseHasOpen
    <3>2. seek.type = "open"
      BY <2>1, <3>1
    <3>3. Cardinality(Open) \in Nat /\ Cardinality(Open') = Cardinality(Open) - 1
      BY <1>0, <2>1, <3>1, <3>2, OpenPopped
    <3>4. InHand = -1
      BY <2>1 DEF InHand
    <3>. QED BY <1>0, <1>b, <2>1, <3>1, <3>3, <3>4
  <2>3. \A i \in 0 .. top' - 1 : Known(sk'[i])
    BY <1>0, <1>a, <2>1
  <2>. QED BY <1>a, <1>b, <2>1, <2>2, <2>3, DepthKept
<1>7. CASE OperatorUnloads
  <2>1. Polish /\ tkn.type = "operator" /\ Looser(tkn) /\ top > 0 /\ Unload
        /\ UNCHANGED <<input, text, tkn, step>>
    BY <1>7 DEF OperatorUnloads, Looser
  <2>2. seek.type # "open"
    BY <1>a, <2>1, ParenthesisStays
  <2>. QED BY <1>4, <2>1, <2>2
<1>8. CASE OperatorStays
  <2>1. Polish /\ tkn.type = "operator" /\ Push(tkn) /\ Done /\ top' = top + 1
    BY <1>8 DEF OperatorStays, Push
  <2>2. top \in Index
    BY <1>0, <2>1 DEF Index
  <2>3. /\ Cardinality(Open) \in Nat /\ Cardinality(Open') = Cardinality(Open)
        /\ DOMAIN sk' = Index /\ sk'[top] = tkn /\ \A i \in 0 .. top - 1 : sk'[i] = sk[i]
    BY <1>0, <1>a, <2>1, <2>2, OpenPushed
  <2>4. \A i \in 0 .. top' - 1 : Known(sk'[i])
    <3>1. \A i \in 0 .. top' - 1 : i = top \/ i \in 0 .. top - 1
      BY <1>0, <2>1
    <3>. QED BY <3>1, <1>a, <2>1, <2>3
  <2>5. InHand = 0
    BY <2>1 DEF InHand
  <2>. QED BY <1>0, <1>b, <2>1, <2>3, <2>4, <2>5, DepthKept
<1>9. CASE Skip
  <2>1. Polish /\ tkn.type = "unknown" /\ UNCHANGED <<sk, top>> /\ Done
    BY <1>9 DEF Skip
  <2>2. Open' = Open /\ InHand = 0
    BY <2>1 DEF Open, InHand
  <2>. QED BY <1>0, <1>a, <1>b, <2>1, <2>2, DepthKept
<1>10. CASE Terminate \/ Drain \/ Calculate \/ GoAstray
  <2>1. /\ step' \in {"drain", "calculate", "astray"} /\ UNCHANGED input /\ top' >= 0
    BY <1>0, <1>10 DEF Terminate, Drain, Calculate, GoAstray, Unload
  <2>. QED BY <1>0, <2>1 DEF DepthInv, Polish
<1>. QED
  BY <1>1, <1>2, <1>3, <1>5, <1>6, <1>7, <1>8, <1>9, <1>10 DEF makepolishform

LEMMA CalculateDepth == IInv /\ DepthInv /\ calculate => DepthInv'
<1>. SUFFICES ASSUME IInv, DepthInv, calculate PROVE DepthInv'
  OBVIOUS
<1>1. /\ step' \in {"calculate", "answered"} /\ UNCHANGED input
      /\ top' \in {top + 1, Below(Below(top)) + 1, top, Below(top)}
  BY DEF calculate, GetNumber, GetOperator, PassOver, Answer, Get, Evaluating
<1>2. top \in Nat
  BY DEF IInv, TypeOK, Room, calculate, GetNumber, GetOperator, PassOver, Answer, Evaluating
<1>3. Below(top) \in Nat
  BY <1>2, BelowBounds
<1>4. Below(Below(top)) \in Nat
  BY <1>3, BelowBounds
<1>5. top' >= 0
  BY <1>1, <1>2, <1>3, <1>4
<1>. QED BY <1>1, <1>5 DEF DepthInv, Polish

\* Every step keeps the count of the parentheses.
LEMMA DepthStays == IInv /\ IInv' /\ DepthInv /\ [Next]_vars => DepthInv'
<1>1. CASE UNCHANGED vars
  BY <1>1 DEF vars, DepthInv, Known, Polish, Read, Open, InHand
<1>2. CASE makepolishform
  <2>1. ASSUME IInv PROVE top >= 0 \/ top < 0
    BY <2>1 DEF IInv, TypeOK
  <2>. QED BY <1>2, <2>1, PolishDepth, AstrayDepth
<1>. QED
  BY <1>1, <1>2, CalculateDepth DEF Next

\* makepolishform never takes from the empty stack, for any text in which each )
\* has its ( before it: what it reads of a[-1] is undefined (TokenStack::get,
\* Calkulator.cpp). The depth of the parentheses read is the number of those on
\* the stack and the one in hand; an operator never unloads a parenthesis.
THEOREM NothingFromEmptyStack == Spec => []NoUnderflow
<1>1. IInv /\ IInv' /\ DepthInv /\ [Next]_vars => DepthInv'
  BY DepthStays
<1>2. DepthInv => NoUnderflow
  BY DEF DepthInv, NoUnderflow
<1>3. Spec => []IInv
  <2>1. IInv /\ [Next]_vars => IInv'
    BY RoomKept
  <2>. QED BY <2>1, InitRoom, PTL DEF Spec
<1>. QED
  BY InitDepth, <1>1, <1>2, <1>3, PTL DEF Spec

-----------------------------------------------------------------------------
(* The tree a text stands for                                              *)

\* A set of numbers has a least one.
LEMMA LeastNat ==
  ASSUME NEW D, D \subseteq Nat, D # {}
  PROVE  \E i \in D : \A j \in D : i <= j
<1> DEFINE Less == {ss \in Nat \X Nat : ss[1] < ss[2]}
<1>1. IsWellFoundedOn(Less, Nat)
  BY NatLessThanWellFounded DEF OpToRel
<1>2. \E i \in D : \A j \in D : <<j, i>> \notin Less
  BY <1>1, WFMin, Zenon
<1>3. \A i, j \in Nat : <<j, i>> \notin Less => i <= j
  OBVIOUS
<1>. HIDE DEF Less
<1>. QED BY <1>2, <1>3

\* What Readings(s) says of the l lexemes from a on, if v says so of fewer.
Tree(s, v, l, a) ==
  LET b == a + l - 1  k == Root(s, a, b) IN
  CASE l = 0 -> <<0>>
    [] Roots(s, a, b) # {} -> <<s[k].written, v[k - a][a], v[b - k][k + 1]>>
    [] l = 1 /\ Roots(s, a, b) = {} -> <<Worth(s[a])>>
    [] OTHER -> v[l - 2][a + 1]
Trees(s, v, l) == [a \in 1 .. Len(s) + 1 - l |-> Tree(s, v, l, a)]

\* Only fewer lexemes matter.
LEMMA TreeOfFewer ==
  ASSUME NEW s, NEW v, NEW w, NEW l \in Nat, NEW a \in Nat, \A m \in 0 .. l - 1 : v[m] = w[m]
  PROVE  Tree(s, v, l, a) = Tree(s, w, l, a)
<1> DEFINE b == a + l - 1  k == Root(s, a, b)
<1>1. Roots(s, a, b) # {} => k \in a .. b
  BY DEF Root, Roots, Outer
<1>. HIDE DEF k
<1>2. CASE l = 0
  <2>1. b = a - 1 /\ a .. b = {}
    BY <1>2
  <2>2. Roots(s, a, b) = {}
    BY <2>1 DEF Roots, Outer
  <2>. QED BY <1>2, <2>2 DEF Tree
<1>3. CASE l # 0 /\ Roots(s, a, b) # {}
  <2>1. k - a \in 0 .. l - 1 /\ b - k \in 0 .. l - 1
    BY <1>1, <1>3
  <2>2. v[k - a] = w[k - a] /\ v[b - k] = w[b - k]
    BY <2>1
  <2>3. /\ Tree(s, v, l, a) = <<s[k].written, v[k - a][a], v[b - k][k + 1]>>
        /\ Tree(s, w, l, a) = <<s[k].written, w[k - a][a], w[b - k][k + 1]>>
    BY <1>3 DEF Tree, k
  <2>. QED BY <2>2, <2>3
<1>4. CASE l = 1 /\ Roots(s, a, b) = {}
  BY <1>4 DEF Tree
<1>5. CASE l # 0 /\ l # 1 /\ Roots(s, a, b) = {}
  <2>1. v[l - 2] = w[l - 2]
    BY <1>5
  <2>2. Tree(s, v, l, a) = v[l - 2][a + 1] /\ Tree(s, w, l, a) = w[l - 2][a + 1]
    BY <1>5 DEF Tree
  <2>. QED BY <2>1, <2>2
<1>. QED BY <1>2, <1>3, <1>4, <1>5

\* Readings(s) satisfies the equation it is defined by.
LEMMA ReadingsUnfold ==
  ASSUME NEW s, Len(s) \in Nat
  PROVE  \A l \in 0 .. Len(s) : Readings(s)[l] = Trees(s, Readings(s), l)
<1> DEFINE Upto(g, n) == g = [l \in 0 .. n |-> Trees(s, g, l)]
           bad == {n \in Nat : ~\E g : Upto(g, n)}
<1>1. bad = {}
  <2>1. SUFFICES ASSUME bad # {} PROVE FALSE
    OBVIOUS
  <2>2. bad \subseteq Nat
    OBVIOUS
  <2>3. PICK n \in bad : \A m \in bad : n <= m
    <3>. HIDE DEF bad
    <3>. QED BY <2>1, <2>2, LeastNat
  <2>4. n \in Nat /\ ~\E g : Upto(g, n)
    OBVIOUS
  <2>5. \E h : \A l \in 0 .. n - 1 : h[l] = Trees(s, h, l)
    <3>1. CASE n = 0
      BY <3>1
    <3>2. CASE n # 0
      <4>1. n - 1 \in Nat /\ n - 1 \notin bad
        <5>1. n - 1 \in Nat /\ ~(n <= n - 1)
          BY <2>4, <3>2
        <5>. HIDE DEF bad
        <5>. QED BY <2>3, <5>1
      <4>2. PICK h : Upto(h, n - 1)
        BY <4>1
      <4>. QED BY <4>2
    <3>. QED BY <3>1, <3>2
  <2>6. PICK h : \A l \in 0 .. n - 1 : h[l] = Trees(s, h, l)
    BY <2>5
  <2> DEFINE g == [l \in 0 .. n |-> IF l = n THEN Trees(s, h, n) ELSE h[l]]
  <2>7. ASSUME NEW l \in 0 .. n PROVE g[l] = Trees(s, g, l)
    <3>1. l \in Nat /\ \A m \in 0 .. l - 1 : g[m] = h[m]
      BY <2>4
    <3>2. g[l] = Trees(s, h, l)
      BY <2>4, <2>6
    <3>. HIDE DEF g
    <3>3. \A a \in 1 .. Len(s) + 1 - l : Tree(s, g, l, a) = Tree(s, h, l, a)
      <4>1. \A a \in 1 .. Len(s) + 1 - l : a \in Nat
        BY <3>1
      <4>. QED BY <3>1, <4>1, TreeOfFewer
    <3>4. Trees(s, g, l) = Trees(s, h, l)
      BY <3>3 DEF Trees
    <3>. QED BY <3>2, <3>4
  <2>8. g = [l \in 0 .. n |-> g[l]]
    OBVIOUS
  <2>. HIDE DEF g
  <2>9. Upto(g, n)
    BY <2>7, <2>8
  <2>. QED BY <2>4, <2>9
<1>2. \E g : Upto(g, Len(s))
  BY <1>1
<1>3. Readings(s) = CHOOSE g : Upto(g, Len(s))
  BY DEF Readings, Trees, Tree
<1>4. Upto(Readings(s), Len(s))
  <2> HIDE DEF Upto
  <2>. QED BY <1>2, <1>3
<1>. HIDE DEF bad
<1>. QED BY <1>4

\* The lexemes a to b, and what a reading says of them.
LEMMA ReadingOf ==
  ASSUME NEW s, Len(s) \in Nat, NEW a \in 1 .. Len(s) + 1, NEW b \in a - 1 .. Len(s)
  PROVE  Reading(s, a, b) = Tree(s, Readings(s), b - a + 1, a)
<1>1. b - a + 1 \in 0 .. Len(s) /\ a \in 1 .. Len(s) + 1 - (b - a + 1)
  OBVIOUS
<1>2. Readings(s)[b - a + 1] = Trees(s, Readings(s), b - a + 1)
  BY <1>1, ReadingsUnfold
<1>. QED BY <1>1, <1>2 DEF Reading, Trees

-----------------------------------------------------------------------------
(* Operands: what is between two places of the same depth                  *)

Balanced(s, a, b) ==
  Depth(s, b) = Depth(s, a - 1) /\ \A j \in a .. b : Depth(s, j) >= Depth(s, a - 1)

\* No operator of the operand binds looser than rank r.
Within(s, a, b, r) == \A k \in Outer(s, a, b) : Rank(s[k].written) <= r

\* There are three ranks.
LEMMA RankType == ASSUME NEW op PROVE Rank(op) \in 1 .. 3
<1>1. CASE op = "^"
  BY <1>1 DEF Rank
<1>2. CASE op \in {"*", "/", "%"}
  BY <1>2 DEF Rank
<1>3. CASE op \notin {"^", "*", "/", "%"}
  BY <1>3 DEF Rank
<1>. QED BY <1>1, <1>2, <1>3

\* How the depth changes with a lexeme.
LEMMA DepthAt ==
  ASSUME NEW s \in Seq(Lexemes), NEW i \in 1 .. Len(s)
  PROVE  /\ Depth(s, i - 1) \in Int /\ Depth(s, i) \in Int
         /\ s[i].base = "sign" /\ s[i].written = "(" => Depth(s, i) = Depth(s, i - 1) + 1
         /\ s[i].base = "sign" /\ s[i].written = ")" => Depth(s, i) = Depth(s, i - 1) - 1
         /\ s[i].base # "sign" \/ IsArithmetic(s[i]) => Depth(s, i) = Depth(s, i - 1)
<1>1. Len(s) \in Nat
  BY LenProperties
<1>2. i - 1 \in 0 .. Len(s) - 1 /\ (i - 1) + 1 = i
  BY <1>1
<1>3. /\ Depth(s, i - 1) \in Int
      /\ Depth(s, i) =
           Depth(s, i - 1) + (IF s[i].base = "sign" /\ s[i].written = "(" THEN 1
                              ELSE IF s[i].base = "sign" /\ s[i].written = ")" THEN -1 ELSE 0)
  BY <1>2, DepthOfNext
<1>4. "(" \notin Arithmetic /\ ")" \notin Arithmetic
  BY DEF Arithmetic
<1>. QED BY <1>3, <1>4 DEF IsArithmetic

\* The depth is a number at every place of the text.
LEMMA DepthType == ASSUME NEW s \in Seq(Lexemes), NEW i \in 0 .. Len(s) PROVE Depth(s, i) \in Int
<1>1. CASE i = 0
  BY <1>1, NothingRead
<1>2. CASE i # 0
  BY <1>2, DepthAt, LenProperties
<1>. QED BY <1>1, <1>2

\* An operand without operators has no root.
LEMMA NoRoots == ASSUME NEW s, NEW a, NEW b, Outer(s, a, b) = {} PROVE Roots(s, a, b) = {}
BY DEF Roots

\* In front of a sign that begins the text.
LEMMA NothingReads ==
  ASSUME NEW s, Len(s) \in Nat, NEW a \in 1 .. Len(s) + 1
  PROVE  Balanced(s, a, a - 1) /\ Outer(s, a, a - 1) = {} /\ Reading(s, a, a - 1) = <<0>>
<1>1. a .. a - 1 = {} /\ a - 1 \in a - 1 .. Len(s) /\ (a - 1) - a + 1 = 0 /\ a + 0 - 1 = a - 1
  OBVIOUS
<1>2. Outer(s, a, a - 1) = {} /\ Roots(s, a, a - 1) = {}
  BY <1>1, NoRoots DEF Outer
<1>3. Reading(s, a, a - 1) = Tree(s, Readings(s), 0, a)
  BY <1>1, ReadingOf
<1>. QED BY <1>1, <1>2, <1>3 DEF Balanced, Tree

\* A number is an operand of its own.
LEMMA NumberReads ==
  ASSUME NEW s \in Seq(Lexemes), NEW a \in 1 .. Len(s), s[a].base # "sign"
  PROVE  /\ Balanced(s, a, a) /\ Outer(s, a, a) = {}
         /\ Reading(s, a, a) = <<Worth(s[a])>>
<1>1. Len(s) \in Nat
  BY LenProperties
<1>2. /\ a .. a = {a} /\ a \in 1 .. Len(s) + 1 /\ a \in a - 1 .. Len(s)
      /\ a - a + 1 = 1 /\ a + 1 - 1 = a
  BY <1>1
<1>3. Depth(s, a) \in Int /\ Depth(s, a) = Depth(s, a - 1)
  BY DepthAt
<1>4. Outer(s, a, a) = {} /\ Roots(s, a, a) = {}
  BY <1>2, NoRoots DEF Outer, IsArithmetic
<1>5. Reading(s, a, a) = Tree(s, Readings(s), 1, a)
  BY <1>1, <1>2, ReadingOf
<1>6. Balanced(s, a, a)
  BY <1>2, <1>3 DEF Balanced
<1>. QED BY <1>2, <1>4, <1>5, <1>6 DEF Tree

\* An operand in parentheses is an operand, with no operator outside of them.
LEMMA ParenthesesRead ==
  ASSUME NEW s \in Seq(Lexemes), NEW a \in 1 .. Len(s), NEW b \in a + 1 .. Len(s),
         s[a].base = "sign", s[a].written = "(", s[b].base = "sign", s[b].written = ")",
         Balanced(s, a + 1, b - 1)
  PROVE  /\ Balanced(s, a, b) /\ Outer(s, a, b) = {}
         /\ Reading(s, a, b) = Reading(s, a + 1, b - 1)
<1>1. Len(s) \in Nat
  BY LenProperties
<1>2. Depth(s, a - 1) \in Int /\ Depth(s, a) = Depth(s, a - 1) + 1
  BY DepthAt
<1>3. Depth(s, b) = Depth(s, b - 1) - 1
  <2>1. b \in 1 .. Len(s)
    BY <1>1
  <2>. QED BY <2>1, DepthAt
<1>4. Depth(s, b - 1) = Depth(s, a) /\ \A j \in a + 1 .. b - 1 : Depth(s, j) >= Depth(s, a)
  BY DEF Balanced
<1>5. Depth(s, b) = Depth(s, a - 1)
  BY <1>2, <1>3, <1>4
<1>6. \A j \in a .. b : j = a \/ j = b \/ j \in a + 1 .. b - 1
  BY <1>1
<1>7. \A j \in a + 1 .. b - 1 : Depth(s, j) \in Int
  BY <1>1, DepthType
<1>8. Balanced(s, a, b)
  BY <1>2, <1>4, <1>5, <1>6, <1>7 DEF Balanced
<1>9. ~IsArithmetic(s[a]) /\ ~IsArithmetic(s[b])
  BY DEF IsArithmetic, Arithmetic
<1>10. Outer(s, a, b) = {}
  <2>1. ASSUME NEW j \in Outer(s, a, b) PROVE FALSE
    <3>1. j \in a .. b /\ IsArithmetic(s[j]) /\ Depth(s, j) = Depth(s, a - 1)
      BY DEF Outer
    <3>2. j \in a + 1 .. b - 1
      BY <1>6, <1>9, <3>1
    <3>. QED BY <1>2, <1>4, <1>7, <3>1, <3>2
  <2>. QED BY <2>1
<1>11. Reading(s, a, b) = Readings(s)[b - a + 1 - 2][a + 1]
  <2>1. b - a + 1 # 0 /\ b - a + 1 # 1 /\ b - a + 1 \in Nat /\ a + (b - a + 1) - 1 = b
        /\ a \in 1 .. Len(s) + 1 /\ b \in a - 1 .. Len(s)
    BY <1>1
  <2>2. Reading(s, a, b) = Tree(s, Readings(s), b - a + 1, a)
    BY <1>1, <2>1, ReadingOf
  <2>3. Roots(s, a, b) = {}
    BY <1>10, NoRoots
  <2>4. ASSUME NEW l, l # 0, l # 1, a + l - 1 = b
        PROVE  Tree(s, Readings(s), l, a) = Readings(s)[l - 2][a + 1]
    BY <2>3, <2>4 DEF Tree
  <2>. QED BY <2>1, <2>2, <2>4
<1>12. b - a + 1 - 2 = (b - 1) - (a + 1) + 1
  BY <1>1
<1>. QED BY <1>8, <1>10, <1>11, <1>12 DEF Reading

\* Two operands and the operator between them: it is the root if none on the
\* left binds looser and all on the right bind tighter.
LEMMA OperationReads ==
  ASSUME NEW s \in Seq(Lexemes), NEW k \in 1 .. Len(s), NEW a \in 1 .. k, NEW b \in k .. Len(s),
         IsArithmetic(s[k]), Balanced(s, a, k - 1), Balanced(s, k + 1, b),
         Within(s, a, k - 1, Rank(s[k].written)),
         Within(s, k + 1, b, Rank(s[k].written) - 1)
  PROVE  /\ Balanced(s, a, b) /\ Within(s, a, b, Rank(s[k].written))
         /\ Reading(s, a, b) = <<s[k].written, Reading(s, a, k - 1), Reading(s, k + 1, b)>>
<1>1. Len(s) \in Nat
  BY LenProperties
<1>2. /\ Depth(s, k) = Depth(s, k - 1) /\ Depth(s, k - 1) = Depth(s, a - 1) /\ Depth(s, a - 1) \in Int
      /\ Depth(s, b) = Depth(s, k)
  <2>1. a - 1 \in 0 .. Len(s) /\ (k + 1) - 1 = k
    BY <1>1
  <2>. QED BY <2>1, DepthAt, DepthType DEF Balanced
<1>3. \A j \in a .. b : j \in a .. k - 1 \/ j = k \/ j \in k + 1 .. b
  BY <1>1
<1>4. Balanced(s, a, b)
  <2>1. ASSUME NEW j \in a .. b PROVE Depth(s, j) >= Depth(s, a - 1)
    <3>1. CASE j \in a .. k - 1
      BY <3>1 DEF Balanced
    <3>2. CASE j = k
      BY <1>2, <3>2
    <3>3. CASE j \in k + 1 .. b
      <4>1. (k + 1) - 1 = k
        BY <1>1
      <4>. QED BY <1>2, <3>3, <4>1 DEF Balanced
    <3>. QED BY <1>3, <3>1, <3>2, <3>3
  <2>. QED BY <1>2, <2>1 DEF Balanced
<1>5. ASSUME NEW j \in Outer(s, a, b), j # k
      PROVE  Rank(s[j].written) <= Rank(s[k].written) /\ Before(s, j, k)
  <2>1. j \in a .. b /\ IsArithmetic(s[j]) /\ Depth(s, j) = Depth(s, a - 1) /\ j \in Int
    BY <1>1 DEF Outer
  <2>2. Rank(s[j].written) \in Int /\ Rank(s[k].written) \in Int
    BY RankType
  <2>3. CASE j \in a .. k - 1
    <3>1. j \in Outer(s, a, k - 1) /\ j < k
      BY <1>1, <2>1, <2>3 DEF Outer
    <3>2. Rank(s[j].written) <= Rank(s[k].written)
      BY <3>1 DEF Within
    <3>. QED BY <2>2, <3>1, <3>2 DEF Before
  <2>4. CASE j \in k + 1 .. b
    <3>1. (k + 1) - 1 = k
      BY <1>1
    <3>2. j \in Outer(s, k + 1, b)
      BY <1>2, <2>1, <2>4, <3>1 DEF Outer
    <3>3. Rank(s[j].written) <= Rank(s[k].written) - 1
      BY <3>2 DEF Within
    <3>. QED BY <2>2, <3>3 DEF Before
  <2>. QED BY <1>3, <1>5, <2>1, <2>3, <2>4
<1>6. k \in Roots(s, a, b) /\ \A j \in Roots(s, a, b) : j = k
  <2>1. k \in Outer(s, a, b)
    BY <1>1, <1>2 DEF Outer
  <2>2. k \in Roots(s, a, b)
    BY <1>5, <2>1 DEF Roots
  <2>3. ASSUME NEW j \in Roots(s, a, b), j # k PROVE FALSE
    <3>1. j \in Outer(s, a, b) /\ Before(s, k, j)
      BY <2>1, <2>3 DEF Roots
    <3>2. Before(s, j, k) /\ j \in Int
      BY <1>1, <1>5, <2>3, <3>1 DEF Outer
    <3>3. Rank(s[j].written) \in Int /\ Rank(s[k].written) \in Int
      BY RankType
    <3>. QED BY <3>1, <3>2, <3>3 DEF Before
  <2>. QED BY <2>2, <2>3
<1>7. Within(s, a, b, Rank(s[k].written))
  BY <1>5, RankType DEF Within
<1>8. Reading(s, a, b) = <<s[k].written, Readings(s)[k - a][a], Readings(s)[b - k][k + 1]>>
  <2>1. b - a + 1 \in Nat /\ b - a + 1 # 0 /\ a + (b - a + 1) - 1 = b
        /\ a \in 1 .. Len(s) + 1 /\ b \in a - 1 .. Len(s)
    BY <1>1
  <2>2. Reading(s, a, b) = Tree(s, Readings(s), b - a + 1, a)
    BY <1>1, <2>1, ReadingOf
  <2>3. Root(s, a, b) = k /\ Roots(s, a, b) # {}
    BY <1>6 DEF Root
  <2>. QED BY <2>1, <2>2, <2>3 DEF Tree
<1>9. (k - 1) - a + 1 = k - a /\ b - (k + 1) + 1 = b - k
  BY <1>1
<1>. QED BY <1>4, <1>7, <1>8, <1>9 DEF Reading

-----------------------------------------------------------------------------
(* The stack of makepolishform, and the stack calculate will have          *)

\* Where the operand above the lowest n entries of the stack S begins, and how
\* loose its operators may bind; k says which lexeme an entry is.
Start(k, n) == IF n = 0 THEN 1 ELSE k[n - 1] + 1
Limit(S, n) == IF n = 0 \/ S[n - 1].type = "open" THEN 3 ELSE Rank(S[n - 1].value) - 1

\* An entry of the stack: a parenthesis where an operand may begin, or an operator
\* behind its left operand, whose value calculate will have in cell e[j].
Waits(s, S, k, e, c, j) ==
  \/ /\ S[j].type = "open" /\ s[k[j]].base = "sign" /\ s[k[j]].written = "("
     /\ k[j] = Start(k, j) /\ e[j + 1] = e[j]
  \/ /\ S[j] = Sign("operator", s[k[j]].written) /\ IsArithmetic(s[k[j]])
     /\ Balanced(s, Start(k, j), k[j] - 1)
     /\ Within(s, Start(k, j), k[j] - 1, Rank(s[k[j]].written))
     /\ Rank(s[k[j]].written) <= Limit(S, j)
     /\ e[j + 1] = e[j] + 1
     /\ \/ e[j] >= 0 /\ c[e[j]] = Reading(s, Start(k, j), k[j] - 1)
        \/ e[j] = -1 /\ j = 0 /\ k[0] = 1   \* the sign that begins the text

\* The n entries of S after p lexemes.
Stacked(s, S, n, k, e, c, p) ==
  /\ \A j \in 0 .. n - 1 : k[j] \in 1 .. p /\ Start(k, j) <= k[j] /\ Waits(s, S, k, e, c, j)
  /\ \A j \in 0 .. n : e[j] \in Int /\ e[j] >= -1
  /\ e[0] <= 0 /\ e[n] >= 0
  /\ \A j \in 0 .. n : \A i \in 0 .. j - 1 : S[i].type = "operator" => e[i] < e[j]

\* The operand above the stack is there, and in the last of h cells; or it is
\* yet to come.
Has(s, S, n, k, e, c, h, p) ==
  /\ Start(k, n) <= p /\ Balanced(s, Start(k, n), p) /\ Within(s, Start(k, n), p, Limit(S, n))
  /\ c[e[n]] = Reading(s, Start(k, n), p) /\ h = e[n] + 1
Wants(n, k, e, h, p) == Start(k, n) = p + 1 /\ h = e[n]

\* What calculate does with a token of the queue: h cells c become h2 cells c2.
EvStep(t, h, c, h2, c2) ==
  \/ /\ t.type = "number" /\ h2 = h + 1 /\ c2[h] = t.value
     /\ \A i \in 0 .. h - 1 : c2[i] = c[i]
  \/ /\ t.type = "operator" /\ t.value \in Arithmetic /\ h >= 2 /\ h2 = h - 1
     /\ c2[h - 2] = <<t.value, c[h - 2], c[h - 1]>>
     /\ \A i \in 0 .. h - 3 : c2[i] = c[i]
  \/ /\ t.type = "operator" /\ t.value \in Arithmetic /\ h = 1 /\ h2 = 1
     /\ c2[0] = <<t.value, <<0>>, c[0]>>

\* The entries and their cells are what matters.
LEMMA StackedKept ==
  ASSUME NEW s, NEW n \in Nat, NEW p \in Nat, NEW p2 \in Nat, p <= p2,
         NEW S, NEW S2, NEW k, NEW k2, NEW e, NEW e2, NEW c, NEW c2,
         Stacked(s, S, n, k, e, c, p),
         \A j \in 0 .. n - 1 : S2[j] = S[j] /\ k2[j] = k[j],
         \A j \in 0 .. n : e2[j] = e[j],
         \A j \in 0 .. n - 1 : S[j].type = "operator" /\ e[j] >= 0 => c2[e[j]] = c[e[j]]
  PROVE  Stacked(s, S2, n, k2, e2, c2, p2)
<1>1. ASSUME NEW j \in 0 .. n - 1
      PROVE  k2[j] \in 1 .. p2 /\ Start(k2, j) <= k2[j] /\ Waits(s, S2, k2, e2, c2, j)
  <2>1. /\ j = 0 \/ j - 1 \in 0 .. n - 1
        /\ j \in 0 .. n /\ j + 1 \in 0 .. n
    OBVIOUS
  <2>2. k2[j] = k[j] /\ S2[j] = S[j] /\ e2[j] = e[j] /\ e2[j + 1] = e[j + 1]
    BY <2>1
  <2>3. Start(k2, j) = Start(k, j) /\ Limit(S2, j) = Limit(S, j)
    BY <2>1 DEF Start, Limit
  <2>4. k[j] \in 1 .. p /\ Start(k, j) <= k[j] /\ Waits(s, S, k, e, c, j)
    BY DEF Stacked
  <2>5. CASE S[j].type = "open"
    <3>1. S[j] # Sign("operator", s[k[j]].written)
      BY <2>5 DEF Sign
    <3>. QED BY <2>2, <2>3, <2>4, <2>5, <3>1 DEF Waits
  <2>6. CASE S[j] = Sign("operator", s[k[j]].written)
    <3>1. S[j].type = "operator"
      BY <2>6 DEF Sign
    <3>2. (e[j] >= 0 => c2[e[j]] = c[e[j]]) /\ (j = 0 => k2[0] = k[0])
      BY <3>1
    <3>3. Waits(s, S2, k2, e2, c2, j)
      BY <2>2, <2>3, <2>4, <3>1, <3>2 DEF Waits
    <3>. QED BY <2>2, <2>3, <2>4, <3>3
  <2>. QED BY <2>4, <2>5, <2>6 DEF Waits
<1>2. /\ \A j \in 0 .. n : e2[j] \in Int /\ e2[j] >= -1
      /\ e2[0] <= 0 /\ e2[n] >= 0
  BY DEF Stacked
<1>3. ASSUME NEW j \in 0 .. n, NEW i \in 0 .. j - 1, S2[i].type = "operator" PROVE e2[i] < e2[j]
  <2>1. i \in 0 .. n - 1 /\ i \in 0 .. n
    OBVIOUS
  <2>. QED BY <1>3, <2>1 DEF Stacked
<1>. QED BY <1>1, <1>2, <1>3 DEF Stacked

\* The entries below the top one.
LEMMA StackedBelow ==
  ASSUME NEW s, NEW n \in Nat, n > 0, NEW p, NEW S, NEW k, NEW e, NEW c,
         Stacked(s, S, n, k, e, c, p), e[n - 1] >= 0
  PROVE  Stacked(s, S, n - 1, k, e, c, p)
<1>1. (\A j \in 0 .. (n - 1) - 1 : j \in 0 .. n - 1) /\ (\A j \in 0 .. n - 1 : j \in 0 .. n)
  OBVIOUS
<1>. QED BY <1>1 DEF Stacked

\* An entry that waits on top of the others.
LEMMA StackedOneMore ==
  ASSUME NEW s, NEW n \in Nat, NEW p, NEW S, NEW k, NEW e, NEW c,
         Stacked(s, S, n, k, e, c, p), k[n] \in 1 .. p, Start(k, n) <= k[n], Waits(s, S, k, e, c, n)
  PROVE  Stacked(s, S, n + 1, k, e, c, p)
<1>1. /\ \A j \in 0 .. (n + 1) - 1 : j = n \/ j \in 0 .. n - 1
      /\ \A j \in 0 .. n + 1 : j = n + 1 \/ j \in 0 .. n
      /\ n \in 0 .. n
  OBVIOUS
<1>2. /\ e[n] \in Int /\ e[n] >= 0 /\ e[0] <= 0
      /\ (e[n + 1] = e[n] /\ S[n].type = "open") \/ e[n + 1] = e[n] + 1
  BY <1>1 DEF Stacked, Waits
<1>3. ASSUME NEW j \in 0 .. n + 1, NEW i \in 0 .. j - 1, S[i].type = "operator" PROVE e[i] < e[j]
  <2>1. CASE j \in 0 .. n
    BY <1>3, <2>1 DEF Stacked
  <2>2. CASE j = n + 1 /\ i = n
    <3>1. S[n].type # "open"
      BY <1>3, <2>2
    <3>. QED BY <1>2, <2>2, <3>1
  <2>3. CASE j = n + 1 /\ i # n
    <3>1. i \in 0 .. n - 1 /\ i \in 0 .. n
      BY <2>3
    <3>2. e[i] < e[n] /\ e[i] \in Int
      BY <1>1, <1>3, <3>1 DEF Stacked
    <3>. QED BY <1>2, <2>3, <3>2
  <2>. QED BY <1>1, <2>1, <2>2, <2>3
<1>4. \A j \in 0 .. (n + 1) - 1 : k[j] \in 1 .. p /\ Start(k, j) <= k[j] /\ Waits(s, S, k, e, c, j)
  BY <1>1 DEF Stacked
<1>5. \A j \in 0 .. n + 1 : e[j] \in Int /\ e[j] >= -1
  <2>1. \A j \in 0 .. n : e[j] \in Int /\ e[j] >= -1
    BY DEF Stacked
  <2>. QED BY <1>1, <1>2, <2>1
<1>. QED BY <1>2, <1>3, <1>4, <1>5 DEF Stacked

\* The operator on top of the stack goes to the queue: calculate will put
\* the tree of both operands and the operator where the left one was.
LEMMA OperatorReduces ==
  ASSUME NEW s \in Seq(Lexemes), NEW p \in 1 .. Len(s), NEW n \in Nat, n > 0,
         NEW S, NEW k, NEW e, NEW c, NEW h,
         Stacked(s, S, n, k, e, c, p), Has(s, S, n, k, e, c, h, p), S[n - 1].type # "open"
  PROVE  \E e2, h2, c2 :
           /\ EvStep(S[n - 1], h, c, h2, c2)
           /\ Stacked(s, S, n - 1, k, e2, c2, p)
           /\ Has(s, S, n - 1, k, e2, c2, h2, p)
           /\ Within(s, Start(k, n - 1), p, Rank(S[n - 1].value))
<1> DEFINE j == n - 1  a == Start(k, j)  op == s[k[j]].written
<1>1. Len(s) \in Nat /\ j \in 0 .. n - 1 /\ j \in 0 .. n /\ j \in Nat /\ j + 1 = n
  BY LenProperties
<1>2. k[j] \in 1 .. p /\ a <= k[j] /\ Waits(s, S, k, e, c, j)
  BY <1>1 DEF Stacked
<1>3. a \in 1 .. k[j]
  <2>1. CASE j = 0
    BY <1>2, <2>1 DEF Start
  <2>2. CASE j # 0
    <3>1. j - 1 \in 0 .. n - 1
      BY <1>1, <2>2
    <3>2. k[j - 1] \in 1 .. p /\ a = k[j - 1] + 1
      BY <2>2, <3>1 DEF Stacked, Start
    <3>. QED BY <1>2, <3>2
  <2>. QED BY <2>1, <2>2
<1>4. /\ S[j] = Sign("operator", op) /\ IsArithmetic(s[k[j]])
      /\ Balanced(s, a, k[j] - 1) /\ Within(s, a, k[j] - 1, Rank(op))
      /\ Rank(op) <= Limit(S, j) /\ e[n] = e[j] + 1
      /\ \/ e[j] >= 0 /\ c[e[j]] = Reading(s, a, k[j] - 1)
         \/ e[j] = -1 /\ j = 0 /\ k[0] = 1
  <2>1. S[j].type # "open"
    OBVIOUS
  <2>. HIDE DEF j, a
  <2>2. e[j + 1] = e[n]
    BY <1>1
  <2>. QED BY <1>2, <2>1, <2>2 DEF Waits, a
<1>5. S[j].type = "operator" /\ S[j].value = op /\ op \in Arithmetic
  BY <1>4 DEF Sign, IsArithmetic
<1>6. Start(k, n) = k[j] + 1 /\ Limit(S, n) = Rank(op) - 1
  BY <1>1, <1>5 DEF Start, Limit
<1>7. /\ Balanced(s, k[j] + 1, p) /\ Within(s, k[j] + 1, p, Rank(op) - 1)
      /\ c[e[n]] = Reading(s, k[j] + 1, p) /\ h = e[n] + 1
  BY <1>6 DEF Has
<1>8. /\ Balanced(s, a, p) /\ Within(s, a, p, Rank(op))
      /\ Reading(s, a, p) = <<op, Reading(s, a, k[j] - 1), Reading(s, k[j] + 1, p)>>
  <2>1. k[j] \in 1 .. Len(s) /\ p \in k[j] .. Len(s)
    BY <1>1, <1>2
  <2>. QED BY <1>3, <1>4, <1>7, <2>1, OperationReads
<1>9. Within(s, a, p, Limit(S, j)) /\ a <= p
  <2>1. Rank(op) \in Int /\ Limit(S, j) \in Int
    BY RankType DEF Limit
  <2>2. \A i : Rank(s[i].written) \in Int
    BY RankType
  <2>3. Rank(op) <= Limit(S, j)
    BY <1>4
  <2>4. \A i \in Outer(s, a, p) : Rank(s[i].written) <= Rank(op)
    BY <1>8 DEF Within
  <2>5. Within(s, a, p, Limit(S, j))
    <3>. HIDE DEF a, op
    <3>. QED BY <2>1, <2>2, <2>3, <2>4 DEF Within
  <2>6. a <= p
    BY <1>1, <1>2, <1>3
  <2>. QED BY <2>5, <2>6
<1>10. e[j] \in Int /\ e[j] >= -1
  BY <1>1 DEF Stacked
<1>11. CASE e[j] >= 0
  <2> DEFINE c2 == [i \in 0 .. h |-> IF i = e[j] THEN <<op, c[e[j]], c[e[n]]>> ELSE c[i]]
  <2>1. h = e[j] + 2 /\ h - 2 = e[j] /\ h - 1 = e[n] /\ h \in Nat /\ h >= 2
    <3>1. e[n] = e[j] + 1 /\ h = e[n] + 1
      BY <1>4, <1>7
    <3>. QED BY <3>1, <1>10, <1>11
  <2>2. c2[e[j]] = <<op, c[e[j]], c[e[n]]>> /\ \A i \in 0 .. h - 3 : c2[i] = c[i]
    BY <1>10, <1>11, <2>1
  <2>3. EvStep(S[j], h, c, h - 1, c2)
    <3>. HIDE DEF c2
    <3>. QED BY <1>5, <2>1, <2>2 DEF EvStep
  <2>4. \A i \in 0 .. j - 1 : S[i].type = "operator" /\ e[i] >= 0 => c2[e[i]] = c[e[i]]
    <3>1. ASSUME NEW i \in 0 .. j - 1, S[i].type = "operator", e[i] >= 0
          PROVE  e[i] \in 0 .. h - 3
      <4>1. e[i] < e[j] /\ e[i] \in Int
        BY <1>1, <3>1 DEF Stacked
      <4>2. h - 3 = e[j] - 1
        BY <1>10, <2>1
      <4>. QED BY <1>10, <3>1, <4>1, <4>2
    <3>. HIDE DEF c2
    <3>. QED BY <2>2, <3>1
  <2>5. Stacked(s, S, j, k, e, c, p)
    BY <1>11, StackedBelow
  <2>. HIDE DEF c2
  <2>6. Stacked(s, S, j, k, e, c2, p)
    <3>1. p \in Nat /\ p <= p
      BY <1>1
    <3>. QED BY <1>1, <2>4, <2>5, <3>1, StackedKept
  <2>7. Has(s, S, j, k, e, c2, h - 1, p)
    <3>1. c2[e[j]] = Reading(s, a, p)
      BY <1>4, <1>7, <1>8, <1>10, <1>11, <2>2
    <3>2. h - 1 = e[j] + 1
      BY <1>10, <2>1
    <3>. QED BY <1>8, <1>9, <3>1, <3>2 DEF Has
  <2>. QED BY <1>5, <1>8, <2>3, <2>6, <2>7
<1>12. CASE e[j] = -1
  <2> DEFINE e2 == [i \in 0 .. 0 |-> 0]
             c2 == [i \in 0 .. 0 |-> <<op, <<0>>, c[0]>>]
  <2>1. j = 0 /\ k[j] = 1 /\ a = 1 /\ n = 1 /\ e[n] = 0 /\ h = 1
    BY <1>1, <1>4, <1>7, <1>12 DEF Start
  <2>2. c2[0] = <<op, <<0>>, c[0]>> /\ e2[0] = 0
    OBVIOUS
  <2>. HIDE DEF c2, e2
  <2>3. EvStep(S[j], h, c, 1, c2)
    BY <1>5, <2>1, <2>2 DEF EvStep
  <2>4. Stacked(s, S, j, k, e2, c2, p)
    <3>1. j - 1 = -1 /\ 0 .. j - 1 = {} /\ 0 .. j = {0}
      BY <2>1
    <3>2. e2[j] = 0 /\ \A i \in 0 .. j : i = 0 /\ 0 .. i - 1 = {}
      BY <2>1, <2>2
    <3>. QED BY <2>2, <3>1, <3>2 DEF Stacked
  <2>5. Reading(s, 1, 0) = <<0>>
    <3>1. 1 \in 1 .. Len(s) + 1 /\ 1 - 1 = 0
      BY <1>1
    <3>. QED BY <1>1, <3>1, NothingReads
  <2>6. c2[0] = Reading(s, a, p)
    <3>1. k[j] - 1 = 0
      BY <2>1
    <3>. QED BY <1>7, <1>8, <2>1, <2>2, <2>5, <3>1
  <2>7. Has(s, S, j, k, e2, c2, 1, p)
    BY <1>8, <1>9, <2>1, <2>2, <2>6 DEF Has
  <2>. QED BY <1>5, <1>8, <2>3, <2>4, <2>7
<1>. QED BY <1>4, <1>11, <1>12

\* An operator none of the operators before it has to wait for: its left operand
\* is complete.
LEMMA OperatorPlaced ==
  ASSUME NEW s \in Seq(Lexemes), NEW p \in 1 .. Len(s) - 1, NEW n \in Nat,
         NEW S, NEW S2, NEW k, NEW e, NEW c, NEW h,
         Stacked(s, S, n, k, e, c, p), Has(s, S, n, k, e, c, h, p),
         IsArithmetic(s[p + 1]), Within(s, Start(k, n), p, Rank(s[p + 1].written)),
         Rank(s[p + 1].written) <= Limit(S, n),
         \A j \in 0 .. n - 1 : S2[j] = S[j], S2[n] = Sign("operator", s[p + 1].written)
  PROVE  \E k2, e2 : Stacked(s, S2, n + 1, k2, e2, c, p + 1) /\ Wants(n + 1, k2, e2, h, p + 1)
<1> DEFINE k2 == [i \in 0 .. n |-> IF i = n THEN p + 1 ELSE k[i]]
           e2 == [i \in 0 .. n + 1 |-> IF i = n + 1 THEN e[n] + 1 ELSE e[i]]
<1>1. /\ \A j \in 0 .. n - 1 : k2[j] = k[j]
      /\ \A j \in 0 .. n : e2[j] = e[j]
      /\ k2[n] = p + 1 /\ e2[n + 1] = e[n] + 1 /\ e2[n] = e[n]
  OBVIOUS
<1>. HIDE DEF k2, e2
<1>2. Len(s) \in Nat /\ p \in Nat /\ p + 1 \in Nat /\ p <= p + 1
  BY LenProperties
<1>3. Stacked(s, S2, n, k2, e2, c, p + 1)
  BY <1>1, <1>2, StackedKept
<1>4. Start(k2, n) = Start(k, n) /\ Limit(S2, n) = Limit(S, n)
  <2>1. n = 0 \/ n - 1 \in 0 .. n - 1
    OBVIOUS
  <2>. QED BY <1>1, <2>1 DEF Start, Limit
<1>5. /\ Start(k, n) <= p /\ Balanced(s, Start(k, n), p)
      /\ c[e[n]] = Reading(s, Start(k, n), p) /\ h = e[n] + 1
  BY DEF Has
<1>6. Start(k, n) \in Int /\ e[n] >= 0
  <2>1. n = 0 \/ n - 1 \in 0 .. n - 1
    OBVIOUS
  <2>. QED BY <2>1 DEF Start, Stacked
<1>7. (p + 1) - 1 = p /\ k2[n] \in 1 .. p + 1 /\ Start(k2, n) <= k2[n]
  BY <1>1, <1>2, <1>4, <1>5, <1>6
<1>8. Waits(s, S2, k2, e2, c, n)
  <2>1. Balanced(s, Start(k2, n), k2[n] - 1) /\ Within(s, Start(k2, n), k2[n] - 1, Rank(s[k2[n]].written))
    BY <1>1, <1>4, <1>5, <1>7
  <2>2. e2[n] >= 0 /\ c[e2[n]] = Reading(s, Start(k2, n), k2[n] - 1)
    BY <1>1, <1>4, <1>5, <1>6, <1>7
  <2>3. /\ S2[n] = Sign("operator", s[k2[n]].written) /\ IsArithmetic(s[k2[n]])
        /\ Rank(s[k2[n]].written) <= Limit(S2, n) /\ e2[n + 1] = e2[n] + 1
    BY <1>1, <1>4
  <2>. QED BY <2>1, <2>2, <2>3 DEF Waits
<1>9. Stacked(s, S2, n + 1, k2, e2, c, p + 1)
  BY <1>3, <1>7, <1>8, StackedOneMore
<1>10. Wants(n + 1, k2, e2, h, p + 1)
  <2>1. n + 1 # 0 /\ (n + 1) - 1 = n
    OBVIOUS
  <2>. QED BY <1>1, <1>5, <2>1 DEF Wants, Start
<1>. QED BY <1>9, <1>10

\* The sign that begins the text: its left operand is nothing.
LEMMA SignPlaced ==
  ASSUME NEW s \in Seq(Lexemes), Len(s) > 0, IsArithmetic(s[1]),
         NEW S, S[0] = Sign("operator", s[1].written), NEW c
  PROVE  \E k, e : Stacked(s, S, 1, k, e, c, 1) /\ Wants(1, k, e, 0, 1)
<1> DEFINE k == [i \in 0 .. 0 |-> 1]
           e == [i \in 0 .. 1 |-> i - 1]
<1>1. k[0] = 1 /\ e[0] = -1 /\ e[1] = 0
  OBVIOUS
<1>. HIDE DEF k, e
<1>2. Start(k, 0) = 1 /\ Start(k, 1) = 2 /\ Limit(S, 0) = 3
  BY <1>1 DEF Start, Limit
<1>3. Balanced(s, 1, 0) /\ Within(s, 1, 0, Rank(s[1].written))
  <2>1. Len(s) \in Nat /\ 1 \in 1 .. Len(s) + 1 /\ 1 - 1 = 0
    BY LenProperties
  <2>. QED BY <2>1, NothingReads DEF Within
<1>4. Waits(s, S, k, e, c, 0)
  <2>1. Rank(s[1].written) <= 3
    BY RankType
  <2>2. Balanced(s, Start(k, 0), k[0] - 1) /\ Within(s, Start(k, 0), k[0] - 1, Rank(s[k[0]].written))
    <3>1. k[0] - 1 = 0
      BY <1>1
    <3>. QED BY <1>1, <1>2, <1>3, <3>1
  <2>3. e[0 + 1] = e[0] + 1
    BY <1>1
  <2>. QED BY <1>1, <1>2, <2>1, <2>2, <2>3 DEF Waits
<1>5. Stacked(s, S, 1, k, e, c, 1)
  <2>1. 0 .. 1 - 1 = {0} /\ 0 .. 1 = {0, 1} /\ 0 .. 0 - 1 = {}
    OBVIOUS
  <2>2. \A j \in 0 .. 1 - 1 : k[j] \in 1 .. 1 /\ Start(k, j) <= k[j] /\ Waits(s, S, k, e, c, j)
    BY <1>1, <1>2, <1>4, <2>1
  <2>3. \A j \in 0 .. 1 : \A i \in 0 .. j - 1 : e[i] < e[j]
    BY <1>1, <2>1
  <2>4. (\A j \in 0 .. 1 : e[j] \in Int /\ e[j] >= -1) /\ e[0] <= 0 /\ e[1] >= 0
    BY <1>1, <2>1
  <2>. QED BY <2>2, <2>3, <2>4 DEF Stacked
<1>6. Wants(1, k, e, 0, 1)
  BY <1>1, <1>2 DEF Wants
<1>. QED BY <1>5, <1>6

\* A parenthesis where an operand is to come.
LEMMA ParenthesisPlaced ==
  ASSUME NEW s \in Seq(Lexemes), NEW p \in 0 .. Len(s) - 1, NEW n \in Nat,
         NEW S, NEW S2, NEW k, NEW e, NEW c, NEW h,
         Stacked(s, S, n, k, e, c, p), Wants(n, k, e, h, p),
         s[p + 1].base = "sign", s[p + 1].written = "(",
         \A j \in 0 .. n - 1 : S2[j] = S[j], S2[n].type = "open"
  PROVE  \E k2, e2 : Stacked(s, S2, n + 1, k2, e2, c, p + 1) /\ Wants(n + 1, k2, e2, h, p + 1)
<1> DEFINE k2 == [i \in 0 .. n |-> IF i = n THEN p + 1 ELSE k[i]]
           e2 == [i \in 0 .. n + 1 |-> IF i = n + 1 THEN e[n] ELSE e[i]]
<1>1. /\ \A j \in 0 .. n - 1 : k2[j] = k[j]
      /\ \A j \in 0 .. n : e2[j] = e[j]
      /\ k2[n] = p + 1 /\ e2[n + 1] = e[n] /\ e2[n] = e[n]
  OBVIOUS
<1>. HIDE DEF k2, e2
<1>2. Len(s) \in Nat /\ p \in Nat /\ p + 1 \in Nat /\ p <= p + 1
  BY LenProperties
<1>3. Stacked(s, S2, n, k2, e2, c, p + 1)
  BY <1>1, <1>2, StackedKept
<1>4. Start(k2, n) = p + 1 /\ h = e[n]
  <2>1. n = 0 \/ n - 1 \in 0 .. n - 1
    OBVIOUS
  <2>2. Start(k2, n) = Start(k, n)
    BY <1>1, <2>1 DEF Start
  <2>. QED BY <2>2 DEF Wants
<1>5. k2[n] \in 1 .. p + 1 /\ Start(k2, n) <= k2[n]
  BY <1>1, <1>2, <1>4
<1>6. Waits(s, S2, k2, e2, c, n)
  BY <1>1, <1>4 DEF Waits
<1>7. Stacked(s, S2, n + 1, k2, e2, c, p + 1)
  BY <1>3, <1>5, <1>6, StackedOneMore
<1>8. Wants(n + 1, k2, e2, h, p + 1)
  <2>1. n + 1 # 0 /\ (n + 1) - 1 = n
    OBVIOUS
  <2>. QED BY <1>1, <1>4, <2>1 DEF Wants, Start
<1>. QED BY <1>7, <1>8

\* Its other half: the operand between them is one operand.
LEMMA ParenthesisTaken ==
  ASSUME NEW s \in Seq(Lexemes), NEW p \in 1 .. Len(s) - 1, NEW n \in Nat, n > 0,
         NEW S, NEW k, NEW e, NEW c, NEW h,
         Stacked(s, S, n, k, e, c, p), Has(s, S, n, k, e, c, h, p),
         S[n - 1].type = "open", s[p + 1].base = "sign", s[p + 1].written = ")"
  PROVE  /\ Stacked(s, S, n - 1, k, e, c, p + 1) /\ Has(s, S, n - 1, k, e, c, h, p + 1)
         /\ Outer(s, Start(k, n - 1), p + 1) = {}
<1> DEFINE j == n - 1
<1>1. Len(s) \in Nat /\ p \in Nat /\ p + 1 \in Nat /\ p <= p + 1 /\ (p + 1) - 1 = p
      /\ j \in Nat /\ j \in 0 .. n - 1 /\ n # 0 /\ j + 1 = n
  BY LenProperties
<1>2. k[j] \in 1 .. p /\ Waits(s, S, k, e, c, j)
  BY <1>1 DEF Stacked
<1>3. s[k[j]].base = "sign" /\ s[k[j]].written = "(" /\ k[j] = Start(k, j) /\ e[n] = e[j]
  <2>1. S[j].type = "open" /\ S[j] # Sign("operator", s[k[j]].written)
    BY DEF Sign
  <2>2. e[j + 1] = e[n]
    BY <1>1
  <2>. HIDE DEF j
  <2>. QED BY <1>2, <2>1, <2>2 DEF Waits
<1>4. /\ Start(k, n) = k[j] + 1 /\ Balanced(s, k[j] + 1, p)
      /\ c[e[n]] = Reading(s, k[j] + 1, p) /\ h = e[n] + 1
  BY <1>1 DEF Has, Start
<1>5. /\ Balanced(s, k[j], p + 1) /\ Outer(s, k[j], p + 1) = {}
      /\ Reading(s, k[j], p + 1) = Reading(s, k[j] + 1, p)
  <2>1. k[j] \in 1 .. Len(s) /\ p + 1 \in k[j] + 1 .. Len(s)
    BY <1>1, <1>2
  <2>. QED BY <1>1, <1>3, <1>4, <2>1, ParenthesesRead
<1>6. Stacked(s, S, j, k, e, c, p)
  <2>1. e[n - 1] >= 0
    BY <1>3 DEF Stacked
  <2>. QED BY <2>1, StackedBelow
<1>7. Stacked(s, S, j, k, e, c, p + 1)
  BY <1>1, <1>6, StackedKept
<1>8. Has(s, S, j, k, e, c, h, p + 1)
  <2>1. Start(k, j) <= p + 1
    BY <1>1, <1>2, <1>3
  <2>2. Within(s, k[j], p + 1, Limit(S, j))
    BY <1>5 DEF Within
  <2>. HIDE DEF j
  <2>. QED BY <1>3, <1>4, <1>5, <2>1, <2>2 DEF Has
<1>. QED BY <1>3, <1>5, <1>7, <1>8

\* A number where an operand is to come.
LEMMA NumberPlaced ==
  ASSUME NEW s \in Seq(Lexemes), NEW p \in 0 .. Len(s) - 1, NEW n \in Nat,
         NEW S, NEW k, NEW e, NEW c, NEW h, NEW t,
         Stacked(s, S, n, k, e, c, p), Wants(n, k, e, h, p),
         s[p + 1].base # "sign", t.type = "number", t.value = <<Worth(s[p + 1])>>
  PROVE  \E h2, c2 :
           /\ EvStep(t, h, c, h2, c2)
           /\ Stacked(s, S, n, k, e, c2, p + 1) /\ Has(s, S, n, k, e, c2, h2, p + 1)
           /\ Outer(s, Start(k, n), p + 1) = {}
<1> DEFINE c2 == [i \in 0 .. h |-> IF i = h THEN t.value ELSE c[i]]
<1>1. Len(s) \in Nat /\ p \in Nat /\ p + 1 \in Nat /\ p <= p + 1 /\ p + 1 \in 1 .. Len(s)
  BY LenProperties
<1>2. Start(k, n) = p + 1 /\ h = e[n] /\ h \in Nat
  BY DEF Wants, Stacked
<1>3. c2[h] = t.value /\ \A i \in 0 .. h - 1 : c2[i] = c[i]
  BY <1>2
<1>. HIDE DEF c2
<1>4. EvStep(t, h, c, h + 1, c2)
  BY <1>3 DEF EvStep
<1>5. Stacked(s, S, n, k, e, c2, p + 1)
  <2>1. ASSUME NEW i \in 0 .. n - 1, S[i].type = "operator", e[i] >= 0 PROVE c2[e[i]] = c[e[i]]
    <3>1. n \in 0 .. n /\ i \in 0 .. n
      OBVIOUS
    <3>2. e[i] < e[n] /\ e[i] \in Int
      BY <2>1, <3>1 DEF Stacked
    <3>. QED BY <1>2, <1>3, <2>1, <3>2
  <2>. QED BY <1>1, <2>1, StackedKept
<1>6. /\ Balanced(s, p + 1, p + 1) /\ Outer(s, p + 1, p + 1) = {}
      /\ Reading(s, p + 1, p + 1) = t.value
  BY <1>1, NumberReads
<1>7. Has(s, S, n, k, e, c2, h + 1, p + 1)
  <2>1. Within(s, p + 1, p + 1, Limit(S, n))
    BY <1>6 DEF Within
  <2>2. c2[e[n]] = Reading(s, p + 1, p + 1)
    BY <1>2, <1>3, <1>6
  <2>. QED BY <1>1, <1>2, <1>6, <2>1, <2>2 DEF Has
<1>. QED BY <1>2, <1>4, <1>5, <1>6, <1>7

-----------------------------------------------------------------------------
(* What calculate makes of the queue                                       *)

\* h and c: the number of cells and the cells before each of m tokens.
Evaluated(Q, m, h, c) ==
  /\ h[0] = 0 /\ \A i \in 0 .. m : h[i] \in Nat
  /\ \A i \in 0 .. m - 1 : EvStep(Q[i], h[i], c[i], h[i + 1], c[i + 1])
EvaluatesTo(Q, m, lastH, lastC) ==
  \E h, c : Evaluated(Q, m, h, c) /\ h[m] = lastH /\ c[m] = lastC

\* One more token in the queue is one more step of calculate.
LEMMA QueueExtended ==
  ASSUME NEW m \in Nat, NEW Q, NEW Q2, NEW H, NEW C, NEW H2, NEW C2,
         EvaluatesTo(Q, m, H, C), \A i \in 0 .. m - 1 : Q2[i] = Q[i], EvStep(Q2[m], H, C, H2, C2)
  PROVE  EvaluatesTo(Q2, m + 1, H2, C2)
<1>1. PICK h, c : Evaluated(Q, m, h, c) /\ h[m] = H /\ c[m] = C
  BY DEF EvaluatesTo
<1> DEFINE h2 == [i \in 0 .. m + 1 |-> IF i = m + 1 THEN H2 ELSE h[i]]
           c2 == [i \in 0 .. m + 1 |-> IF i = m + 1 THEN C2 ELSE c[i]]
<1>2. /\ \A i \in 0 .. m : h2[i] = h[i] /\ c2[i] = c[i]
      /\ h2[m + 1] = H2 /\ c2[m + 1] = C2
      /\ \A i \in 0 .. m + 1 : i = m + 1 \/ i \in 0 .. m
      /\ \A i \in 0 .. (m + 1) - 1 : i = m \/ i \in 0 .. m - 1
      /\ 0 \in 0 .. m /\ m \in 0 .. m
  OBVIOUS
<1>. HIDE DEF h2, c2
<1>3. H \in Nat /\ H2 \in Nat
  <2>1. H \in Nat
    BY <1>1, <1>2 DEF Evaluated
  <2>2. H2 = H + 1 \/ (H >= 2 /\ H2 = H - 1) \/ H2 = 1
    BY DEF EvStep
  <2>. QED BY <2>1, <2>2
<1>4. ASSUME NEW i \in 0 .. (m + 1) - 1 PROVE EvStep(Q2[i], h2[i], c2[i], h2[i + 1], c2[i + 1])
  <2>1. CASE i = m
    BY <1>1, <1>2, <2>1
  <2>2. CASE i \in 0 .. m - 1
    <3>1. i \in 0 .. m /\ i + 1 \in 0 .. m
      BY <2>2
    <3>2. EvStep(Q[i], h[i], c[i], h[i + 1], c[i + 1])
      BY <1>1, <2>2 DEF Evaluated
    <3>. QED BY <1>2, <2>2, <3>1, <3>2
  <2>. QED BY <1>2, <2>1, <2>2
<1>5. h2[0] = 0 /\ \A i \in 0 .. m + 1 : h2[i] \in Nat
  BY <1>1, <1>2, <1>3 DEF Evaluated
<1>. QED BY <1>2, <1>4, <1>5 DEF EvaluatesTo, Evaluated

-----------------------------------------------------------------------------
(* Expressions                                                             *)

\* What the lexer makes of the lexemes of an expression.
LEMMA TokenOf ==
  ASSUME NEW s, Expression(s), NEW i \in 1 .. Len(s), NEW t \in getNextToken(s[i])
  PROVE  \/ t.type = "number" /\ s[i].base # "sign" /\ t.value = <<Worth(s[i])>>
         \/ t.type = "open" /\ s[i].base = "sign" /\ s[i].written = "("
         \/ t.type = "close" /\ s[i].base = "sign" /\ s[i].written = ")"
         \/ t.type = "operator" /\ IsArithmetic(s[i]) /\ t = Sign("operator", s[i].written)
<1>1. CASE s[i].base = "sign"
  <2>1. s[i].written \in Arithmetic \cup {"(", ")"}
    BY <1>1 DEF Expression
  <2>2. t = Sign(CASE s[i].written = "(" -> "open" [] s[i].written = ")" -> "close"
                   [] s[i].written \in Operators -> "operator" [] OTHER -> "unknown", s[i].written)
    BY <1>1 DEF getNextToken
  <2>6. "(" \notin Operators /\ ")" \notin Operators
    BY DEF Operators, Arithmetic, Ignored
  <2>3. CASE s[i].written = "("
    BY <1>1, <2>2, <2>3, <2>6 DEF Sign
  <2>4. CASE s[i].written = ")"
    BY <1>1, <2>2, <2>4, <2>6 DEF Sign
  <2>5. CASE s[i].written \in Arithmetic
    <3>1. s[i].written # "(" /\ s[i].written # ")" /\ s[i].written \in Operators
      BY <2>5 DEF Operators, Arithmetic
    <3>2. t = Sign("operator", s[i].written)
      BY <2>2, <3>1
    <3>. QED BY <1>1, <2>5, <3>2 DEF Sign, IsArithmetic
  <2>. QED BY <2>1, <2>3, <2>4, <2>5
<1>2. CASE s[i].base # "sign"
  <2>1. PICK value \in Values(s[i]) : t = Number(<<value>>)
    BY <1>2 DEF getNextToken
  <2>2. \A x, y \in Values(s[i]) : x = y
    BY <1>2 DEF Expression
  <2>3. Worth(s[i]) \in Values(s[i])
    BY <2>1 DEF Worth
  <2>4. value = Worth(s[i])
    BY <2>1, <2>2, <2>3
  <2>. QED BY <1>2, <2>1, <2>4 DEF Number
<1>. QED BY <1>1, <1>2

\* The operand above the stack is there.
Have(s, p) == p >= 1 /\ EndsOperand(s[p])

\* Operand and operator in turn.
LEMMA InTurn ==
  ASSUME NEW s, Len(s) \in Nat, Expression(s), NEW p \in 0 .. Len(s) - 1
  PROVE  /\ s[p + 1].base # "sign" => ~Have(s, p) /\ Have(s, p + 1)
         /\ s[p + 1].base = "sign" /\ s[p + 1].written = "(" => ~Have(s, p) /\ ~Have(s, p + 1)
         /\ s[p + 1].base = "sign" /\ s[p + 1].written = ")" => p \in 1 .. Len(s) - 1 /\ Have(s, p) /\ Have(s, p + 1)
         /\ IsArithmetic(s[p + 1]) => (p = 0 \/ Have(s, p)) /\ ~Have(s, p + 1)
<1>1. p + 1 \in 1 .. Len(s) /\ p + 1 >= 1
  OBVIOUS
<1>2. Have(s, p + 1) <=> EndsOperand(s[p + 1])
  BY <1>1 DEF Have
<1>3. CASE p = 0
  <2>1. ~Have(s, p)
    BY <1>3 DEF Have
  <2>2. s[p + 1].base = "sign" => s[p + 1].written \in {"(", "+", "-"}
    BY <1>3 DEF Expression
  <2>3. s[p + 1].base = "sign" => s[p + 1].written # ")"
    BY <2>2
  <2>. QED BY <1>2, <1>3, <2>1, <2>3 DEF EndsOperand, IsArithmetic, Arithmetic
<1>4. CASE p # 0
  <2>1. p + 1 \in 2 .. Len(s) /\ (p + 1) - 1 = p /\ p \in 1 .. Len(s) - 1 /\ p >= 1
    BY <1>4
  <2>2. EndsOperand(s[p]) <=> s[p + 1].base = "sign" /\ s[p + 1].written # "("
    BY <2>1 DEF Expression
  <2>3. Have(s, p) <=> s[p + 1].base = "sign" /\ s[p + 1].written # "("
    BY <2>1, <2>2 DEF Have
  <2>4. ")" # "(" /\ "(" \notin Arithmetic /\ ")" \notin Arithmetic
    BY DEF Arithmetic
  <2>. QED BY <1>2, <2>1, <2>3, <2>4 DEF EndsOperand, IsArithmetic
<1>. QED BY <1>3, <1>4

\* The priorities of the code are the ranks.
LEMMA PriorityIsRank ==
  ASSUME NEW t, t.value \in Arithmetic PROVE getpriority(t) = Rank(t.value) + 4
<1>1. CASE t.value = "^"
  BY <1>1 DEF getpriority, Rank
<1>2. CASE t.value \in {"*", "/", "%"}
  BY <1>2 DEF getpriority, Rank
<1>3. CASE t.value \in {"+", "-"}
  BY <1>3 DEF getpriority, Rank
<1>. QED BY <1>1, <1>2, <1>3 DEF Arithmetic

-----------------------------------------------------------------------------
(* makepolishform                                                          *)

Meant == input.tree # <<>>
Placed == Read - Held

\* The stack and the queue stand for the lexemes placed: k is where the entries
\* of the stack are in the text, e where calculate will have their left operands
\* among its H cells C.
Parsed(H, C, k, e) ==
  /\ EvaluatesTo(q, inptr, H, C)
  /\ Stacked(input.text, sk, top, k, e, C, Placed)
  /\ Have(input.text, Placed) =>
       /\ Has(input.text, sk, top, k, e, C, H, Placed)
       /\ Polish /\ tkn.type = "none" => Outer(input.text, Start(k, top), Placed) = {}
       /\ tkn.type = "operator" => Within(input.text, Start(k, top), Placed, Rank(tkn.value))
  /\ ~Have(input.text, Placed) => Wants(top, k, e, H, Placed)

\* The token in hand is the last lexeme read.
Lexed ==
  /\ input \in Inputs
  /\ DOMAIN q = Index /\ DOMAIN sk = Index
  /\ Polish /\ tkn.type # "none" => Read >= 1 /\ tkn \in getNextToken(input.text[Read])
  /\ step = "drain" => text = <<>> /\ tkn.type = "none"

\* The queue ahead of calculate leaves one cell with the tree, and the stack holds
\* what the tokens before outptr left.
Evaluates(h, c) ==
  /\ Evaluated(q, inptr, h, c) /\ h[inptr] = 1 /\ c[inptr][0] = input.tree
  /\ top = h[outptr]
  /\ \A j \in 0 .. top - 1 : sk[j].type = "number" /\ sk[j].value = c[outptr][j]

AnswerInv ==
  /\ Lexed
  /\ Meant /\ step \in {"polish", "drain"} => \E H, C, k, e : Parsed(H, C, k, e)
  /\ Meant /\ step = "drain" => Open = {}
  /\ Meant /\ step = "calculate" => \E h, c : Evaluates(h, c)
  /\ AnswerIsExpected

\* An input with a tree is an expression, and the tree is its reading.
LEMMA MeantReads ==
  ASSUME input \in Inputs, Meant
  PROVE  /\ input.text \in Seq(Lexemes) /\ Len(input.text) \in Nat /\ Len(input.text) > 0
         /\ Expression(input.text) /\ Matched(input.text)
         /\ input.tree = Reading(input.text, 1, Len(input.text))
<1>1. PICK n \in 0 .. MAXTOKENS : input.text \in [1 .. n -> Lexemes]
  BY CalculatorAssumption
<1>2. input.text \in Seq(Lexemes) /\ Len(input.text) = n
  BY <1>1
<1>3. Expression(input.text) /\ input.tree = Reading(input.text, 1, Len(input.text))
  BY CalculatorAssumption DEF Meant
<1>4. Len(input.text) > 0 /\ Matched(input.text)
  BY <1>3 DEF Expression
<1>. QED BY <1>2, <1>3, <1>4

\* The ranges of the counters, and room for what a step puts down.
LEMMA Counters ==
  ASSUME IInv, IInv', Lexed
  PROVE  /\ MAXTOKENS \in Nat /\ inptr \in Nat /\ (inptr' = inptr + 1 => inptr \in Index)
         /\ (top \in Nat /\ top' = top + 1 => top \in Index)
         /\ Held \in {0, 1} /\ (tkn.type = "none" <=> Held = 0)
         /\ Len(input.text) \in Nat /\ Len(text) \in Nat
         /\ input.text \in Seq(Lexemes) /\ text \in Seq(Lexemes)
<1>1. PICK n \in 0 .. MAXTOKENS : input.text \in [1 .. n -> Lexemes]
  BY CalculatorAssumption DEF Lexed
<1>2. input.text \in Seq(Lexemes) /\ Len(input.text) \in Nat
  BY <1>1
<1>3. text \in Seq(Lexemes) /\ Len(text) \in Nat
  BY LenProperties DEF IInv, Room
<1>4. MAXTOKENS \in Nat /\ inptr \in Nat /\ inptr' \in 0 .. MAXTOKENS /\ top' \in Int /\ top' <= MAXTOKENS
  BY CalculatorAssumption DEF IInv, TypeOK
<1>. QED BY <1>2, <1>3, <1>4 DEF Index, Held

\* The token read and not yet placed, and the lexeme behind those placed.
LEMMA InHandIs ==
  ASSUME IInv, DepthInv, Lexed, Meant, Polish, tkn.type # "none"
  PROVE  /\ Placed \in 0 .. Len(input.text) - 1 /\ Read = Placed + 1
         /\ tkn \in getNextToken(input.text[Placed + 1])
<1>1. Read >= 1 /\ tkn \in getNextToken(input.text[Read])
  BY DEF Lexed
<1>2. Held = 1
  BY DEF Held
<1>3. Len(input.text) \in Nat /\ Len(text) \in Nat
  BY LenProperties DEF IInv, Room, DepthInv
<1>4. Read \in Nat /\ Read <= Len(input.text)
  BY <1>3 DEF Read, DepthInv
<1>5. Placed = Read - 1
  BY <1>2 DEF Placed
<1>. QED BY <1>1, <1>4, <1>5, <1>3

\* At the start nothing is placed.
LEMMA InitAnswer == Init => AnswerInv
<1>. SUFFICES ASSUME Init PROVE AnswerInv
  OBVIOUS
<1>1. /\ input \in Inputs /\ text = input.text /\ tkn.type = "none" /\ step = "polish"
      /\ DOMAIN q = Index /\ DOMAIN sk = Index /\ inptr = 0 /\ top = 0
  BY DEF Init, NoToken, Sign
<1>2. Lexed /\ AnswerIsExpected
  BY <1>1 DEF Lexed, AnswerIsExpected, Polish
<1>3. ASSUME Meant PROVE \E H, C, k, e : Parsed(H, C, k, e)
  <2> DEFINE h == [i \in 0 .. 0 |-> 0]
             c == [i \in 0 .. 0 |-> <<>>]
             e == [i \in 0 .. 0 |-> 0]
             k == [i \in 0 .. 0 |-> 1]
  <2>1. h[0] = 0 /\ e[0] = 0
    OBVIOUS
  <2>. HIDE DEF h, e
  <2>2. 0 .. 0 - 1 = {} /\ 0 .. 0 = {0}
    OBVIOUS
  <2>3. EvaluatesTo(q, inptr, 0, c[0])
    <3>1. Evaluated(q, 0, h, c)
      BY <2>1, <2>2 DEF Evaluated
    <3>. QED BY <1>1, <2>1, <3>1 DEF EvaluatesTo
  <2>. HIDE DEF c, k
  <2>4. Placed = 0
    <3>1. Len(input.text) \in Nat
      BY <1>1, <1>3, MeantReads
    <3>. QED BY <1>1, <3>1 DEF Placed, Read, Held
  <2>5. Stacked(input.text, sk, top, k, e, c[0], Placed)
    BY <1>1, <2>1, <2>2 DEF Stacked
  <2>6. ~Have(input.text, Placed)
    BY <2>4 DEF Have
  <2>7. Wants(top, k, e, 0, Placed)
    BY <1>1, <2>1, <2>4 DEF Wants, Start
  <2>. QED BY <2>3, <2>5, <2>6, <2>7 DEF Parsed
<1>. QED BY <1>1, <1>2, <1>3 DEF AnswerInv

\* Each step leaves the last lexeme read in hand, or places it.
LEMMA LexedKept == IInv /\ IInv' /\ DepthInv /\ Lexed /\ [Next]_vars => Lexed'
<1>. SUFFICES ASSUME IInv, IInv', DepthInv, Lexed, [Next]_vars PROVE Lexed'
  OBVIOUS
<1>1. /\ input' = input /\ (DOMAIN q' = DOMAIN q) /\ (DOMAIN sk' = DOMAIN sk)
      /\ \/ Take
         \/ tkn' = NoToken /\ step' = step /\ Polish
         \/ UNCHANGED <<text, tkn, step>>
         \/ Terminate
         \/ step' \in {"calculate", "answered", "astray"}
  <2>1. CASE UNCHANGED vars
    BY <2>1 DEF vars
  <2>4. CASE Calculate
    BY <2>4 DEF Calculate, Lexed
  <2>2. CASE makepolishform
    BY <2>2, <2>4 DEF makepolishform, Take, TakeNumber, TakeOpen, CloseUnloads, CloseEnds, OperatorUnloads,
                OperatorStays, GoAstray, Skip, Terminate, Drain, Unload, Push, Done
  <2>3. CASE calculate
    BY <2>3 DEF calculate, GetNumber, GetOperator, PassOver, Answer, Get, Evaluating
  <2>. QED BY <2>1, <2>2, <2>3 DEF Next
<1>2. input' \in Inputs /\ DOMAIN q' = Index /\ DOMAIN sk' = Index
  BY <1>1 DEF Lexed
<1>3. CASE Take
  <2>1. Polish /\ text # <<>> /\ tkn' \in getNextToken(Head(text)) /\ text' = Tail(text) /\ step' = step
    BY <1>3 DEF Take
  <2>2. text \in Seq(Lexemes) /\ Len(text) \in Nat /\ Len(input.text) \in Nat
    BY Counters
  <2>3. Len(text) >= 1 /\ Len(text') = Len(text) - 1 /\ Head(text) = text[1]
    BY <2>1, <2>2, HeadTailProperties, EmptySeq
  <2>4. Read \in Nat /\ Read' = Read + 1 /\ text[1] = input.text[Read + 1]
    <3>1. Read \in Nat /\ \A i \in 1 .. Len(text) : text[i] = input.text[Read + i]
      BY <2>1 DEF DepthInv
    <3>2. Read = Len(input.text) - Len(text) /\ Read' = Len(input.text) - Len(text')
      BY <1>1 DEF Read
    <3>3. Read' = Read + 1
      BY <2>2, <2>3, <3>2
    <3>. QED BY <2>2, <2>3, <3>1, <3>3
  <2>5. Read' >= 1 /\ tkn' \in getNextToken(input'.text[Read'])
    <3>1. Head(text) = input'.text[Read']
      BY <1>1, <2>3, <2>4
    <3>. QED BY <2>1, <2>4, <3>1
  <2>. QED BY <1>2, <2>1, <2>5 DEF Lexed, Polish
<1>4. CASE tkn' = NoToken /\ step' = step /\ Polish
  BY <1>2, <1>4 DEF Lexed, Polish, NoToken, Sign
<1>5. CASE UNCHANGED <<text, tkn, step>>
  <2>1. Read' = Read
    BY <1>1, <1>5 DEF Read
  <2>. QED BY <1>1, <1>2, <1>5, <2>1 DEF Lexed, Polish
<1>6. CASE Terminate
  BY <1>2, <1>6 DEF Lexed, Polish, Terminate
<1>7. CASE step' \in {"calculate", "answered", "astray"}
  BY <1>2, <1>7 DEF Lexed, Polish
<1>. QED BY <1>1, <1>3, <1>4, <1>5, <1>6, <1>7

\* The operator on top of the stack goes to the queue, when it has both operands.
LEMMA UnloadParsed ==
  ASSUME IInv, IInv', Lexed, Meant, top \in Nat, top > 0, seek.type # "open", Unload,
         UNCHANGED <<input, text, tkn, step>>, ~(Polish /\ tkn.type = "none"),
         NEW H, NEW C, NEW k, NEW e, Parsed(H, C, k, e),
         Placed \in 1 .. Len(input.text), Have(input.text, Placed),
         tkn.type = "operator" => Rank(seek.value) <= Rank(tkn.value)
  PROVE  \E H2, C2, k2, e2 : Parsed(H2, C2, k2, e2)'
<1> DEFINE s == input.text  p == Placed
<1>1. /\ inptr \in Nat /\ inptr \in Index /\ input.text \in Seq(Lexemes)
      /\ q' = [q EXCEPT ![inptr] = seek] /\ inptr' = inptr + 1 /\ top' = top - 1 /\ sk' = sk
      /\ Placed' = Placed /\ Polish' = Polish
  <2>1. inptr' = inptr + 1
    BY DEF Unload
  <2>2. Placed' = Placed
    BY DEF Placed, Read, Held
  <2>. QED BY <2>1, <2>2, Counters DEF Unload, Polish
<1>2. (\A i \in 0 .. inptr - 1 : q'[i] = q[i]) /\ q'[inptr] = sk[top - 1]
  BY <1>1 DEF Lexed, Index, seek
<1>3. /\ EvaluatesTo(q, inptr, H, C) /\ Stacked(input.text, sk, top, k, e, C, Placed)
      /\ Has(input.text, sk, top, k, e, C, H, Placed)
  BY DEF Parsed
<1>4. PICK e2, h2, c2 :
        /\ EvStep(sk[top - 1], H, C, h2, c2)
        /\ Stacked(input.text, sk, top - 1, k, e2, c2, Placed)
        /\ Has(input.text, sk, top - 1, k, e2, c2, h2, Placed)
        /\ Within(input.text, Start(k, top - 1), Placed, Rank(sk[top - 1].value))
  <2>1. sk[top - 1].type # "open"
    BY DEF seek
  <2>. QED BY <1>1, <1>3, <2>1, OperatorReduces
<1>5. EvaluatesTo(q', inptr + 1, h2, c2)
  BY <1>1, <1>2, <1>3, <1>4, QueueExtended
<1>6. tkn.type = "operator" => Within(input.text, Start(k, top - 1), Placed, Rank(tkn.value))
  <2>1. \A op : Rank(op) \in Int
    BY RankType
  <2>. QED BY <1>4, <2>1 DEF Within, seek
<1>7. Parsed(h2, c2, k, e2)'
  BY <1>1, <1>4, <1>5, <1>6 DEF Parsed
<1>. QED BY <1>7

\* A number goes to the queue.
LEMMA NumberParsed ==
  ASSUME IInv, IInv', DepthInv, Lexed, Meant, top \in Nat, TakeNumber,
         NEW H, NEW C, NEW k, NEW e, Parsed(H, C, k, e)
  PROVE  \E H2, C2, k2, e2 : Parsed(H2, C2, k2, e2)'
<1>1. /\ Polish /\ tkn.type = "number" /\ q' = [q EXCEPT ![inptr] = tkn] /\ inptr' = inptr + 1
      /\ UNCHANGED <<sk, top, input, text, step>> /\ tkn'.type = "none"
  BY DEF TakeNumber, Done, NoToken, Sign
<1>2. /\ inptr \in Nat /\ inptr \in Index /\ input.text \in Seq(Lexemes) /\ Len(input.text) \in Nat
      /\ Expression(input.text)
  BY <1>1, Counters, MeantReads DEF Lexed
<1>3. /\ Placed \in 0 .. Len(input.text) - 1 /\ Read = Placed + 1
      /\ tkn \in getNextToken(input.text[Placed + 1])
  BY <1>1, InHandIs
<1>4. Placed' = Placed + 1
  <2>1. Read' = Read /\ Held' = 0
    BY <1>1 DEF Read, Held
  <2>. QED BY <1>3, <2>1 DEF Placed
<1>5. input.text[Placed + 1].base # "sign" /\ tkn.value = <<Worth(input.text[Placed + 1])>>
  <2>1. Placed + 1 \in 1 .. Len(input.text)
    BY <1>2, <1>3
  <2>. QED BY <1>1, <1>2, <1>3, <2>1, TokenOf
<1>6. ~Have(input.text, Placed) /\ Have(input.text, Placed + 1)
  BY <1>2, <1>3, <1>5, InTurn
<1>7. /\ EvaluatesTo(q, inptr, H, C) /\ Stacked(input.text, sk, top, k, e, C, Placed)
      /\ Wants(top, k, e, H, Placed)
  BY <1>6 DEF Parsed
<1>8. PICK h2, c2 :
        /\ EvStep(tkn, H, C, h2, c2)
        /\ Stacked(input.text, sk, top, k, e, c2, Placed + 1)
        /\ Has(input.text, sk, top, k, e, c2, h2, Placed + 1)
        /\ Outer(input.text, Start(k, top), Placed + 1) = {}
  BY <1>1, <1>2, <1>3, <1>5, <1>7, NumberPlaced
<1>9. EvaluatesTo(q', inptr + 1, h2, c2)
  <2>1. (\A i \in 0 .. inptr - 1 : q'[i] = q[i]) /\ q'[inptr] = tkn
    BY <1>1, <1>2 DEF Lexed, Index
  <2>. QED BY <1>2, <1>7, <1>8, <2>1, QueueExtended
<1>10. Parsed(h2, c2, k, e)'
  BY <1>1, <1>4, <1>6, <1>8, <1>9 DEF Parsed
<1>. QED BY <1>10

\* A ( goes to the stack.
LEMMA OpenParsed ==
  ASSUME IInv, IInv', DepthInv, Lexed, Meant, top \in Nat, TakeOpen,
         NEW H, NEW C, NEW k, NEW e, Parsed(H, C, k, e)
  PROVE  \E H2, C2, k2, e2 : Parsed(H2, C2, k2, e2)'
<1>1. /\ Polish /\ tkn.type = "open" /\ sk' = [sk EXCEPT ![top] = tkn] /\ top' = top + 1
      /\ UNCHANGED <<q, inptr, input, text, step>> /\ tkn'.type = "none"
  BY DEF TakeOpen, Push, Done, NoToken, Sign
<1>2. /\ top \in Index /\ input.text \in Seq(Lexemes) /\ Len(input.text) \in Nat
      /\ Expression(input.text)
  BY <1>1, Counters, MeantReads DEF Lexed
<1>3. /\ Placed \in 0 .. Len(input.text) - 1 /\ Read = Placed + 1
      /\ tkn \in getNextToken(input.text[Placed + 1])
  BY <1>1, InHandIs
<1>4. Placed' = Placed + 1
  <2>1. Read' = Read /\ Held' = 0
    BY <1>1 DEF Read, Held
  <2>. QED BY <1>3, <2>1 DEF Placed
<1>5. input.text[Placed + 1].base = "sign" /\ input.text[Placed + 1].written = "("
  <2>1. Placed + 1 \in 1 .. Len(input.text)
    BY <1>2, <1>3
  <2>. QED BY <1>1, <1>2, <1>3, <2>1, TokenOf
<1>6. ~Have(input.text, Placed) /\ ~Have(input.text, Placed + 1)
  BY <1>2, <1>3, <1>5, InTurn
<1>7. /\ EvaluatesTo(q, inptr, H, C) /\ Stacked(input.text, sk, top, k, e, C, Placed)
      /\ Wants(top, k, e, H, Placed)
  BY <1>6 DEF Parsed
<1>8. (\A i \in 0 .. top - 1 : sk'[i] = sk[i]) /\ sk'[top] = tkn
  BY <1>1, <1>2 DEF Lexed, Index
<1>9. PICK k2, e2 : /\ Stacked(input.text, sk', top + 1, k2, e2, C, Placed + 1)
                    /\ Wants(top + 1, k2, e2, H, Placed + 1)
  BY <1>1, <1>2, <1>3, <1>5, <1>7, <1>8, ParenthesisPlaced
<1>10. Parsed(H, C, k2, e2)'
  BY <1>1, <1>4, <1>6, <1>7, <1>9 DEF Parsed
<1>. QED BY <1>10

\* A ) unloads the operators down to its (, and both are dropped.
LEMMA CloseParsed ==
  ASSUME IInv, IInv', DepthInv, Lexed, Meant, top \in Nat, CloseUnloads \/ CloseEnds,
         NEW H, NEW C, NEW k, NEW e, Parsed(H, C, k, e)
  PROVE  \E H2, C2, k2, e2 : Parsed(H2, C2, k2, e2)'
<1>1. Polish /\ tkn.type = "close"
  BY DEF CloseUnloads, CloseEnds
<1>2. /\ input.text \in Seq(Lexemes) /\ Len(input.text) \in Nat
      /\ Expression(input.text) /\ Matched(input.text)
  BY MeantReads DEF Lexed
<1>3. /\ Placed \in 0 .. Len(input.text) - 1 /\ Read = Placed + 1
      /\ tkn \in getNextToken(input.text[Placed + 1])
  BY <1>1, InHandIs
<1>4. input.text[Placed + 1].base = "sign" /\ input.text[Placed + 1].written = ")"
  <2>1. Placed + 1 \in 1 .. Len(input.text)
    BY <1>2, <1>3
  <2>. QED BY <1>1, <1>2, <1>3, <2>1, TokenOf
<1>5. /\ Placed \in 1 .. Len(input.text) - 1
      /\ Have(input.text, Placed) /\ Have(input.text, Placed + 1)
  BY <1>2, <1>3, <1>4, InTurn
<1>6. CASE CloseUnloads
  <2>1. top > 0 /\ seek.type # "open" /\ Unload /\ UNCHANGED <<input, text, tkn, step>>
    BY <1>6 DEF CloseUnloads
  <2>2. Placed \in 1 .. Len(input.text)
    BY <1>2, <1>5
  <2>. QED BY <1>1, <1>5, <2>1, <2>2, UnloadParsed
<1>7. CASE CloseEnds
  <2>1. /\ ~(top > 0 /\ seek.type # "open") /\ top' = top - 1 /\ tkn'.type = "none"
        /\ UNCHANGED <<q, inptr, sk, input, text, step>>
    BY <1>7 DEF CloseEnds, Done, NoToken, Sign
  <2>2. top > 0 /\ sk[top - 1].type = "open"
    BY <1>1, <1>2, <2>1, CloseHasOpen DEF seek
  <2>3. Placed' = Placed + 1
    <3>1. Read' = Read /\ Held' = 0
      BY <2>1 DEF Read, Held
    <3>. QED BY <1>3, <3>1 DEF Placed
  <2>4. /\ EvaluatesTo(q, inptr, H, C) /\ Stacked(input.text, sk, top, k, e, C, Placed)
        /\ Has(input.text, sk, top, k, e, C, H, Placed)
    BY <1>5 DEF Parsed
  <2>5. /\ Stacked(input.text, sk, top - 1, k, e, C, Placed + 1)
        /\ Has(input.text, sk, top - 1, k, e, C, H, Placed + 1)
        /\ Outer(input.text, Start(k, top - 1), Placed + 1) = {}
    BY <1>2, <1>4, <1>5, <2>2, <2>4, ParenthesisTaken
  <2>6. Parsed(H, C, k, e)'
    BY <1>5, <2>1, <2>3, <2>4, <2>5 DEF Parsed
  <2>. QED BY <2>6
<1>. QED BY <1>6, <1>7
\* What is on the stack is a parenthesis or an operator calculate evaluates.
LEMMA OperatorOnTop ==
  ASSUME NEW s, NEW n \in Nat, n > 0, NEW p, NEW S, NEW k, NEW e, NEW c,
         Stacked(s, S, n, k, e, c, p)
  PROVE  S[n - 1].type = "open" \/ (S[n - 1].type = "operator" /\ S[n - 1].value \in Arithmetic)
<1>1. n - 1 \in 0 .. n - 1
  OBVIOUS
<1>2. Waits(s, S, k, e, c, n - 1)
  BY <1>1 DEF Stacked
<1>. QED BY <1>2 DEF Waits, Sign, IsArithmetic

\* An operator unloads those that bind no looser, and waits on the stack.
LEMMA OperatorParsed ==
  ASSUME IInv, IInv', DepthInv, Lexed, Meant, top \in Nat, OperatorUnloads \/ OperatorStays,
         NEW H, NEW C, NEW k, NEW e, Parsed(H, C, k, e)
  PROVE  \E H2, C2, k2, e2 : Parsed(H2, C2, k2, e2)'
<1>1. Polish /\ tkn.type = "operator"
  BY DEF OperatorUnloads, OperatorStays
<1>2. /\ input.text \in Seq(Lexemes) /\ Len(input.text) \in Nat
      /\ Expression(input.text) /\ Len(input.text) > 0
  BY MeantReads DEF Lexed
<1>3. /\ Placed \in 0 .. Len(input.text) - 1 /\ Read = Placed + 1
      /\ tkn \in getNextToken(input.text[Placed + 1])
  BY <1>1, InHandIs
<1>4. /\ IsArithmetic(input.text[Placed + 1])
      /\ tkn = Sign("operator", input.text[Placed + 1].written)
  <2>1. Placed + 1 \in 1 .. Len(input.text)
    BY <1>2, <1>3
  <2>. QED BY <1>1, <1>2, <1>3, <2>1, TokenOf
<1>5. (Placed = 0 \/ Have(input.text, Placed)) /\ ~Have(input.text, Placed + 1)
  BY <1>2, <1>3, <1>4, InTurn
<1>6. tkn.value = input.text[Placed + 1].written /\ tkn.value \in Arithmetic
  BY <1>4 DEF Sign, IsArithmetic
<1>7. EvaluatesTo(q, inptr, H, C) /\ Stacked(input.text, sk, top, k, e, C, Placed)
  BY DEF Parsed
<1>8. top > 0 => Placed # 0
  <2>1. top > 0 => k[0] \in 1 .. Placed
    BY <1>7 DEF Stacked
  <2>. QED BY <2>1
<1>9. top > 0 => seek.type = "open" \/ (seek.type = "operator" /\ seek.value \in Arithmetic)
  BY <1>7, OperatorOnTop DEF seek
<1>10. CASE OperatorUnloads
  <2>1. top > 0 /\ Looser(tkn) /\ Unload /\ UNCHANGED <<input, text, tkn, step>>
    BY <1>10 DEF OperatorUnloads, Looser
  <2>2. seek.type # "open"
    <3>1. Known(tkn) /\ Known(seek)
      BY <1>1, <2>1 DEF DepthInv, seek
    <3>. QED BY <1>1, <2>1, <3>1, ParenthesisStays
  <2>3. Rank(seek.value) <= Rank(tkn.value)
    <3>1. getpriority(seek) <= getpriority(tkn)
      BY <2>1 DEF Looser
    <3>2. getpriority(seek) = Rank(seek.value) + 4 /\ getpriority(tkn) = Rank(tkn.value) + 4
      BY <1>6, <1>9, <2>1, <2>2, PriorityIsRank
    <3>3. Rank(seek.value) \in Int /\ Rank(tkn.value) \in Int
      BY RankType
    <3>. QED BY <3>1, <3>2, <3>3
  <2>4. Placed \in 1 .. Len(input.text) /\ Have(input.text, Placed)
    BY <1>2, <1>3, <1>5, <1>8, <2>1
  <2>. QED BY <1>1, <2>1, <2>2, <2>3, <2>4, UnloadParsed
<1>11. CASE OperatorStays
  <2>1. /\ ~Looser(tkn) /\ sk' = [sk EXCEPT ![top] = tkn] /\ top' = top + 1
        /\ UNCHANGED <<q, inptr, input, text, step>> /\ tkn'.type = "none"
    BY <1>11 DEF OperatorStays, Push, Done, NoToken, Sign
  <2>2. top \in Index
    BY <2>1, Counters
  <2>3. (\A i \in 0 .. top - 1 : sk'[i] = sk[i]) /\ sk'[top] = tkn
    BY <2>1, <2>2 DEF Lexed, Index
  <2>4. Placed' = Placed + 1
    <3>1. Read' = Read /\ Held' = 0
      BY <2>1 DEF Read, Held
    <3>. QED BY <1>3, <3>1 DEF Placed
  <2>5. \E k2, e2 : /\ Stacked(input.text, sk', top + 1, k2, e2, C, Placed + 1)
                    /\ Wants(top + 1, k2, e2, H, Placed + 1)
    <3>1. CASE Placed = 0
      <4>1. top = 0
        BY <1>8, <3>1
      <4>2. ~Have(input.text, Placed)
        BY <3>1 DEF Have
      <4>3. H = 0
        BY <1>7, <4>1, <4>2 DEF Parsed, Wants, Stacked
      <4>4. Placed + 1 = 1 /\ top + 1 = 1
        BY <3>1, <4>1
      <4>5. IsArithmetic(input.text[1]) /\ sk'[0] = Sign("operator", input.text[1].written)
        BY <1>4, <2>3, <4>1, <4>4
      <4>6. \E k2, e2 : Stacked(input.text, sk', 1, k2, e2, C, 1) /\ Wants(1, k2, e2, 0, 1)
        BY <1>2, <4>5, SignPlaced
      <4>. QED BY <4>3, <4>4, <4>6
    <3>2. CASE Placed # 0
      <4>1. Have(input.text, Placed) /\ Placed \in 1 .. Len(input.text) - 1
        BY <1>2, <1>3, <1>5, <3>2
      <4>2. /\ Has(input.text, sk, top, k, e, C, H, Placed)
            /\ Within(input.text, Start(k, top), Placed, Rank(tkn.value))
        BY <1>1, <4>1 DEF Parsed
      <4>3. Rank(tkn.value) <= Limit(sk, top)
        <5>1. Rank(tkn.value) \in 1 .. 3 /\ Rank(seek.value) \in 1 .. 3
          BY RankType
        <5>2. CASE top = 0 \/ seek.type = "open"
          BY <5>1, <5>2 DEF Limit, seek
        <5>3. CASE top # 0 /\ seek.type # "open"
          <6>1. ~(getpriority(seek) <= getpriority(tkn))
            BY <2>1, <5>3 DEF Looser
          <6>2. getpriority(seek) = Rank(seek.value) + 4 /\ getpriority(tkn) = Rank(tkn.value) + 4
            BY <1>6, <1>9, <5>3, PriorityIsRank
          <6>3. Limit(sk, top) = Rank(seek.value) - 1
            BY <5>3 DEF Limit, seek
          <6>. QED BY <5>1, <6>1, <6>2, <6>3
        <5>. QED BY <5>2, <5>3
      <4>. QED BY <1>2, <1>4, <1>6, <1>7, <2>3, <4>1, <4>2, <4>3, OperatorPlaced
    <3>. QED BY <3>1, <3>2
  <2>6. PICK k2, e2 : /\ Stacked(input.text, sk', top + 1, k2, e2, C, Placed + 1)
                      /\ Wants(top + 1, k2, e2, H, Placed + 1)
    BY <2>5
  <2>7. Parsed(H, C, k2, e2)'
    BY <1>5, <1>7, <2>1, <2>4, <2>6 DEF Parsed
  <2>. QED BY <2>7
<1>. QED BY <1>10, <1>11

\* Reading a lexeme places nothing.
LEMMA TakeParsed ==
  ASSUME IInv, IInv', DepthInv, Lexed, Take,
         NEW H, NEW C, NEW k, NEW e, Parsed(H, C, k, e)
  PROVE  Parsed(H, C, k, e)'
<1>1. /\ Polish /\ tkn.type = "none" /\ text # <<>> /\ tkn' \in getNextToken(Head(text))
      /\ text' = Tail(text) /\ UNCHANGED <<q, inptr, sk, top, input, step>>
  BY DEF Take
<1>2. tkn'.type # "none"
  BY <1>1, LexerKnows
<1>3. Placed' = Placed
  <2>1. text \in Seq(Lexemes) /\ Len(text) \in Nat /\ Len(input.text) \in Nat
    BY Counters
  <2>2. Len(text') = Len(text) - 1
    BY <1>1, <2>1, HeadTailProperties, EmptySeq
  <2>3. Read' = Read + 1 /\ Read \in Int
    BY <1>1, <2>1, <2>2 DEF Read
  <2>. QED BY <1>1, <1>2, <2>3 DEF Placed, Held
<1>4. Have(input.text, Placed) => Outer(input.text, Start(k, top), Placed) = {}
  BY <1>1 DEF Parsed
<1>5. Have(input.text, Placed) => \A r : Within(input.text, Start(k, top), Placed, r)
  BY <1>4 DEF Within
<1>. QED BY <1>1, <1>2, <1>3, <1>5 DEF Parsed

\* At the end of the text every parenthesis has been taken from the stack.
LEMMA TerminateParsed ==
  ASSUME IInv, DepthInv, Lexed, Meant, top \in Nat, Terminate
  PROVE  /\ Open' = {}
         /\ \A H, C, k, e : Parsed(H, C, k, e) => Parsed(H, C, k, e)'
<1>1. /\ Polish /\ tkn.type = "none" /\ text = <<>> /\ step' = "drain"
      /\ UNCHANGED <<q, inptr, sk, top, input, text, tkn>>
  BY DEF Terminate
<1>2. Placed' = Placed
  BY <1>1 DEF Placed, Read, Held
<1>3. ASSUME NEW H, NEW C, NEW k, NEW e, Parsed(H, C, k, e) PROVE Parsed(H, C, k, e)'
  BY <1>1, <1>2, <1>3 DEF Parsed, Polish
<1>4. Open = {}
  <2>1. IsFiniteSet(Open) /\ Cardinality(Open) \in Nat
    <3>1. IsFiniteSet(0 .. top - 1)
      BY FS_Interval
    <3>2. Open \in SUBSET (0 .. top - 1)
      BY DEF Open
    <3>. QED BY <3>1, <3>2, FS_Subset, FS_CardinalityType
  <2>2. Len(input.text) \in Nat /\ Expression(input.text) /\ Matched(input.text)
    BY MeantReads DEF Lexed
  <2>3. Read = Len(input.text)
    BY <1>1, <2>2 DEF Read
  <2>4. Depth(input.text, Read) = 0
    BY <2>2, <2>3 DEF Expression
  <2>5. Cardinality(Open) = 0
    BY <1>1, <2>1, <2>2, <2>4 DEF DepthInv, InHand
  <2>. QED BY <2>1, <2>5, FS_EmptySet
<1>5. Open' = Open
  BY <1>1 DEF Open
<1>. QED BY <1>3, <1>4, <1>5

\* All lexemes are placed: what is on the stack are operators.
LEMMA AllPlaced ==
  ASSUME IInv, Lexed, Meant, step = "drain"
  PROVE  Placed = Len(input.text) /\ Placed \in 1 .. Len(input.text) /\ Have(input.text, Placed)
<1>1. text = <<>> /\ tkn.type = "none"
  BY DEF Lexed
<1>2. Len(input.text) \in Nat /\ Len(input.text) > 0 /\ Expression(input.text)
  BY MeantReads DEF Lexed
<1>3. Placed = Len(input.text)
  BY <1>1, <1>2 DEF Placed, Read, Held
<1>. QED BY <1>2, <1>3 DEF Have, Expression

\* The operators left on the stack have both operands.
LEMMA DrainParsed ==
  ASSUME IInv, IInv', Lexed, Meant, top \in Nat, Drain, Open = {},
         NEW H, NEW C, NEW k, NEW e, Parsed(H, C, k, e)
  PROVE  Open' = {} /\ \E H2, C2, k2, e2 : Parsed(H2, C2, k2, e2)'
<1>1. step = "drain" /\ top > 0 /\ Unload /\ UNCHANGED <<input, text, tkn, step>>
  BY DEF Drain
<1>2. top' = top - 1 /\ sk' = sk /\ tkn.type = "none"
  BY <1>1 DEF Unload, Lexed
<1>3. \A i \in 0 .. top' - 1 : i \in 0 .. top - 1
  BY <1>2
<1>4. Open' = {}
  BY <1>2, <1>3 DEF Open
<1>5. seek.type # "open"
  <2>1. top - 1 \in 0 .. top - 1
    BY <1>1
  <2>. QED BY <2>1 DEF Open, seek
<1>6. Placed \in 1 .. Len(input.text) /\ Have(input.text, Placed) /\ ~Polish
  BY <1>1, AllPlaced DEF Polish
<1>7. \E H2, C2, k2, e2 : Parsed(H2, C2, k2, e2)'
  BY <1>1, <1>2, <1>5, <1>6, UnloadParsed
<1>. QED BY <1>4, <1>7

-----------------------------------------------------------------------------
(* calculate                                                               *)

\* The queue is the whole text in Polish form.
LEMMA CalculateStarts ==
  ASSUME IInv, Lexed, Meant, top \in Nat, Calculate,
         NEW H, NEW C, NEW k, NEW e, Parsed(H, C, k, e)
  PROVE  \E h, c : Evaluates(h, c)'
<1>1. step = "drain" /\ top = 0 /\ top' = 0 /\ UNCHANGED <<q, inptr, outptr, input>>
  BY DEF Calculate
<1>2. outptr = 0
  BY <1>1 DEF IInv, Room
<1>3. Placed = Len(input.text) /\ Have(input.text, Placed)
  BY <1>1, AllPlaced
<1>4. /\ EvaluatesTo(q, inptr, H, C) /\ Stacked(input.text, sk, 0, k, e, C, Placed)
      /\ Has(input.text, sk, 0, k, e, C, H, Placed)
  BY <1>1, <1>3 DEF Parsed
<1>5. H = 1 /\ C[0] = input.tree
  <2>1. e[0] = 0
    BY <1>4 DEF Stacked
  <2>2. Start(k, 0) = 1
    BY DEF Start
  <2>3. H = 1 /\ C[0] = Reading(input.text, 1, Placed)
    BY <1>4, <2>1, <2>2 DEF Has
  <2>. QED BY <1>3, <2>3, MeantReads DEF Lexed
<1>6. PICK h, c : Evaluated(q, inptr, h, c) /\ h[inptr] = H /\ c[inptr] = C
  BY <1>4 DEF EvaluatesTo
<1>7. Evaluates(h, c)'
  <2>1. h[0] = 0 /\ 0 .. 0 - 1 = {}
    BY <1>6 DEF Evaluated
  <2>. QED BY <1>1, <1>2, <1>5, <1>6, <2>1 DEF Evaluates
<1>. QED BY <1>7

\* calculate is at one token of the queue.
LEMMA OneEvaluated ==
  ASSUME IInv, IInv', Lexed, Get, Evaluating,
         NEW h, NEW c, Evaluates(h, c)
  PROVE  /\ outptr \in Nat /\ outptr' = outptr + 1 /\ top \in Nat /\ h[outptr] = top
         /\ EvStep(q[outptr], top, c[outptr], h[outptr + 1], c[outptr + 1])
         /\ UNCHANGED <<q, inptr, input>>
<1>1. inptr \in Nat /\ outptr \in 0 .. inptr - 1
  BY CalculatorAssumption DEF IInv, TypeOK, Evaluating
<1>2. outptr \in 0 .. inptr
  BY <1>1
<1>. QED BY <1>1, <1>2 DEF Evaluates, Evaluated, Get

\* The stack of calculate has the cells the token leaves.
LEMMA EvaluatesOn ==
  ASSUME IInv, IInv', Lexed, GetNumber \/ GetOperator, NEW h, NEW c, Evaluates(h, c)
  PROVE  Evaluates(h, c)'
<1>1. Evaluating /\ Get
  BY DEF GetNumber, GetOperator
<1>2. /\ outptr \in Nat /\ outptr' = outptr + 1 /\ top \in Nat /\ h[outptr] = top
      /\ EvStep(q[outptr], top, c[outptr], h[outptr + 1], c[outptr + 1])
      /\ UNCHANGED <<q, inptr, input>>
  BY <1>1, OneEvaluated
<1>3. \A m \in 0 .. MAXTOKENS : \A i \in 0 .. m - 1 : i \in DOMAIN sk
  <2>1. MAXTOKENS \in Nat /\ DOMAIN sk = 0 .. MAXTOKENS - 1
    BY CalculatorAssumption DEF Lexed, Index
  <2>. QED BY <2>1
<1>4. CASE GetNumber
  <2>1. q[outptr].type = "number" /\ sk' = [sk EXCEPT ![top] = q[outptr]] /\ top' = top + 1
    BY <1>4 DEF GetNumber
  <2>2. /\ h[outptr + 1] = top + 1 /\ c[outptr + 1][top] = q[outptr].value
        /\ \A i \in 0 .. top - 1 : c[outptr + 1][i] = c[outptr][i]
    BY <1>2, <2>1 DEF EvStep
  <2>3. top \in DOMAIN sk
    <3>1. top' \in 0 .. MAXTOKENS
      BY <1>2, <2>1 DEF IInv, TypeOK
    <3>. QED BY <1>2, <1>3, <2>1, <3>1
  <2>4. ASSUME NEW j \in 0 .. top' - 1
        PROVE  sk'[j].type = "number" /\ sk'[j].value = c[outptr + 1][j]
    <3>1. CASE j = top
      BY <2>1, <2>2, <2>3, <3>1
    <3>2. CASE j # top
      <4>1. j \in 0 .. top - 1
        BY <1>2, <2>1, <3>2
      <4>2. sk'[j] = sk[j]
        BY <2>1, <3>2
      <4>. QED BY <2>2, <4>1, <4>2 DEF Evaluates
    <3>. QED BY <3>1, <3>2
  <2>. QED BY <1>2, <2>1, <2>2, <2>4 DEF Evaluates
<1>5. CASE GetOperator
  <2> DEFINE o2 == Operand(top)  o1 == Operand(Below(top))  n == Below(Below(top))
  <2>1. /\ q[outptr].type = "operator"
        /\ sk' = [sk EXCEPT ![n] = Number(<<q[outptr].value, o1, o2>>)] /\ top' = n + 1
    BY <1>5 DEF GetOperator
  <2>2. \A j \in 0 .. top - 1 : sk[j].type = "number" /\ sk[j].value = c[outptr][j]
    BY DEF Evaluates
  <2>3. CASE top >= 2
    <3>1. /\ h[outptr + 1] = top - 1
          /\ c[outptr + 1][top - 2] = <<q[outptr].value, c[outptr][top - 2], c[outptr][top - 1]>>
          /\ \A i \in 0 .. top - 3 : c[outptr + 1][i] = c[outptr][i]
      BY <1>2, <2>1, <2>3 DEF EvStep
    <3>2. Below(top) = top - 1 /\ o2 = c[outptr][top - 1]
      <4>1. top - 1 \in 0 .. top - 1
        BY <1>2, <2>3
      <4>. QED BY <1>2, <2>2, <2>3, <4>1 DEF Below, Operand
    <3>3. n = top - 2 /\ o1 = c[outptr][top - 2]
      <4>1. top - 2 \in 0 .. top - 1 /\ (top - 1) - 1 = top - 2 /\ top - 1 > 0
        BY <1>2, <2>3
      <4>2. Below(top - 1) = top - 2 /\ Operand(top - 1) = c[outptr][top - 2]
        BY <2>2, <4>1 DEF Below, Operand
      <4>. QED BY <3>2, <4>2
    <3>. HIDE DEF n, o1, o2
    <3>4. n \in DOMAIN sk /\ top' = top - 1
      <4>1. top' = top - 1 /\ top' \in 0 .. MAXTOKENS
        BY <1>2, <2>1, <2>3, <3>3 DEF IInv, TypeOK
      <4>2. n \in 0 .. top' - 1
        BY <1>2, <2>3, <3>3, <4>1
      <4>. QED BY <1>3, <4>1, <4>2
    <3>5. ASSUME NEW j \in 0 .. top' - 1
          PROVE  sk'[j].type = "number" /\ sk'[j].value = c[outptr + 1][j]
      <4>1. CASE j = n
        <5>1. sk'[j] = Number(<<q[outptr].value, o1, o2>>)
          BY <2>1, <3>4, <4>1
        <5>. QED BY <3>1, <3>2, <3>3, <4>1, <5>1 DEF Number
      <4>2. CASE j # n
        <5>1. j \in 0 .. top - 3 /\ j \in 0 .. top - 1
          BY <1>2, <2>3, <3>3, <3>4, <4>2
        <5>2. sk'[j] = sk[j]
          BY <2>1, <4>2
        <5>. QED BY <2>2, <3>1, <5>1, <5>2
      <4>. QED BY <4>1, <4>2
    <3>. QED BY <1>2, <3>1, <3>4, <3>5 DEF Evaluates
  <2>4. CASE top < 2
    <3>1. top = 1 /\ h[outptr + 1] = 1 /\ c[outptr + 1][0] = <<q[outptr].value, <<0>>, c[outptr][0]>>
      BY <1>2, <2>1, <2>4 DEF EvStep
    <3>2. Below(top) = 0 /\ o2 = c[outptr][0]
      <4>1. 0 \in 0 .. top - 1 /\ top - 1 = 0 /\ top > 0
        BY <3>1
      <4>. QED BY <2>2, <4>1 DEF Below, Operand
    <3>3. n = 0 /\ o1 = <<0>>
      BY <3>2 DEF Below, Operand
    <3>. HIDE DEF n, o1, o2
    <3>4. n \in DOMAIN sk /\ top' = 1
      <4>1. top' = 1 /\ top' \in 0 .. MAXTOKENS
        BY <2>1, <3>3 DEF IInv, TypeOK
      <4>. QED BY <1>3, <3>3, <4>1
    <3>5. ASSUME NEW j \in 0 .. top' - 1
          PROVE  sk'[j].type = "number" /\ sk'[j].value = c[outptr + 1][j]
      <4>1. j = n
        BY <3>3, <3>4
      <4>2. sk'[j] = Number(<<q[outptr].value, o1, o2>>)
        BY <2>1, <3>4, <4>1
      <4>. QED BY <3>1, <3>2, <3>3, <4>1, <4>2 DEF Number
    <3>. QED BY <1>2, <3>1, <3>4, <3>5 DEF Evaluates
  <2>. QED BY <1>2, <2>3, <2>4
<1>. QED BY <1>4, <1>5

\* At the end of the queue the stack holds the tree alone.
LEMMA AnswerGiven ==
  ASSUME IInv, Answer, NEW h, NEW c, Evaluates(h, c)
  PROVE  answer' = [of |-> input.tree, said |-> IF CutOff(input.tree) = "positive" THEN "%f" ELSE "%d"]
<1>1. /\ inptr <= outptr
      /\ answer' = [of |-> Operand(top), said |-> IF CutOff(Operand(top)) = "positive" THEN "%f" ELSE "%d"]
  BY DEF Answer
<1>2. outptr = inptr
  BY <1>1, CalculatorAssumption DEF IInv, TypeOK
<1>3. top = 1 /\ c[outptr][0] = input.tree
  BY <1>2 DEF Evaluates
<1>4. sk[0].type = "number" /\ sk[0].value = input.tree
  <2>1. 0 \in 0 .. top - 1
    BY <1>3
  <2>. QED BY <1>3, <2>1 DEF Evaluates
<1>5. 1 - 1 = 0
  OBVIOUS
<1>. QED BY <1>1, <1>3, <1>4, <1>5 DEF Operand

\* calculate passes over nothing of an expression.
LEMMA NothingPassedOver ==
  ASSUME IInv, IInv', Lexed, PassOver, NEW h, NEW c, Evaluates(h, c)
  PROVE  FALSE
<1>1. /\ Evaluating /\ Get /\ q[outptr].type # "number"
      /\ ~(q[outptr].type = "operator" /\ q[outptr].value \in Arithmetic)
  BY DEF PassOver
<1>2. EvStep(q[outptr], top, c[outptr], h[outptr + 1], c[outptr + 1])
  BY <1>1, OneEvaluated
<1>. QED BY <1>1, <1>2 DEF EvStep

\* Every step keeps what stack, queue and cells stand for.
LEMMA AnswerKept ==
  ASSUME IInv, IInv', DepthInv, AnswerInv, [Next]_vars
  PROVE  AnswerInv'
<1>1. Lexed /\ Lexed'
  BY LexedKept DEF AnswerInv
<1>2. input' = input /\ (Meant' <=> Meant)
  <2>1. input' = input
    BY DEF Next, vars, makepolishform, Take, TakeNumber, TakeOpen, CloseUnloads, CloseEnds,
           OperatorUnloads, OperatorStays, GoAstray, Skip, Terminate, Drain, Calculate, Done,
           calculate, GetNumber, GetOperator, PassOver, Answer, Get
  <2>. QED BY <2>1 DEF Meant
<1>3. ASSUME ~Meant PROVE AnswerInv'
  BY <1>1, <1>2, <1>3 DEF AnswerInv, AnswerIsExpected, Meant
<1>4. ASSUME Meant, step' = "polish", \E H, C, k, e : Parsed(H, C, k, e)' PROVE AnswerInv'
  BY <1>1, <1>4 DEF AnswerInv, AnswerIsExpected
<1>5. ASSUME Meant, step' = "drain", Open' = {}, \E H, C, k, e : Parsed(H, C, k, e)' PROVE AnswerInv'
  BY <1>1, <1>5 DEF AnswerInv, AnswerIsExpected
<1>6. ASSUME Meant, step' = "calculate", \E h, c : Evaluates(h, c)' PROVE AnswerInv'
  BY <1>1, <1>6 DEF AnswerInv, AnswerIsExpected
<1>7. ASSUME Meant, step' = "answered",
             answer' = [of |-> input.tree, said |-> IF CutOff(input.tree) = "positive" THEN "%f" ELSE "%d"]
      PROVE  AnswerInv'
  <2>1. answer'.of = input.tree /\ (answer'.said = "%f" <=> CutOff(input.tree) = "positive")
    BY <1>7
  <2>. QED BY <1>1, <1>2, <1>7, <2>1 DEF AnswerInv, AnswerIsExpected
<1>8. CASE Meant /\ UNCHANGED vars
  <2>1. \A H, C, k, e : Parsed(H, C, k, e)' <=> Parsed(H, C, k, e)
    BY <1>8 DEF vars, Parsed, Placed, Read, Held, Polish
  <2>2. UNCHANGED <<step, q, inptr, outptr, sk, top, answer, input, Open>>
    BY <1>8 DEF vars, Open
  <2>3. \A h, c : Evaluates(h, c)' <=> Evaluates(h, c)
    BY <2>2 DEF Evaluates
  <2>. QED BY <1>1, <2>1, <2>2, <2>3 DEF AnswerInv, AnswerIsExpected, Meant
<1>9. CASE Meant /\ Next
  <2>1. top \in Nat
    <3>1. Matched(input.text)
      BY <1>1, <1>9, MeantReads DEF Lexed
    <3>. QED BY <3>1 DEF DepthInv, IInv, TypeOK
  <2>2. CASE step \in {"polish", "drain"}
    <3>1. PICK H, C, k, e : Parsed(H, C, k, e)
      BY <1>9, <2>2 DEF AnswerInv
    <3>2. CASE Take
      <4>1. Parsed(H, C, k, e)' /\ step' = "polish"
        BY <1>1, <3>1, <3>2, TakeParsed DEF Take, Polish
      <4>. QED BY <1>4, <1>9, <4>1
    <3>3. CASE TakeNumber
      <4>1. step' = "polish"
        BY <3>3 DEF TakeNumber, Done, Polish
      <4>. QED BY <1>1, <1>4, <1>9, <2>1, <3>1, <3>3, <4>1, NumberParsed
    <3>4. CASE TakeOpen
      <4>1. step' = "polish"
        BY <3>4 DEF TakeOpen, Done, Polish
      <4>. QED BY <1>1, <1>4, <1>9, <2>1, <3>1, <3>4, <4>1, OpenParsed
    <3>5. CASE CloseUnloads \/ CloseEnds
      <4>1. step' = "polish"
        BY <3>5 DEF CloseUnloads, CloseEnds, Done, Polish
      <4>. QED BY <1>1, <1>4, <1>9, <2>1, <3>1, <3>5, <4>1, CloseParsed
    <3>6. CASE OperatorUnloads \/ OperatorStays
      <4>1. step' = "polish"
        BY <3>6 DEF OperatorUnloads, OperatorStays, Done, Polish
      <4>. QED BY <1>1, <1>4, <1>9, <2>1, <3>1, <3>6, <4>1, OperatorParsed
    <3>7. CASE Skip
      <4>1. Polish /\ tkn.type = "unknown"
        BY <3>7 DEF Skip
      <4>2. /\ Placed + 1 \in 1 .. Len(input.text) /\ Expression(input.text)
            /\ tkn \in getNextToken(input.text[Placed + 1])
        <5>1. Len(input.text) \in Nat /\ Expression(input.text)
          BY <1>1, <1>9, MeantReads DEF Lexed
        <5>2. Placed \in 0 .. Len(input.text) - 1 /\ tkn \in getNextToken(input.text[Placed + 1])
          BY <1>1, <1>9, <4>1, InHandIs
        <5>. QED BY <5>1, <5>2
      <4>. QED BY <4>1, <4>2, TokenOf
    <3>8. CASE Terminate
      <4>1. step' = "drain"
        BY <3>8 DEF Terminate
      <4>2. Open' = {} /\ Parsed(H, C, k, e)'
        BY <1>1, <1>9, <2>1, <3>1, <3>8, TerminateParsed
      <4>. QED BY <1>5, <1>9, <4>1, <4>2
    <3>9. CASE Drain
      <4>1. step = "drain" /\ step' = "drain"
        BY <3>9 DEF Drain
      <4>2. Open = {}
        BY <1>9, <4>1 DEF AnswerInv
      <4>. QED BY <1>1, <1>5, <1>9, <2>1, <3>1, <3>9, <4>1, <4>2, DrainParsed
    <3>10. CASE Calculate
      <4>1. step' = "calculate"
        BY <3>10 DEF Calculate
      <4>. QED BY <1>1, <1>6, <1>9, <2>1, <3>1, <3>10, <4>1, CalculateStarts
    <3>12. CASE GoAstray
      <4>1. tkn.type = "close" /\ top <= 0 /\ Polish
        BY <2>1, <3>12 DEF GoAstray
      <4>2. Matched(input.text)
        BY <1>1, <1>9, MeantReads DEF Lexed
      <4>. QED BY <2>1, <4>1, <4>2, CloseHasOpen
    <3>11. ~calculate
      BY <2>2 DEF calculate, GetNumber, GetOperator, PassOver, Answer, Evaluating
    <3>. QED
      BY <1>9, <3>2, <3>3, <3>4, <3>5, <3>6, <3>7, <3>8, <3>9, <3>10, <3>11, <3>12 DEF Next, makepolishform
  <2>3. CASE step \notin {"polish", "drain"}
    <3>1. calculate /\ step = "calculate"
      BY <1>9, <2>3 DEF Next, makepolishform, Polish, Take, TakeNumber, TakeOpen, CloseUnloads, CloseEnds,
                 OperatorUnloads, OperatorStays, GoAstray, Skip, Terminate, Drain, Calculate,
                 calculate, GetNumber, GetOperator, PassOver, Answer, Evaluating
    <3>2. PICK h, c : Evaluates(h, c)
      BY <1>9, <3>1 DEF AnswerInv
    <3>3. CASE GetNumber \/ GetOperator
      <4>1. step' = "calculate"
        BY <3>1, <3>3 DEF GetNumber, GetOperator, Get
      <4>. QED BY <1>1, <1>6, <1>9, <3>2, <3>3, <4>1, EvaluatesOn
    <3>4. CASE PassOver
      BY <1>1, <3>2, <3>4, NothingPassedOver
    <3>5. CASE Answer
      <4>1. step' = "answered"
        BY <3>5 DEF Answer
      <4>. QED BY <1>7, <1>9, <3>2, <3>5, <4>1, AnswerGiven
    <3>. QED BY <3>1, <3>3, <3>4, <3>5 DEF calculate
  <2>. QED BY <2>2, <2>3
<1>. QED BY <1>3, <1>8, <1>9

\* The answer to an expression is computed from the tree it stands for, and said
\* with the digits of its fraction unless it is negative, for every expression
\* and whatever the arithmetic (CutOff): what makepolishform has placed is, with
\* the operators that wait on the stack, the reading of the lexemes so far, and
\* calculate evaluates the queue to it (IRCSession::makepolishform and calculate,
\* Calkulator.cpp).
THEOREM AnswerIsTheTree == Spec => []AnswerIsExpected
<1>1. IInv /\ IInv' /\ DepthInv /\ AnswerInv /\ [Next]_vars => AnswerInv'
  BY AnswerKept
<1>2. AnswerInv => AnswerIsExpected
  BY DEF AnswerInv
<1>3. Spec => []IInv /\ []DepthInv
  <2>1. IInv /\ [Next]_vars => IInv'
    BY RoomKept
  <2>2. IInv /\ IInv' /\ DepthInv /\ [Next]_vars => DepthInv'
    BY DepthStays
  <2>. QED BY <2>1, <2>2, InitRoom, InitDepth, PTL DEF Spec
<1>. QED BY <1>1, <1>2, <1>3, InitAnswer, PTL DEF Spec
=============================================================================
