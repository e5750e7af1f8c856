-------------------------- MODULE LifecycleSafety --------------------------
(***************************************************************************)
(* The safety properties of Lifecycle, for any number of Info classes,     *)
(* commands, signals and faults.                                           *)
(*                                                                         *)
(* Each is a matter of what the lists the threads have begun contain and   *)
(* in which order, so their shapes come first, then what a step leaves of  *)
(* a list, then one invariant for each property.                           *)
(***************************************************************************)
EXTENDS LifecycleProofs

-----------------------------------------------------------------------------
(* Shapes of lists                                                         *)

\* Operations after which the process ends, a handler no longer saves, or a
\* signal no longer finds the session.
Late(o) ==
  \/ o.op \in {"clear", "halt", "abort", "die", "unhook", "return"}
  \/ o.op = "delete" /\ o.part = "session"

\* A list that saves the uptime before it comes to one of these.
Saving(s) ==
  \A j \in 1 .. Len(s) : Late(s[j]) => \E i \in 1 .. j - 1 : s[i].op \in {"uptime", "save"}

\* Operations that change which objects there are, and their order on one part.
Work(o) == o.op \in {"delete", "new", "assign"}
Rank(op) == IF op = "delete" THEN 1 ELSE IF op = "new" THEN 2 ELSE 3

Orderly(s) ==
  /\ \A i, j \in 1 .. Len(s) :
       i < j /\ Work(s[i]) /\ Work(s[j]) /\ s[i].part = s[j].part => Rank(s[i].op) < Rank(s[j].op)
  /\ \A i \in 1 .. Len(s) : s[i].op = "delete" =>
       \E j \in i + 1 .. Len(s) : s[j].op = "new" /\ s[j].part = s[i].part
  /\ \A i \in 2 .. Len(s) : s[i].op = "assign" => s[i - 1].op = "new" /\ s[i - 1].part = s[i].part

\* The constructor of Vezerlo, or what is left of it: the console is started
\* when all but the session is made, and the session when it is made.
Constructing(s) ==
  /\ \A i \in 1 .. Len(s) : s[i].op \in {"new", "assign", "start"}
  /\ \A i, j \in 1 .. Len(s) : i < j /\ s[i].op = "start" /\ Work(s[j]) => s[j].part = "session"
  /\ \A i \in 1 .. Len(s) : s[i].op = "start" /\ s[i].part = "session" =>
       \E j \in 1 .. i - 1 : s[j].op = "new" /\ s[j].part = "session"

\* It makes the session last, and starts a thread in what it has made.
SessionLast(s) ==
  \A i, j \in 1 .. Len(s) : i < j /\ Work(s[j]) =>
    /\ Work(s[i]) /\ s[i].part = "session" => s[j].part = "session"
    /\ s[i].op = "start" => s[j].part # s[i].part

WorksOn(s, p) == \E i \in 1 .. Len(s) : Work(s[i]) /\ s[i].part = p
Idle(s) == \A i \in 1 .. Len(s) : ~Work(s[i])

\* Between the deletion of p and the assignment of the new object.
Halfway(s, p) ==
  \E i \in 1 .. Len(s) :
    /\ s[i].op \in {"new", "assign"} /\ s[i].part = p
    /\ \A h \in 1 .. i - 1 : s[h].op = "delete" => s[h].part # p

\* u goes on where s has done its first operation.
Follows(u, s) ==
  /\ Len(u) = Len(s) - 1
  /\ \A i \in 1 .. Len(u) : u[i].op = s[i + 1].op /\ u[i].part = s[i + 1].part

\* Neither works on an object nor starts a thread.
Harmless(s) == \A i \in 1 .. Len(s) : ~Work(s[i]) /\ s[i].op # "start"

-----------------------------------------------------------------------------
(* What the lists that are begun look like                                 *)

LEMMA AtConcat ==
  ASSUME NEW s \in Seq(Ops), NEW u \in Seq(Ops)
  PROVE  /\ s \o u \in Seq(Ops) /\ Len(s \o u) = Len(s) + Len(u)
         /\ Len(s) \in Nat /\ Len(u) \in Nat
         /\ \A i \in 1 .. Len(s) : (s \o u)[i] = s[i]
         /\ \A i \in 1 .. Len(u) : (s \o u)[Len(s) + i] = u[i]
         /\ \A i \in 1 .. Len(s \o u) : i > Len(s) =>
              i - Len(s) \in 1 .. Len(u) /\ (s \o u)[i] = u[i - Len(s)]
<1>1. s \o u \in Seq(Ops) /\ Len(s \o u) = Len(s) + Len(u)
  BY ConcatProperties
<1>2. Len(s) \in Nat /\ Len(u) \in Nat
  BY LenProperties
<1>3. \A i \in 1 .. Len(s \o u) : (s \o u)[i] = IF i <= Len(s) THEN s[i] ELSE u[i - Len(s)]
  BY ConcatProperties
<1>. QED BY <1>1, <1>2, <1>3

LEMMA HarmlessConcat ==
  ASSUME NEW s \in Seq(Ops), NEW u \in Seq(Ops), Harmless(s), Harmless(u)
  PROVE  Harmless(s \o u)
<1>1. \A i \in 1 .. Len(s \o u) :
        \/ i \in 1 .. Len(s) /\ (s \o u)[i] = s[i]
        \/ i - Len(s) \in 1 .. Len(u) /\ (s \o u)[i] = u[i - Len(s)]
  BY AtConcat
<1>. QED BY <1>1 DEF Harmless

LEMMA Behind ==
  ASSUME NEW s \in Seq(Ops), NEW u \in Seq(Ops), Harmless(s), Harmless(u), Len(s) >= 1
  PROVE  /\ s \o u \in Seq(Ops) /\ Len(s \o u) >= Len(s) /\ Harmless(s \o u)
         /\ (s \o u)[1] = s[1]
         /\ Len(s) >= 2 => (s \o u)[2] = s[2]
<1>1. /\ s \o u \in Seq(Ops) /\ Len(s \o u) = Len(s) + Len(u)
      /\ Len(s) \in Nat /\ Len(u) \in Nat
      /\ \A i \in 1 .. Len(s) : (s \o u)[i] = s[i]
  BY AtConcat
<1>2. Harmless(s \o u)
  BY HarmlessConcat
<1>. QED BY <1>1, <1>2

LEMMA OneOp ==
  ASSUME NEW op \in OpNames, NEW p \in Parts \cup {"none"}
  PROVE  /\ <<Do(op, p)>> \in Seq(Ops) /\ Len(<<Do(op, p)>>) = 1 /\ Len(<<Do(op, p)>>) >= 1
         /\ <<Do(op, p)>>[1].op = op /\ <<Do(op, p)>>[1].part = p
         /\ op \notin {"delete", "new", "assign", "start"} => Harmless(<<Do(op, p)>>)
<1>1. Do(op, p) \in Ops /\ Do(op, p).op = op /\ Do(op, p).part = p
  BY DEF Do, Ops
<1>2. <<Do(op, p)>> \in Seq(Ops) /\ Len(<<Do(op, p)>>) = 1 /\ <<Do(op, p)>>[1] = Do(op, p)
  BY <1>1
<1>. QED BY <1>1, <1>2 DEF Harmless, Work

LEMMA ShutdownList == Shutdown \in Seq(Ops) /\ Harmless(Shutdown)
<1> DEFINE s == <<Do("visit", "console"), Do("visit", "session"), Do("empty", "none")>>
<1>1. s \in Seq(Ops)
  BY FreshShutdown DEF Shutdown, Fresh, Good
<1>2. Len(s) = 3 /\ s[1].op = "visit" /\ s[2].op = "visit" /\ s[3].op = "empty"
  BY DEF Do
<1>3. \A i \in 1 .. Len(s) : i = 1 \/ i = 2 \/ i = 3
  BY <1>2
<1>. QED BY <1>1, <1>2, <1>3 DEF Harmless, Work, Shutdown

LEMMA LeallasList ==
  Leallas \in Seq(Ops) /\ Harmless(Leallas) /\ Len(Leallas) >= 1 /\ Leallas[1].op = "save"
<1> DEFINE a == <<Do("save", "none")>>
           b == Each("stop", Order)
           c == <<Do("halt", "none")>>
<1>1. /\ a \in Seq(Ops) /\ Len(a) = 1 /\ Len(a) >= 1 /\ a[1].op = "save" /\ Harmless(a)
      /\ c \in Seq(Ops) /\ Harmless(c)
  BY OneOp DEF OpNames
<1>2. b \in Seq(Ops)
  BY FreshEach, PartsAreStrings DEF Fresh, Good, OpNames
<1>3. Harmless(b)
  <2>1. DOMAIN Order = 1 .. Len(Order) /\ Len(Order) \in Nat
    BY PartsAreStrings, LenProperties
  <2>2. b = [i \in 1 .. Len(Order) |-> Do("stop", Order[i])]
    BY <2>1 DEF Each
  <2>3. DOMAIN b = 1 .. Len(b)
    BY <1>2, LenProperties
  <2>4. \A i \in 1 .. Len(b) : b[i] = Do("stop", Order[i])
    BY <2>2, <2>3
  <2>6. \A p : Do("stop", p).op = "stop"
    BY DEF Do
  <2>5. \A i \in 1 .. Len(b) : b[i].op = "stop"
    BY <2>4, <2>6
  <2>. QED BY <2>5 DEF Harmless, Work
<1>. HIDE DEF a, b, c
<1>4. a \o b \in Seq(Ops) /\ Len(a \o b) >= 1 /\ (a \o b)[1] = a[1] /\ Harmless(a \o b)
  BY <1>1, <1>2, <1>3, Behind, Zenon
<1> DEFINE d == a \o b \o Shutdown
<1>5. d \in Seq(Ops) /\ Len(d) >= Len(a \o b) /\ d[1] = (a \o b)[1] /\ Harmless(d)
  BY <1>4, ShutdownList, Behind, Zenon
<1>6. Len(d) >= 1
  <2>1. Len(d) \in Nat /\ Len(a \o b) \in Nat
    BY <1>4, <1>5, LenProperties
  <2>. QED BY <2>1, <1>4, <1>5
<1>. HIDE DEF d
<1>7. d \o c \in Seq(Ops) /\ Len(d \o c) >= Len(d) /\ (d \o c)[1] = d[1] /\ Harmless(d \o c)
  BY <1>1, <1>5, <1>6, Behind, Zenon
<1>8. Len(d \o c) >= 1
  <2>1. Len(d) \in Nat /\ Len(d \o c) \in Nat
    BY <1>5, <1>7, LenProperties
  <2>. QED BY <2>1, <1>6, <1>7
<1>9. Leallas = d \o c
  BY DEF Leallas, a, b, c, d
<1>. QED BY <1>1, <1>4, <1>5, <1>7, <1>8, <1>9

\* A list that begins with a save.
LEMMA SavesFirst ==
  ASSUME NEW s \in Seq(Ops), Len(s) >= 1, s[1].op \in {"uptime", "save"}
  PROVE  Saving(s)
<1>1. ASSUME NEW j \in 1 .. Len(s), Late(s[j])
      PROVE  \E i \in 1 .. j - 1 : s[i].op \in {"uptime", "save"}
  <2>1. Len(s) \in Nat
    BY LenProperties
  <2>2. j # 1
    BY <1>1 DEF Late
  <2>3. 1 \in 1 .. j - 1
    BY <2>1, <2>2
  <2>. QED BY <2>3
<1>. QED BY <1>1 DEF Saving

\* What leads to Leallas() saves the uptime, and the end of the process after it.
LEMMA SavesAndLeaves ==
  ASSUME NEW a \in Seq(Ops), Len(a) >= 1, a[1].op = "uptime", Harmless(a)
  PROVE  /\ a \o Leallas \in Seq(Ops) /\ Saving(a \o Leallas) /\ Harmless(a \o Leallas)
         /\ \A op \in {"die", "abort"} : LET s == a \o Leallas \o <<Do(op, "none")>> IN
              s \in Seq(Ops) /\ Saving(s) /\ Harmless(s) /\ s # <<>> /\ s[1].op = "uptime"
<1> DEFINE b == a \o Leallas
<1>1. b \in Seq(Ops) /\ Len(b) >= Len(a) /\ Harmless(b) /\ b[1] = a[1]
  BY LeallasList, Behind, Zenon
<1>2. Len(b) >= 1 /\ b[1].op = "uptime"
  <2>1. Len(a) \in Nat /\ Len(b) \in Nat
    BY <1>1, LenProperties
  <2>. QED BY <2>1, <1>1
<1>. HIDE DEF b
<1>3. ASSUME NEW op \in {"die", "abort"}
      PROVE  LET s == b \o <<Do(op, "none")>> IN
             s \in Seq(Ops) /\ Saving(s) /\ Harmless(s) /\ s # <<>> /\ s[1].op = "uptime"
  <2> DEFINE c == <<Do(op, "none")>>
  <2>1. c \in Seq(Ops) /\ Harmless(c)
    BY OneOp DEF OpNames
  <2>. HIDE DEF c
  <2>2. b \o c \in Seq(Ops) /\ Len(b \o c) >= Len(b) /\ (b \o c)[1] = b[1] /\ Harmless(b \o c)
    BY <1>1, <1>2, <2>1, Behind, Zenon
  <2>3. Len(b \o c) >= 1 /\ (b \o c)[1].op = "uptime"
    <3>1. Len(b) \in Nat /\ Len(b \o c) \in Nat
      BY <1>1, <2>2, LenProperties
    <3>. QED BY <3>1, <1>2, <2>2
  <2>4. b \o c # <<>> /\ Saving(b \o c)
    <3>1. Len(<<>>) = 0
      OBVIOUS
    <3>2. b \o c # <<>>
      BY <3>1, <2>3
    <3>3. (b \o c)[1].op \in {"uptime", "save"}
      BY <2>3
    <3>. HIDE DEF c
    <3>4. Saving(b \o c)
      BY <2>2, <2>3, <3>3, SavesFirst
    <3>. QED BY <3>2, <3>4
  <2>. QED BY <2>2, <2>3, <2>4 DEF c
<1>4. Saving(b)
  BY <1>1, <1>2, SavesFirst
<1>. QED BY <1>1, <1>3, <1>4 DEF b

LEMMA HandlerLists ==
  /\ OnSignal \in Seq(Ops) /\ Saving(OnSignal) /\ Harmless(OnSignal)
  /\ OnSignal \o <<Do("die", "none")>> \in Seq(Ops)
  /\ Saving(OnSignal \o <<Do("die", "none")>>) /\ Harmless(OnSignal \o <<Do("die", "none")>>)
  /\ Handler \in Seq(Ops) /\ Saving(Handler) /\ Harmless(Handler)
  /\ Handler # <<>> /\ Handler[1].op = "uptime"
  /\ Segfault \in Seq(Ops) /\ Harmless(Segfault) /\ Segfault # <<>>
<1> DEFINE a == <<Do("uptime", "none"), Do("clear", "none")>>
           d == <<Do("uptime", "none"), Do("bye", "session"), Do("clear", "none")>>
<1>0. {Do("uptime", "none"), Do("clear", "none"), Do("bye", "session")} \subseteq Ops
  BY DEF Do, Ops, OpNames, Parts
<1>1. a \in Seq(Ops) /\ Len(a) >= 1 /\ a[1].op = "uptime" /\ Harmless(a)
  <2>1. a \in Seq(Ops) /\ Len(a) = 2
    BY <1>0
  <2>2. a[1].op = "uptime" /\ a[2].op = "clear"
    BY DEF Do
  <2>3. \A i \in 1 .. Len(a) : i = 1 \/ i = 2
    BY <2>1
  <2>. QED BY <2>1, <2>2, <2>3 DEF Harmless, Work
<1>2. d \in Seq(Ops) /\ Len(d) >= 1 /\ d[1].op = "uptime" /\ Harmless(d)
  <2>1. d \in Seq(Ops) /\ Len(d) = 3
    BY <1>0
  <2>2. d[1].op = "uptime" /\ d[2].op = "bye" /\ d[3].op = "clear"
    BY DEF Do
  <2>3. \A i \in 1 .. Len(d) : i = 1 \/ i = 2 \/ i = 3
    BY <2>1
  <2>. QED BY <2>1, <2>2, <2>3 DEF Harmless, Work
<1>. HIDE DEF a, d
<1>3. OnSignal = a \o Leallas /\ Handler = d \o Leallas \o <<Do("abort", "none")>>
  BY DEF OnSignal, Handler, a, d
<1>4. /\ a \o Leallas \in Seq(Ops) /\ Saving(a \o Leallas) /\ Harmless(a \o Leallas)
      /\ \A op \in {"die", "abort"} : LET s == a \o Leallas \o <<Do(op, "none")>> IN
           s \in Seq(Ops) /\ Saving(s) /\ Harmless(s) /\ s # <<>> /\ s[1].op = "uptime"
  BY <1>1, SavesAndLeaves
<1>5. \A op \in {"die", "abort"} : LET s == d \o Leallas \o <<Do(op, "none")>> IN
        s \in Seq(Ops) /\ Saving(s) /\ Harmless(s) /\ s # <<>> /\ s[1].op = "uptime"
  BY <1>2, SavesAndLeaves
<1>6. LET s == <<Do("abort", "none")>> IN s \in Seq(Ops) /\ Harmless(s) /\ s # <<>>
  BY OneOp DEF OpNames
<1>7. Segfault = <<Do("abort", "none")>> \/ Segfault = Handler
  BY DEF Segfault
<1>8. /\ Handler \in Seq(Ops) /\ Saving(Handler) /\ Harmless(Handler)
      /\ Handler # <<>> /\ Handler[1].op = "uptime"
  BY <1>3, <1>5
<1>9. /\ OnSignal \in Seq(Ops) /\ Saving(OnSignal) /\ Harmless(OnSignal)
      /\ OnSignal \o <<Do("die", "none")>> \in Seq(Ops)
      /\ Saving(OnSignal \o <<Do("die", "none")>>) /\ Harmless(OnSignal \o <<Do("die", "none")>>)
  BY <1>3, <1>4
<1>10. Segfault \in Seq(Ops) /\ Harmless(Segfault) /\ Segfault # <<>>
  BY <1>6, <1>7, <1>8
<1>. QED BY <1>8, <1>9, <1>10

\* As long as main has a list that saves, a fault is handled.
LEMMA FaultHandled ==
  ASSUME Saving(todo["main"])
  PROVE  Segfault = Handler
<1>1. ASSUME Gone PROVE FALSE
  <2>1. todo["main"] = <<Do("return", "none")>>
    BY <1>1 DEF Gone
  <2>2. Len(todo["main"]) = 1 /\ todo["main"][1].op = "return"
    BY <2>1, OneOp DEF OpNames
  <2>3. 1 \in 1 .. Len(todo["main"]) /\ Late(todo["main"][1])
    BY <2>2 DEF Late
  <2>4. \E i \in 1 .. 1 - 1 : todo["main"][i].op \in {"uptime", "save"}
    BY <2>3 DEF Saving
  <2>. QED BY <2>4
<1>. QED BY <1>1 DEF Segfault

LEMMA KikapcsList ==
  ASSUME NEW t \in {"console", "session"}
  PROVE  Saving(Kikapcs \o <<Do("loop", t)>>) /\ Harmless(Kikapcs \o <<Do("loop", t)>>)
<1> DEFINE a == <<Do("say", "session")>>
           c == <<Do("loop", t)>>
           s == (a \o Leallas) \o c
<1>1. /\ a \in Seq(Ops) /\ Len(a) = 1 /\ Len(a) >= 1 /\ a[1].op = "say" /\ Harmless(a)
      /\ c \in Seq(Ops) /\ Len(c) = 1 /\ Harmless(c)
  BY OneOp DEF OpNames, Parts
<1>. HIDE DEF a, c
<1>2. /\ a \o Leallas \in Seq(Ops) /\ Len(a \o Leallas) >= 2 /\ Harmless(a \o Leallas)
      /\ (a \o Leallas)[1] = a[1] /\ (a \o Leallas)[2] = Leallas[1]
  <2>1. 1 \in 1 .. Len(Leallas) /\ Len(Leallas) \in Nat
    BY LeallasList, LenProperties
  <2>2. (a \o Leallas)[Len(a) + 1] = Leallas[1]
    BY <1>1, <2>1, LeallasList, AtConcat
  <2>3. a \o Leallas \in Seq(Ops) /\ Len(a \o Leallas) = Len(a) + Len(Leallas)
    BY <1>1, LeallasList, AtConcat
  <2>4. (a \o Leallas)[1] = a[1] /\ Harmless(a \o Leallas)
    BY <1>1, LeallasList, Behind, Zenon
  <2>. QED BY <1>1, <2>1, <2>2, <2>3, <2>4, LeallasList
<1>3. /\ s \in Seq(Ops) /\ Len(s) >= 2 /\ Len(s) \in Nat /\ Harmless(s)
      /\ s[1].op = "say" /\ s[2].op = "save"
  <2> DEFINE b == a \o Leallas
  <2>. HIDE DEF b
  <2>1. /\ b \o c \in Seq(Ops) /\ Len(b \o c) >= Len(b) /\ Harmless(b \o c)
        /\ (b \o c)[1] = b[1] /\ (b \o c)[2] = b[2]
    <3>1. Len(b) >= 1 /\ Len(b) >= 2 /\ b \in Seq(Ops) /\ Harmless(b)
      BY <1>2, LenProperties DEF b
    <3>. QED BY <1>1, <3>1, Behind, Zenon
  <2>2. Len(b) \in Nat /\ Len(b \o c) \in Nat /\ Len(b) >= 2
    BY <1>2, <2>1, LenProperties DEF b
  <2>3. b[1].op = "say" /\ b[2].op = "save"
    BY <1>1, <1>2, LeallasList DEF b
  <2>. QED BY <2>1, <2>2, <2>3 DEF b
<1>. HIDE DEF s
<1>4. ASSUME NEW j \in 1 .. Len(s), Late(s[j])
      PROVE  \E i \in 1 .. j - 1 : s[i].op \in {"uptime", "save"}
  <2>1. j # 1 /\ j # 2
    BY <1>3, <1>4 DEF Late
  <2>2. 2 \in 1 .. j - 1
    BY <1>3, <2>1
  <2>. QED BY <2>2, <1>3
<1>5. Kikapcs \o <<Do("loop", t)>> = s
  BY DEF Kikapcs, Words, s, a, c
<1>. QED BY <1>3, <1>4, <1>5 DEF Saving

LEMMA PairsAt ==
  ASSUME NEW first \in OpNames, NEW second \in OpNames, NEW P \in Seq(Parts)
  PROVE  LET s == Pairs(first, second, P) IN
         /\ s \in Seq(Ops) /\ Len(P) \in Nat /\ Len(s) = 2 * Len(P)
         /\ \A k \in 1 .. Len(P) :
              /\ s[2 * k - 1].op = first /\ s[2 * k - 1].part = P[k]
              /\ s[2 * k].op = second /\ s[2 * k].part = P[k]
<1> DEFINE s == Pairs(first, second, P)
           n == Len(P)
           op(i) == IF i % 2 = 1 THEN first ELSE second
           at(i) == (i + 1) \div 2
<1>1. n \in Nat /\ \A k \in 1 .. n : P[k] \in Parts
  BY LenProperties
<1>2. \A i \in 1 .. 2 * n : at(i) \in 1 .. n
  BY <1>1
<1>3. s = [i \in 1 .. 2 * n |-> Do(op(i), P[at(i)])]
  BY DEF Pairs
<1>4. \A i \in 1 .. 2 * n : Do(op(i), P[at(i)]) \in Ops
  BY <1>1, <1>2 DEF Do, Ops
<1>5. s \in Seq(Ops) /\ Len(s) = 2 * n
  <2>1. s \in [1 .. 2 * n -> Ops]
    BY <1>3, <1>4
  <2>. QED BY <2>1, <1>1, LenProperties
<1>6. \A i \in 1 .. 2 * n : s[i].op = op(i) /\ s[i].part = P[at(i)]
  BY <1>3 DEF Do
<1>7. \A k \in 1 .. n :
        /\ 2 * k - 1 \in 1 .. 2 * n /\ op(2 * k - 1) = first /\ at(2 * k - 1) = k
        /\ 2 * k \in 1 .. 2 * n /\ op(2 * k) = second /\ at(2 * k) = k
  BY <1>1
<1>. HIDE DEF s, op, at, n
<1>8. \A k \in 1 .. n :
        /\ s[2 * k - 1].op = first /\ s[2 * k - 1].part = P[k]
        /\ s[2 * k].op = second /\ s[2 * k].part = P[k]
  BY <1>6, <1>7
<1>. QED BY <1>1, <1>5, <1>8 DEF s, n

LEMMA PartsInOrder ==
  LET P == Append(InfoOrder, "console") IN
  /\ P \in Seq(Parts) /\ Len(P) \in Nat \ {0}
  /\ \A k \in 1 .. Len(P) : P[k] # "session"
  /\ \A k, l \in 1 .. Len(P) : P[k] = P[l] => k = l
  /\ \A p \in Parts \ {"session"} : \E k \in 1 .. Len(P) : P[k] = p
<1> DEFINE P == Append(InfoOrder, "console")
           n == Len(InfoOrder)
<1>1. /\ InfoOrder \in Seq(Parts) /\ n \in Nat /\ DOMAIN InfoOrder = 1 .. n
      /\ \A k \in 1 .. n : InfoOrder[k] \notin {"console", "session"}
      /\ \A k, l \in 1 .. n : InfoOrder[k] = InfoOrder[l] => k = l
  <2>1. InfoOrder \in Seq(STRING \ {"console", "session", "all", "none"})
    BY LifecycleAssumption
  <2>2. DOMAIN InfoOrder = 1 .. n /\ n \in Nat
    BY <2>1, LenProperties
  <2>. QED BY <2>1, <2>2, PartsAreStrings, LifecycleAssumption
<1>2. /\ P \in Seq(Parts) /\ Len(P) = n + 1
      /\ \A k \in 1 .. n : P[k] = InfoOrder[k]
      /\ P[n + 1] = "console"
  BY <1>1, AppendProperties DEF Parts
<1>3. \A p \in Parts \ {"session"} : p = "console" \/ \E k \in 1 .. n : InfoOrder[k] = p
  BY <1>1 DEF Parts, Infos
<1>. HIDE DEF P, n
<1>4. \A k \in 1 .. Len(P) : k \in 1 .. n \/ k = n + 1
  BY <1>1, <1>2
<1>5. n + 1 \in 1 .. Len(P) /\ \A k \in 1 .. n : k \in 1 .. Len(P)
  BY <1>1, <1>2
<1>6. \A k \in 1 .. Len(P) : P[k] # "session"
  BY <1>1, <1>2, <1>4
<1>7. \A k, l \in 1 .. Len(P) : P[k] = P[l] => k = l
  BY <1>1, <1>2, <1>4
<1>8. \A p \in Parts \ {"session"} : \E k \in 1 .. Len(P) : P[k] = p
  BY <1>2, <1>3, <1>5
<1>. QED BY <1>1, <1>2, <1>6, <1>7, <1>8 DEF P

\* A reload of the parts P: stop and delete each, then (or, with m = 1, after
\* another stop) make each; at last the answer and the thread's loop.
ReloadShape(s, P, m) ==
  LET n == Len(P) IN
  /\ n \in Nat /\ s \in Seq(Ops) /\ Len(s) \in Nat /\ Len(s) > 4 * n + m
  /\ \A k \in 1 .. n : P[k] # "session"
  /\ \A k, l \in 1 .. n : P[k] = P[l] => k = l
  /\ \A k \in 1 .. n :
       /\ s[2 * k - 1].op = "stop"
       /\ s[2 * k].op = "delete" /\ s[2 * k].part = P[k]
       /\ s[2 * n + m + 2 * k - 1].op = "new" /\ s[2 * n + m + 2 * k - 1].part = P[k]
       /\ s[2 * n + m + 2 * k].op = "assign" /\ s[2 * n + m + 2 * k].part = P[k]
  /\ m = 1 => s[2 * n + 1].op = "stop"
  /\ \A i \in 4 * n + m + 1 .. Len(s) : s[i].op \in {"say", "loop"}

\* What is behind the work of a command.
LEMMA AnswerList ==
  ASSUME NEW t \in {"console", "session"}
  PROVE  LET s == Answer(t) \o <<Do("loop", t)>> IN
         /\ s \in Seq(Ops) /\ Len(s) \in Nat \ {0} /\ Answer(t) \in Seq(Ops)
         /\ \A i \in 1 .. Len(s) : s[i].op \in {"say", "loop"}
<1> DEFINE a == Answer(t)
           c == <<Do("loop", t)>>
<1>1. a \in Seq(Ops) /\ \A i \in 1 .. Len(a) : a[i].op = "say"
  <2>1. <<>> \in Seq(Ops) /\ Len(<<>>) = 0
    OBVIOUS
  <2>2. Words \in Seq(Ops) /\ Len(Words) = 1 /\ Words[1].op = "say"
    <3>1. "say" \in OpNames /\ "session" \in Parts
      BY DEF OpNames, Parts
    <3>. QED BY <3>1, OneOp DEF Words
  <2>3. a = Words \/ a = <<>>
    BY DEF Answer
  <2>4. \A i \in 1 .. Len(Words) : i = 1
    BY <2>2
  <2>5. \A i \in 1 .. Len(Words) : Words[i].op = "say"
    BY <2>2, <2>4
  <2>6. CASE a = Words
    BY <2>2, <2>5, <2>6
  <2>7. CASE a = <<>>
    BY <2>1, <2>7
  <2>. QED BY <2>3, <2>6, <2>7
<1>2. c \in Seq(Ops) /\ Len(c) = 1 /\ c[1].op = "loop"
  <2>1. "loop" \in OpNames /\ t \in Parts
    BY DEF OpNames, Parts
  <2>. QED BY <2>1, OneOp
<1>. HIDE DEF a, c
<1>3. /\ a \o c \in Seq(Ops) /\ Len(a \o c) = Len(a) + Len(c) /\ Len(a) \in Nat
      /\ \A i \in 1 .. Len(a) : (a \o c)[i] = a[i]
      /\ \A i \in 1 .. Len(a \o c) : i > Len(a) =>
           i - Len(a) \in 1 .. Len(c) /\ (a \o c)[i] = c[i - Len(a)]
  BY <1>1, <1>2, AtConcat
<1>. QED BY <1>1, <1>2, <1>3 DEF a, c

LEMMA ReloadAt ==
  ASSUME NEW t \in {"console", "session"}, NEW nev \in Reloads, nev # "session"
  PROVE  \E P \in Seq(Parts), m \in {0, 1} : 
           ReloadShape(Reload(nev) \o Answer(t) \o <<Do("loop", t)>>, P, m)
<1> DEFINE P == IF nev = "all" THEN Append(InfoOrder, "console") ELSE <<nev>>
           B == IF nev = "all" THEN <<Do("stop", "session")>> ELSE <<>>
           A == Remove(P)
           C == Make(P)
           D == Answer(t) \o <<Do("loop", t)>>
           s == ((A \o B) \o C) \o D
           n == Len(P)
           m == Len(B)
<1>1. /\ P \in Seq(Parts) /\ n \in Nat
      /\ \A k \in 1 .. n : P[k] # "session"
      /\ \A k, l \in 1 .. n : P[k] = P[l] => k = l
  <2>1. CASE nev = "all"
    BY <2>1, PartsInOrder
  <2>2. CASE nev # "all"
    <3>1. P = <<nev>> /\ nev \in Parts
      BY <2>2, LifecycleAssumption
    <3>2. <<nev>> \in Seq(Parts) /\ Len(<<nev>>) = 1 /\ <<nev>>[1] = nev
      BY <3>1
    <3>. HIDE DEF P
    <3>3. n = 1 /\ P[1] = nev
      BY <3>1, <3>2
    <3>. QED BY <3>1, <3>2, <3>3
  <2>. QED BY <2>1, <2>2
<1>2. B \in Seq(Ops) /\ m \in {0, 1} /\ (m = 1 => B[1].op = "stop")
  <2>1. CASE nev = "all"
    <3>1. B = <<Do("stop", "session")>>
      BY <2>1
    <3>2. "stop" \in OpNames /\ "session" \in Parts
      BY DEF OpNames, Parts
    <3>. HIDE DEF B
    <3>. QED BY <3>1, <3>2, OneOp
  <2>2. CASE nev # "all"
    BY <2>2
  <2>. QED BY <2>1, <2>2
<1>3. /\ D \in Seq(Ops) /\ Len(D) \in Nat \ {0}
      /\ \A i \in 1 .. Len(D) : D[i].op \in {"say", "loop"}
  BY AnswerList
<1>4. Reload(nev) \o Answer(t) \o <<Do("loop", t)>> = s
  <2>1. Reload(nev) = (A \o B) \o C
    BY DEF Reload
  <2>2. Reload(nev) \in Seq(Ops) /\ Answer(t) \in Seq(Ops) /\ <<Do("loop", t)>> \in Seq(Ops)
    <3>1. "loop" \in OpNames /\ t \in Parts
      BY DEF OpNames, Parts
    <3>. QED BY <3>1, FreshReload, AnswerList, OneOp DEF Fresh, Good
  <2>3. Reload(nev) \o Answer(t) \o <<Do("loop", t)>> = Reload(nev) \o (Answer(t) \o <<Do("loop", t)>>)
    BY <2>2, ConcatAssociative
  <2>. QED BY <2>1, <2>3
<1>. HIDE DEF P, B, D
<1>5. /\ A \in Seq(Ops) /\ Len(A) = 2 * n
      /\ \A k \in 1 .. n : A[2 * k - 1].op = "stop" /\ A[2 * k].op = "delete" /\ A[2 * k].part = P[k]
  BY <1>1, PairsAt DEF Remove, OpNames
<1>6. /\ C \in Seq(Ops) /\ Len(C) = 2 * n
      /\ \A k \in 1 .. n : /\ C[2 * k - 1].op = "new" /\ C[2 * k - 1].part = P[k]
                           /\ C[2 * k].op = "assign" /\ C[2 * k].part = P[k]
  <2>1. "new" \in OpNames /\ "assign" \in OpNames /\ C = Pairs("new", "assign", P)
    BY DEF Make, OpNames
  <2>2. P \in Seq(Parts)
    BY <1>1
  <2>. HIDE DEF C, n
  <2>3. LET r == Pairs("new", "assign", P) IN
          /\ r \in Seq(Ops) /\ Len(r) = 2 * Len(P)
          /\ \A k \in 1 .. Len(P) : /\ r[2 * k - 1].op = "new" /\ r[2 * k - 1].part = P[k]
                                    /\ r[2 * k].op = "assign" /\ r[2 * k].part = P[k]
    BY <2>1, <2>2, PairsAt
  <2>. QED BY <2>1, <2>3 DEF n
<1>. HIDE DEF A, C, n, m
<1> DEFINE E == A \o B
           F == E \o C
<1>7. /\ E \in Seq(Ops) /\ Len(E) = 2 * n + m
      /\ \A i \in 1 .. 2 * n : E[i] = A[i]
      /\ m = 1 => E[2 * n + 1] = B[1]
  <2>1. /\ E \in Seq(Ops) /\ Len(E) = Len(A) + Len(B)
        /\ \A i \in 1 .. Len(A) : E[i] = A[i]
        /\ \A i \in 1 .. Len(B) : E[Len(A) + i] = B[i]
    BY <1>2, <1>5, AtConcat
  <2>. QED BY <2>1, <1>1, <1>2, <1>5 DEF m
<1>. HIDE DEF E
<1>8. /\ F \in Seq(Ops) /\ Len(F) = 4 * n + m
      /\ \A i \in 1 .. 2 * n + m : F[i] = E[i]
      /\ \A i \in 1 .. 2 * n : F[2 * n + m + i] = C[i]
  <2>1. /\ F \in Seq(Ops) /\ Len(F) = Len(E) + Len(C)
        /\ \A i \in 1 .. Len(E) : F[i] = E[i]
        /\ \A i \in 1 .. Len(C) : F[Len(E) + i] = C[i]
    BY <1>6, <1>7, AtConcat
  <2>. QED BY <2>1, <1>1, <1>2, <1>6, <1>7
<1>. HIDE DEF F
<1>9. /\ s \in Seq(Ops) /\ Len(s) \in Nat /\ Len(s) > 4 * n + m
      /\ \A i \in 1 .. 4 * n + m : s[i] = F[i]
      /\ \A i \in 4 * n + m + 1 .. Len(s) : s[i].op \in {"say", "loop"}
  <2>1. s = F \o D
    BY DEF F, E
  <2>. HIDE DEF s
  <2>2. /\ s \in Seq(Ops) /\ Len(s) = Len(F) + Len(D)
        /\ \A i \in 1 .. Len(F) : s[i] = F[i]
        /\ \A i \in 1 .. Len(s) : i > Len(F) =>
             i - Len(F) \in 1 .. Len(D) /\ s[i] = D[i - Len(F)]
    BY <2>1, <1>3, <1>8, AtConcat
  <2>3. n \in Nat /\ m \in {0, 1}
    BY <1>1, <1>2 DEF n
  <2>4. Len(s) \in Nat /\ Len(s) > 4 * n + m /\ \A i \in 1 .. 4 * n + m : s[i] = F[i]
    BY <2>2, <2>3, <1>3, <1>8
  <2>5. ASSUME NEW i \in 4 * n + m + 1 .. Len(s) PROVE s[i].op \in {"say", "loop"}
    <3>1. i \in 1 .. Len(s) /\ i > Len(F)
      BY <2>3, <2>4, <1>8
    <3>. QED BY <3>1, <2>2, <1>3
  <2>. QED BY <2>2, <2>4, <2>5
<1>. HIDE DEF s
<1>10. ASSUME NEW k \in 1 .. n
       PROVE  /\ s[2 * k - 1].op = "stop"
              /\ s[2 * k].op = "delete" /\ s[2 * k].part = P[k]
              /\ s[2 * n + m + 2 * k - 1].op = "new" /\ s[2 * n + m + 2 * k - 1].part = P[k]
              /\ s[2 * n + m + 2 * k].op = "assign" /\ s[2 * n + m + 2 * k].part = P[k]
  <2>1. /\ 2 * k - 1 \in 1 .. 2 * n /\ 2 * k \in 1 .. 2 * n
        /\ 2 * k - 1 \in 1 .. 4 * n + m /\ 2 * k \in 1 .. 4 * n + m
        /\ 2 * k - 1 \in 1 .. 2 * n + m /\ 2 * k \in 1 .. 2 * n + m
        /\ 2 * n + m + 2 * k - 1 \in 1 .. 4 * n + m /\ 2 * n + m + 2 * k \in 1 .. 4 * n + m
        /\ 2 * n + m + 2 * k - 1 = 2 * n + m + (2 * k - 1)
    BY <1>1, <1>2
  <2>2. s[2 * k - 1] = A[2 * k - 1] /\ s[2 * k] = A[2 * k]
    BY <2>1, <1>7, <1>8, <1>9
  <2>3. s[2 * n + m + 2 * k - 1] = C[2 * k - 1] /\ s[2 * n + m + 2 * k] = C[2 * k]
    BY <2>1, <1>8, <1>9
  <2>. QED BY <2>2, <2>3, <1>5, <1>6
<1>11. m = 1 => s[2 * n + 1].op = "stop"
  <2>1. m = 1 => 2 * n + 1 \in 1 .. 2 * n + m /\ 2 * n + 1 \in 1 .. 4 * n + m
    BY <1>1
  <2>. QED BY <2>1, <1>2, <1>7, <1>8, <1>9
<1>13. ReloadShape(s, P, m)
  BY <1>1, <1>9, <1>10, <1>11 DEF ReloadShape, n
<1>. QED BY <1>1, <1>2, <1>4, <1>13

\* A reload deletes only what it makes again, and never the session.
LEMMA ReloadList ==
  ASSUME NEW t \in {"console", "session"}, NEW nev \in Reloads
  PROVE  LET s == Reload(nev) \o Answer(t) \o <<Do("loop", t)>> IN
         /\ Saving(s) /\ Orderly(s) /\ ~WorksOn(s, "session")
         /\ \A i \in 1 .. Len(s) :
              /\ s[i].op \in {"stop", "say", "loop", "delete", "new", "assign"}
              /\ s[i].op = "new" => \E h \in 1 .. i - 1 : s[h].op = "delete" /\ s[h].part = s[i].part
              /\ s[i].op = "assign" => i # 1
<1> DEFINE s == Reload(nev) \o Answer(t) \o <<Do("loop", t)>>
<1>1. CASE nev = "session"
  <2> DEFINE D == Answer(t) \o <<Do("loop", t)>>
  <2>1. Reload(nev) = <<>> /\ Answer(t) \in Seq(Ops)
    BY <1>1, AnswerList DEF Reload
  <2>2. s = D
    <3>1. <<>> \o Answer(t) = Answer(t)
      BY <2>1, ConcatEmptySeq
    <3>. QED BY <2>1, <3>1
  <2>. HIDE DEF s, D
  <2>5. \A i \in 1 .. Len(s) : s[i].op \in {"say", "loop"}
    BY <2>2, AnswerList DEF D
  <2>6. Saving(s) /\ Orderly(s) /\ ~WorksOn(s, "session")
    <3>1. Len(s) \in Nat
      BY <2>2, AnswerList DEF D
    <3>2. \A i \in 1 .. Len(s) : s[i].op \notin {"delete", "new", "assign"} /\ ~Late(s[i])
      BY <2>5 DEF Late
    <3>3. \A i \in 2 .. Len(s) : i \in 1 .. Len(s)
      BY <3>1
    <3>. QED BY <3>2, <3>3 DEF Saving, Orderly, WorksOn, Work
  <2>. QED BY <2>5, <2>6 DEF s
<1>2. CASE nev # "session"
  <2>1. PICK P \in Seq(Parts), m \in {0, 1} : ReloadShape(s, P, m)
    BY <1>2, ReloadAt
  <2> DEFINE n == Len(P)
             Pos(op, k) == IF op = "delete" THEN 2 * k
                           ELSE IF op = "new" THEN 2 * n + m + 2 * k - 1
                           ELSE 2 * n + m + 2 * k
  <2>. HIDE DEF s
  <2>2. /\ n \in Nat /\ Len(s) \in Nat /\ Len(s) > 4 * n + m
        /\ \A k \in 1 .. n : P[k] # "session"
        /\ \A k, l \in 1 .. n : P[k] = P[l] => k = l
        /\ m = 1 => s[2 * n + 1].op = "stop"
        /\ \A i \in 4 * n + m + 1 .. Len(s) : s[i].op \in {"say", "loop"}
    BY <2>1 DEF ReloadShape
  <2>3. \A k \in 1 .. n :
          /\ s[2 * k - 1].op = "stop"
          /\ s[2 * k].op = "delete" /\ s[2 * k].part = P[k]
          /\ s[2 * n + m + 2 * k - 1].op = "new" /\ s[2 * n + m + 2 * k - 1].part = P[k]
          /\ s[2 * n + m + 2 * k].op = "assign" /\ s[2 * n + m + 2 * k].part = P[k]
    BY <2>1 DEF ReloadShape
  <2>. HIDE DEF n
  <2>4. ASSUME NEW i \in 1 .. Len(s)
        PROVE  \/ s[i].op \in {"stop", "say", "loop"}
               \/ /\ s[i].op \in {"delete", "new", "assign"}
                  /\ \E k \in 1 .. n : i = Pos(s[i].op, k) /\ s[i].part = P[k]
    <3>1. CASE i <= 2 * n
      <4>1. PICK k \in 1 .. n : i = 2 * k - 1 \/ i = 2 * k
        <5>2. n \in Nat /\ i \in 1 .. 2 * n
          BY <3>1, <2>2
        <5>1. (i + 1) \div 2 \in 1 .. n
              /\ (i = 2 * ((i + 1) \div 2) - 1 \/ i = 2 * ((i + 1) \div 2))
          BY <5>2
        <5>. QED BY <5>1
      <4>. QED BY <4>1, <2>3
    <3>2. CASE m = 1 /\ i = 2 * n + 1
      BY <3>2, <2>2
    <3>3. CASE i > 4 * n + m
      <4>1. i \in 4 * n + m + 1 .. Len(s)
        BY <3>3, <2>2
      <4>. QED BY <4>1, <2>2
    <3>4. CASE i > 2 * n + m /\ i <= 4 * n + m
      <4>1. PICK k \in 1 .. n : i = 2 * n + m + 2 * k - 1 \/ i = 2 * n + m + 2 * k
        <5> DEFINE j == i - 2 * n - m
        <5>1. j \in 1 .. 2 * n /\ i = 2 * n + m + j
          BY <3>4, <2>2
        <5>. HIDE DEF j
        <5>2. (j + 1) \div 2 \in 1 .. n
              /\ (j = 2 * ((j + 1) \div 2) - 1 \/ j = 2 * ((j + 1) \div 2))
          BY <5>1, <2>2
        <5>. QED BY <5>1, <5>2, <2>2
      <4>2. CASE i = 2 * n + m + 2 * k - 1
        BY <4>2, <2>3
      <4>3. CASE i = 2 * n + m + 2 * k
        BY <4>3, <2>3
      <4>. QED BY <4>1, <4>2, <4>3
    <3>. QED BY <3>1, <3>2, <3>3, <3>4, <2>2
  <2>5. ASSUME NEW i \in 1 .. Len(s), NEW j \in 1 .. Len(s), i < j,
               Work(s[i]), Work(s[j]), s[i].part = s[j].part
        PROVE  Rank(s[i].op) < Rank(s[j].op)
    <3>1. PICK k \in 1 .. n : i = Pos(s[i].op, k) /\ s[i].part = P[k]
      BY <2>4, <2>5 DEF Work
    <3>2. PICK l \in 1 .. n : j = Pos(s[j].op, l) /\ s[j].part = P[l]
      BY <2>4, <2>5 DEF Work
    <3>3. k = l
      BY <3>1, <3>2, <2>2, <2>5
    <3>4. /\ s[i].op \in {"delete", "new", "assign"} /\ s[j].op \in {"delete", "new", "assign"}
      BY <2>5 DEF Work
    <3>5. i = Pos(s[i].op, k) /\ j = Pos(s[j].op, k) /\ i < j /\ n \in Nat
      BY <3>1, <3>2, <3>3, <2>2, <2>5
    <3>. QED BY <3>4, <3>5 DEF Rank
  <2>6. ASSUME NEW i \in 1 .. Len(s), s[i].op \in {"delete", "new", "assign"}
        PROVE  \E k \in 1 .. n : i = Pos(s[i].op, k) /\ s[i].part = P[k]
    BY <2>4, <2>6
  <2>7. ASSUME NEW i \in 1 .. Len(s), s[i].op = "delete"
        PROVE  \E j \in i + 1 .. Len(s) : s[j].op = "new" /\ s[j].part = s[i].part
    <3>1. PICK k \in 1 .. n : i = 2 * k /\ s[i].part = P[k]
      BY <2>6, <2>7
    <3>2. 2 * n + m + 2 * k - 1 \in i + 1 .. Len(s)
      BY <3>1, <2>2
    <3>. QED BY <3>1, <3>2, <2>3
  <2>8. ASSUME NEW i \in 1 .. Len(s), s[i].op = "assign"
        PROVE  i # 1 /\ s[i - 1].op = "new" /\ s[i - 1].part = s[i].part
    <3>1. PICK k \in 1 .. n : i = 2 * n + m + 2 * k /\ s[i].part = P[k]
      BY <2>6, <2>8
    <3>2. i - 1 = 2 * n + m + 2 * k - 1 /\ i # 1
      BY <3>1, <2>2
    <3>. QED BY <3>1, <3>2, <2>3
  <2>9. ASSUME NEW i \in 1 .. Len(s), s[i].op = "new"
        PROVE  \E h \in 1 .. i - 1 : s[h].op = "delete" /\ s[h].part = s[i].part
    <3>1. PICK k \in 1 .. n : i = 2 * n + m + 2 * k - 1 /\ s[i].part = P[k]
      BY <2>6, <2>9
    <3>2. 2 * k \in 1 .. i - 1
      BY <3>1, <2>2
    <3>. QED BY <3>1, <3>2, <2>3
  <2>10. \A i \in 1 .. Len(s) : Work(s[i]) => s[i].part # "session"
    BY <2>2, <2>6 DEF Work
  <2>11. /\ Saving(s) /\ ~WorksOn(s, "session")
         /\ \A i \in 1 .. Len(s) : s[i].op \in {"stop", "say", "loop", "delete", "new", "assign"}
    <3>1. \A i \in 1 .. Len(s) : s[i].op \in {"stop", "say", "loop", "delete", "new", "assign"}
      BY <2>4
    <3>. QED BY <3>1, <2>10 DEF Saving, Late, WorksOn, Work
  <2>12. Orderly(s)
    BY <2>5, <2>7, <2>8 DEF Orderly
  <2>. QED BY <2>8, <2>9, <2>11, <2>12 DEF s
<1>. QED BY <1>1, <1>2

\* Operations on the connection only.
Online(s) ==
  s \in Seq(Ops) /\ \A i \in 1 .. Len(s) : s[i].op \in {"say", "connect", "disconnect"}

LEMMA OnlineConcat ==
  ASSUME NEW s, NEW u, Online(s), Online(u)
  PROVE  Online(s \o u)
<1>1. /\ s \o u \in Seq(Ops)
      /\ \A i \in 1 .. Len(s \o u) :
           \/ i \in 1 .. Len(s) /\ (s \o u)[i] = s[i]
           \/ i - Len(s) \in 1 .. Len(u) /\ (s \o u)[i] = u[i - Len(s)]
  BY AtConcat DEF Online
<1>. QED BY <1>1 DEF Online

LEMMA OnlineHarmless ==
  ASSUME NEW s, Online(s)
  PROVE  Saving(s) /\ Harmless(s)
BY DEF Online, Saving, Late, Harmless, Work

LEMMA RunOnline == Online(Run)
BY OneOp DEF Run, Online, OpNames, Parts

LEMMA LineOnline ==
  ASSUME NEW cmd, NEW s \in ConsoleLine(cmd)
  PROVE  Online(s)
<1> DEFINE d == <<Do("disconnect", "session")>>
           c == <<Do("connect", "session")>>
<1>1. Online(d) /\ Online(c) /\ Online(Words)
  BY OneOp DEF Words, Online, OpNames, Parts
<1>2. ConsoleLine(cmd) \subseteq
        {c \o Words, d, Words \o d, Words \o d \o (c \o Words), Words \o d \o d}
  BY DEF ConsoleLine, Connects
<1>. HIDE DEF c, d
<1>3. Online(c \o Words) /\ Online(Words \o d)
  BY <1>1, OnlineConcat
<1>4. Online(Words \o d \o (c \o Words)) /\ Online(Words \o d \o d)
  BY <1>1, <1>3, OnlineConcat
<1>. QED BY <1>1, <1>2, <1>3, <1>4

LEMMA LineList ==
  ASSUME NEW t \in {"console", "session"}, NEW cmd, NEW s \in ConsoleLine(cmd)
  PROVE  LET u == s \o <<Do("loop", t)>> IN u \in Seq(Ops) /\ Saving(u) /\ Harmless(u)
<1> DEFINE c == <<Do("loop", t)>>
<1>1. c \in Seq(Ops) /\ Len(c) = 1 /\ c[1].op = "loop"
  <2>1. "loop" \in OpNames /\ t \in Parts
    BY DEF OpNames, Parts
  <2>. QED BY <2>1, OneOp
<1>2. Online(s)
  BY LineOnline
<1>. HIDE DEF c
<1>3. /\ s \o c \in Seq(Ops)
      /\ \A i \in 1 .. Len(s \o c) :
           \/ i \in 1 .. Len(s) /\ (s \o c)[i] = s[i]
           \/ i - Len(s) \in 1 .. Len(c) /\ (s \o c)[i] = c[i - Len(s)]
  BY <1>1, <1>2, AtConcat DEF Online
<1>4. \A i \in 1 .. Len(s \o c) : (s \o c)[i].op \in {"say", "connect", "disconnect", "loop"}
  BY <1>1, <1>2, <1>3 DEF Online
<1>5. Saving(s \o c) /\ Harmless(s \o c)
  BY <1>4 DEF Saving, Late, Harmless, Work
<1>. QED BY <1>3, <1>5 DEF c

\* The constructor of Vezerlo makes every part once, the session last.
LEMMA VezerloAt ==
  LET P == Append(InfoOrder, "console")  n == Len(P)  s == Vezerlo IN
  /\ s \in Seq(Ops) /\ Len(s) = 2 * n + 4
  /\ \A k \in 1 .. n : /\ s[2 * k - 1].op = "new" /\ s[2 * k - 1].part = P[k]
                       /\ s[2 * k].op = "assign" /\ s[2 * k].part = P[k]
  /\ s[2 * n + 1].op = "start" /\ s[2 * n + 1].part = "console"
  /\ s[2 * n + 2].op = "new" /\ s[2 * n + 2].part = "session"
  /\ s[2 * n + 3].op = "assign" /\ s[2 * n + 3].part = "session"
  /\ s[2 * n + 4].op = "start" /\ s[2 * n + 4].part = "session"
<1> DEFINE P == Append(InfoOrder, "console")
           n == Len(P)
           A == Make(P)
           B == <<Do("start", "console")>>
           C == Make(<<"session">>)
           D == <<Do("start", "session")>>
           E == A \o B
           F == E \o C
           s == F \o D
<1>1. P \in Seq(Parts) /\ n \in Nat \ {0}
  BY PartsInOrder
<1>0. {"new", "assign", "start"} \subseteq OpNames /\ {"console", "session"} \subseteq Parts
  BY DEF OpNames, Parts
<1>2. /\ B \in Seq(Ops) /\ Len(B) = 1 /\ B[1].op = "start" /\ B[1].part = "console"
      /\ D \in Seq(Ops) /\ Len(D) = 1 /\ D[1].op = "start" /\ D[1].part = "session"
  BY <1>0, OneOp
<1>3. Vezerlo = s
  BY DEF Vezerlo
<1>4. /\ C \in Seq(Ops) /\ Len(C) = 2
      /\ C[1].op = "new" /\ C[1].part = "session" /\ C[2].op = "assign" /\ C[2].part = "session"
  <2> DEFINE Q == <<"session">>
  <2>1. Q \in Seq(Parts) /\ Len(Q) = 1 /\ Q[1] = "session"
    BY <1>0
  <2>2. C = Pairs("new", "assign", Q)
    BY DEF Make
  <2>. HIDE DEF Q, C
  <2>3. /\ C \in Seq(Ops) /\ Len(C) = 2 * Len(Q)
        /\ \A k \in 1 .. Len(Q) :
              /\ C[2 * k - 1].op = "new" /\ C[2 * k - 1].part = Q[k]
              /\ C[2 * k].op = "assign" /\ C[2 * k].part = Q[k]
    <3>1. Q \in Seq(Parts) /\ "new" \in OpNames /\ "assign" \in OpNames
      BY <1>0, <2>1
    <3>2. LET r == Pairs("new", "assign", Q) IN
            /\ r \in Seq(Ops) /\ Len(r) = 2 * Len(Q)
            /\ \A k \in 1 .. Len(Q) :
                 /\ r[2 * k - 1].op = "new" /\ r[2 * k - 1].part = Q[k]
                 /\ r[2 * k].op = "assign" /\ r[2 * k].part = Q[k]
      BY <3>1, PairsAt
    <3>. QED BY <2>2, <3>2
  <2>4. /\ C[2 * 1 - 1].op = "new" /\ C[2 * 1 - 1].part = Q[1]
        /\ C[2 * 1].op = "assign" /\ C[2 * 1].part = Q[1]
    BY <2>1, <2>3
  <2>. QED BY <2>1, <2>3, <2>4
<1>. HIDE DEF P, B, C, D
<1>5. /\ A \in Seq(Ops) /\ Len(A) = 2 * n
      /\ \A k \in 1 .. n : /\ A[2 * k - 1].op = "new" /\ A[2 * k - 1].part = P[k]
                           /\ A[2 * k].op = "assign" /\ A[2 * k].part = P[k]
  <2>1. A = Pairs("new", "assign", P)
    BY DEF Make
  <2>. HIDE DEF A
  <2>. QED BY <1>0, <1>1, <2>1, PairsAt
<1>. HIDE DEF A, n
<1>6. E \in Seq(Ops) /\ Len(E) = 2 * n + 1 /\ E[2 * n + 1] = B[1] /\ \A i \in 1 .. 2 * n : E[i] = A[i]
  <2>1. /\ E \in Seq(Ops) /\ Len(E) = Len(A) + Len(B)
        /\ \A i \in 1 .. Len(A) : E[i] = A[i]
        /\ \A i \in 1 .. Len(B) : E[Len(A) + i] = B[i]
    BY <1>2, <1>5, AtConcat
  <2>. QED BY <2>1, <1>1, <1>2, <1>5
<1>. HIDE DEF E
<1>7. /\ F \in Seq(Ops) /\ Len(F) = 2 * n + 3
      /\ F[2 * n + 2] = C[1] /\ F[2 * n + 3] = C[2]
      /\ \A i \in 1 .. 2 * n + 1 : F[i] = E[i]
  <2>1. /\ F \in Seq(Ops) /\ Len(F) = Len(E) + Len(C)
        /\ \A i \in 1 .. Len(E) : F[i] = E[i]
        /\ \A i \in 1 .. Len(C) : F[Len(E) + i] = C[i]
    BY <1>4, <1>6, AtConcat
  <2>. HIDE DEF F
  <2>2. F[(2 * n + 1) + 1] = C[1] /\ F[(2 * n + 1) + 2] = C[2]
    BY <2>1, <1>4, <1>6
  <2>3. (2 * n + 1) + 1 = 2 * n + 2 /\ (2 * n + 1) + 2 = 2 * n + 3
    BY <1>1
  <2>. QED BY <2>1, <2>2, <2>3, <1>1, <1>4, <1>6
<1>. HIDE DEF F
<1>8. /\ s \in Seq(Ops) /\ Len(s) = 2 * n + 4 /\ s[2 * n + 4] = D[1]
      /\ \A i \in 1 .. 2 * n + 3 : s[i] = F[i]
  <2>1. /\ s \in Seq(Ops) /\ Len(s) = Len(F) + Len(D)
        /\ \A i \in 1 .. Len(F) : s[i] = F[i]
        /\ \A i \in 1 .. Len(D) : s[Len(F) + i] = D[i]
    BY <1>2, <1>7, AtConcat
  <2>. HIDE DEF s
  <2>. QED BY <2>1, <1>1, <1>2, <1>7
<1>9. Vezerlo = s
  BY <1>3 DEF F, E
<1>. HIDE DEF s
<1>10. ASSUME NEW k \in 1 .. n
       PROVE  /\ s[2 * k - 1].op = "new" /\ s[2 * k - 1].part = P[k]
              /\ s[2 * k].op = "assign" /\ s[2 * k].part = P[k]
  <2>1. /\ 2 * k - 1 \in 1 .. 2 * n /\ 2 * k \in 1 .. 2 * n
        /\ 2 * k - 1 \in 1 .. 2 * n + 1 /\ 2 * k \in 1 .. 2 * n + 1
        /\ 2 * k - 1 \in 1 .. 2 * n + 3 /\ 2 * k \in 1 .. 2 * n + 3
    BY <1>1
  <2>2. s[2 * k - 1] = A[2 * k - 1] /\ s[2 * k] = A[2 * k]
    BY <2>1, <1>6, <1>7, <1>8
  <2>. QED BY <2>2, <1>5
<1>11. s[2 * n + 1] = B[1] /\ s[2 * n + 2] = C[1] /\ s[2 * n + 3] = C[2]
  <2>1. 2 * n + 1 \in 1 .. 2 * n + 3 /\ 2 * n + 2 \in 1 .. 2 * n + 3 /\ 2 * n + 3 \in 1 .. 2 * n + 3
        /\ 2 * n + 1 \in 1 .. 2 * n + 1
    BY <1>1
  <2>. QED BY <2>1, <1>6, <1>7, <1>8
<1>12. /\ s \in Seq(Ops) /\ Len(s) = 2 * n + 4
       /\ s[2 * n + 1].op = "start" /\ s[2 * n + 1].part = "console"
       /\ s[2 * n + 2].op = "new" /\ s[2 * n + 2].part = "session"
       /\ s[2 * n + 3].op = "assign" /\ s[2 * n + 3].part = "session"
       /\ s[2 * n + 4].op = "start" /\ s[2 * n + 4].part = "session"
  BY <1>2, <1>4, <1>8, <1>11
<1>. QED BY <1>9, <1>10, <1>12 DEF n, P

LEMMA VezerloList ==
  LET s == Vezerlo IN
  /\ Saving(s) /\ Orderly(s) /\ Constructing(s) /\ SessionLast(s) /\ s # <<>>
  /\ \A p \in Parts : WorksOn(s, p)
  /\ \A i \in 1 .. Len(s) : s[i].op # "delete" /\ (s[i].op = "assign" => i # 1)
  /\ \A i \in 1 .. Len(s) : s[i].op = "start" => s[i].part \in {"console", "session"}
<1> DEFINE s == Vezerlo
           P == Append(InfoOrder, "console")
           n == Len(P)
<1>1. /\ n \in Nat \ {0}
      /\ \A k \in 1 .. n : P[k] # "session"
      /\ \A k, l \in 1 .. n : P[k] = P[l] => k = l
      /\ \A p \in Parts \ {"session"} : \E k \in 1 .. n : P[k] = p
  BY PartsInOrder
<1>2. /\ s \in Seq(Ops) /\ Len(s) = 2 * n + 4
      /\ \A k \in 1 .. n : /\ s[2 * k - 1].op = "new" /\ s[2 * k - 1].part = P[k]
                           /\ s[2 * k].op = "assign" /\ s[2 * k].part = P[k]
      /\ s[2 * n + 1].op = "start" /\ s[2 * n + 1].part = "console"
      /\ s[2 * n + 2].op = "new" /\ s[2 * n + 2].part = "session"
      /\ s[2 * n + 3].op = "assign" /\ s[2 * n + 3].part = "session"
      /\ s[2 * n + 4].op = "start" /\ s[2 * n + 4].part = "session"
  BY VezerloAt
<1>. HIDE DEF s, P, n
\* The k-th part is made by the operations 2k-1 and 2k, the session by n+1.
<1> DEFINE Name(k) == IF k = n + 1 THEN "session" ELSE P[k]
           Pos(op, k) == IF k = n + 1 THEN (IF op = "new" THEN 2 * n + 2 ELSE 2 * n + 3)
                         ELSE (IF op = "new" THEN 2 * k - 1 ELSE 2 * k)
<1>3. \A k, l \in 1 .. n + 1 : Name(k) = Name(l) => k = l
  <2>1. \A k \in 1 .. n + 1 : k = n + 1 \/ k \in 1 .. n
    BY <1>1
  <2>. QED BY <2>1, <1>1
<1>4. ASSUME NEW i \in 1 .. Len(s)
      PROVE  \/ s[i].op = "start" /\ i \in {2 * n + 1, 2 * n + 4}
             \/ /\ s[i].op \in {"new", "assign"}
                /\ \E k \in 1 .. n + 1 : i = Pos(s[i].op, k) /\ s[i].part = Name(k)
  <2>1. CASE i <= 2 * n
    <3>1. (i + 1) \div 2 \in 1 .. n
          /\ (i = 2 * ((i + 1) \div 2) - 1 \/ i = 2 * ((i + 1) \div 2))
      BY <2>1, <1>1
    <3>2. PICK k \in 1 .. n : i = 2 * k - 1 \/ i = 2 * k
      BY <3>1
    <3>3. k \in 1 .. n + 1 /\ k # n + 1
      BY <1>1
    <3>4. CASE i = 2 * k - 1
      BY <3>3, <3>4, <1>2
    <3>5. CASE i = 2 * k
      BY <3>3, <3>5, <1>2
    <3>. QED BY <3>2, <3>4, <3>5
  <2>2. CASE i = 2 * n + 1 \/ i = 2 * n + 4
    BY <2>2, <1>2
  <2>3. CASE i = 2 * n + 2 \/ i = 2 * n + 3
    <3>1. n + 1 \in 1 .. n + 1
      BY <1>1
    <3>. QED BY <2>3, <3>1, <1>2
  <2>. QED BY <2>1, <2>2, <2>3, <1>1, <1>2
<1>5. ASSUME NEW i \in 1 .. Len(s), Work(s[i])
      PROVE  \E k \in 1 .. n + 1 : i = Pos(s[i].op, k) /\ s[i].part = Name(k)
  BY <1>4, <1>5 DEF Work
<1>6. \A i \in 1 .. Len(s) : s[i].op \in {"new", "assign", "start"}
  BY <1>4
<1>7. ASSUME NEW i \in 1 .. Len(s), NEW j \in 1 .. Len(s), i < j,
             Work(s[i]), Work(s[j]), s[i].part = s[j].part
      PROVE  Rank(s[i].op) < Rank(s[j].op)
  <2>1. PICK k \in 1 .. n + 1 : i = Pos(s[i].op, k) /\ s[i].part = Name(k)
    BY <1>5, <1>7
  <2>2. PICK l \in 1 .. n + 1 : j = Pos(s[j].op, l) /\ s[j].part = Name(l)
    BY <1>5, <1>7
  <2>3. k = l
    BY <2>1, <2>2, <1>3, <1>7
  <2>4. s[i].op \in {"new", "assign"} /\ s[j].op \in {"new", "assign"}
    BY <1>6, <1>7 DEF Work
  <2>. QED BY <2>1, <2>2, <2>3, <2>4, <1>1, <1>7 DEF Rank
<1>8. ASSUME NEW i \in 1 .. Len(s), s[i].op = "assign"
      PROVE  i # 1 /\ s[i - 1].op = "new" /\ s[i - 1].part = s[i].part
  <2>1. PICK k \in 1 .. n + 1 : i = Pos("assign", k) /\ s[i].part = Name(k)
    BY <1>5, <1>8 DEF Work
  <2>2. CASE k = n + 1
    <3>1. i = 2 * n + 3 /\ i - 1 = 2 * n + 2 /\ i # 1
      BY <2>1, <2>2, <1>1
    <3>. QED BY <3>1, <1>2
  <2>3. CASE k # n + 1
    <3>1. k \in 1 .. n /\ i = 2 * k /\ i - 1 = 2 * k - 1 /\ i # 1
      BY <2>1, <2>3, <1>1
    <3>. QED BY <3>1, <1>2
  <2>. QED BY <2>2, <2>3
<1>9. Saving(s) /\ Orderly(s)
  BY <1>6, <1>7, <1>8 DEF Saving, Late, Orderly
<1>10. ASSUME NEW i \in 1 .. Len(s), NEW j \in 1 .. Len(s), i < j, s[i].op = "start", Work(s[j])
       PROVE  s[j].part = "session"
  <2>1. PICK k \in 1 .. n + 1 : j = Pos(s[j].op, k) /\ s[j].part = Name(k)
    BY <1>5, <1>10
  <2>2. i \in {2 * n + 1, 2 * n + 4}
    BY <1>4, <1>10
  <2>3. s[j].op \in {"new", "assign"}
    BY <1>6, <1>10 DEF Work
  <2>4. k = n + 1
    BY <2>1, <2>2, <2>3, <1>1, <1>10
  <2>. QED BY <2>1, <2>4
<1>11. ASSUME NEW i \in 1 .. Len(s), s[i].op = "start", s[i].part = "session"
       PROVE  \E j \in 1 .. i - 1 : s[j].op = "new" /\ s[j].part = "session"
  <2>1. i = 2 * n + 4
    BY <1>2, <1>4, <1>11
  <2>2. 2 * n + 2 \in 1 .. i - 1
    BY <2>1, <1>1
  <2>. QED BY <2>2, <1>2
<1>12. Constructing(s)
  BY <1>6, <1>10, <1>11 DEF Constructing
<1>13. ASSUME NEW p \in Parts PROVE WorksOn(s, p)
  <2>1. CASE p = "session"
    <3>1. 2 * n + 2 \in 1 .. Len(s)
      BY <1>1, <1>2
    <3>. QED BY <2>1, <3>1, <1>2 DEF WorksOn, Work
  <2>2. CASE p # "session"
    <3>1. PICK k \in 1 .. n : P[k] = p
      BY <2>2, <1>1
    <3>2. 2 * k \in 1 .. Len(s)
      BY <1>1, <1>2
    <3>. QED BY <3>1, <3>2, <1>2 DEF WorksOn, Work
  <2>. QED BY <2>1, <2>2
<1>15. SessionLast(s)
  <2>1. ASSUME NEW i \in 1 .. Len(s), NEW j \in 1 .. Len(s), i < j, Work(s[j]),
               Work(s[i]), s[i].part = "session"
        PROVE  s[j].part = "session"
    <3>1. PICK k \in 1 .. n + 1 : i = Pos(s[i].op, k) /\ s[i].part = Name(k)
      BY <1>5, <2>1
    <3>2. PICK l \in 1 .. n + 1 : j = Pos(s[j].op, l) /\ s[j].part = Name(l)
      BY <1>5, <2>1
    <3>3. k = n + 1
      BY <3>1, <2>1, <1>1
    <3>4. i >= 2 * n + 2 /\ s[j].op \in {"new", "assign"}
      BY <3>1, <3>3, <2>1, <1>1, <1>6 DEF Work
    <3>5. l = n + 1
      BY <3>2, <3>4, <2>1, <1>1
    <3>. QED BY <3>2, <3>5
  <2>2. ASSUME NEW i \in 1 .. Len(s), NEW j \in 1 .. Len(s), i < j, Work(s[j]), s[i].op = "start"
        PROVE  s[j].part # s[i].part
    <3>1. s[j].part = "session" /\ i \in {2 * n + 1, 2 * n + 4}
      BY <2>2, <1>4, <1>10
    <3>2. i = 2 * n + 1
      BY <3>1, <2>2, <1>1, <1>2
    <3>. QED BY <3>1, <3>2, <1>2
  <2>. QED BY <2>1, <2>2 DEF SessionLast
<1>14. s # <<>>
  <2>1. Len(s) # 0 /\ Len(<<>>) = 0
    BY <1>1, <1>2
  <2>. QED BY <2>1
<1>16. \A i \in 1 .. Len(s) : s[i].op = "start" => s[i].part \in {"console", "session"}
  BY <1>2, <1>4
<1>. QED BY <1>6, <1>8, <1>9, <1>12, <1>13, <1>14, <1>15, <1>16 DEF s

-----------------------------------------------------------------------------
(* What is left of a list after its first operation                        *)

LEMMA FollowsTail ==
  ASSUME NEW s, Good(s), s # <<>>
  PROVE  Follows(Tail(s), s)
<1>1. /\ s \in Seq(Ops) /\ Tail(s) \in Seq(Ops) /\ Len(Tail(s)) = Len(s) - 1
      /\ \A i \in 1 .. Len(Tail(s)) : Tail(s)[i] = s[i + 1]
  BY TailGood DEF Good
<1>. QED BY <1>1 DEF Follows

LEMMA Indices ==
  ASSUME NEW s \in Seq(Ops), NEW u \in Seq(Ops), s # <<>>, Follows(u, s)
  PROVE  /\ Len(s) \in Nat \ {0} /\ Len(u) \in Nat /\ Len(u) = Len(s) - 1 /\ 1 \in 1 .. Len(s)
         /\ \A i \in 1 .. Len(u) :
              /\ i + 1 \in 1 .. Len(s) /\ u[i].op = s[i + 1].op /\ u[i].part = s[i + 1].part
         /\ \A i \in 1 .. Len(s) : i # 1 =>
              i - 1 \in 1 .. Len(u) /\ u[i - 1].op = s[i].op /\ u[i - 1].part = s[i].part
<1>1. Len(s) \in Nat \ {0} /\ Len(u) \in Nat
  BY LenProperties, EmptySeq
<1>2. /\ Len(u) = Len(s) - 1
      /\ \A i \in 1 .. Len(u) : u[i].op = s[i + 1].op /\ u[i].part = s[i + 1].part
  BY DEF Follows
<1>3. \A i \in 1 .. Len(s) : i # 1 => i - 1 \in 1 .. Len(u) /\ (i - 1) + 1 = i
  BY <1>1, <1>2
<1>. QED BY <1>1, <1>2, <1>3

LEMMA FollowsSaving ==
  ASSUME NEW s \in Seq(Ops), NEW u \in Seq(Ops), s # <<>>, Follows(u, s),
         Saving(s), s[1].op \notin {"uptime", "save"}
  PROVE  Saving(u)
<1>1. ASSUME NEW j \in 1 .. Len(u), Late(u[j])
      PROVE  \E i \in 1 .. j - 1 : u[i].op \in {"uptime", "save"}
  <2>1. j + 1 \in 1 .. Len(s) /\ Late(s[j + 1])
    BY <1>1, Indices DEF Late
  <2>2. PICK i \in 1 .. j : s[i].op \in {"uptime", "save"}
    BY <2>1 DEF Saving
  <2>3. i # 1 /\ i \in 1 .. Len(s) /\ i - 1 \in 1 .. j - 1
    BY <2>1, <2>2
  <2>. QED BY <2>2, <2>3, Indices
<1>. QED BY <1>1 DEF Saving

LEMMA FollowsOrderly ==
  ASSUME NEW s \in Seq(Ops), NEW u \in Seq(Ops), s # <<>>, Follows(u, s), Orderly(s)
  PROVE  Orderly(u)
<1>0. /\ Len(s) \in Nat \ {0} /\ Len(u) \in Nat /\ Len(u) = Len(s) - 1
      /\ \A i \in 1 .. Len(u) :
           /\ i + 1 \in 1 .. Len(s) /\ u[i].op = s[i + 1].op /\ u[i].part = s[i + 1].part
      /\ \A i \in 1 .. Len(s) : i # 1 =>
           i - 1 \in 1 .. Len(u) /\ u[i - 1].op = s[i].op /\ u[i - 1].part = s[i].part
  BY Indices
<1>1. ASSUME NEW i \in 1 .. Len(u), NEW j \in 1 .. Len(u), i < j,
             Work(u[i]), Work(u[j]), u[i].part = u[j].part
      PROVE  Rank(u[i].op) < Rank(u[j].op)
  <2>1. /\ i + 1 \in 1 .. Len(s) /\ j + 1 \in 1 .. Len(s) /\ i + 1 < j + 1
        /\ Work(s[i + 1]) /\ Work(s[j + 1]) /\ s[i + 1].part = s[j + 1].part
    BY <1>0, <1>1 DEF Work
  <2>2. Rank(s[i + 1].op) < Rank(s[j + 1].op)
    BY <2>1 DEF Orderly
  <2>. QED BY <2>2, <1>0
<1>2. ASSUME NEW i \in 1 .. Len(u), u[i].op = "delete"
      PROVE  \E j \in i + 1 .. Len(u) : u[j].op = "new" /\ u[j].part = u[i].part
  <2>1. i + 1 \in 1 .. Len(s) /\ s[i + 1].op = "delete" /\ s[i + 1].part = u[i].part
    BY <1>0, <1>2
  <2>2. PICK j \in (i + 1) + 1 .. Len(s) : s[j].op = "new" /\ s[j].part = s[i + 1].part
    BY <2>1 DEF Orderly
  <2>3. j \in 1 .. Len(s) /\ j # 1 /\ j - 1 \in i + 1 .. Len(u)
    BY <2>2, <1>0
  <2>. QED BY <2>1, <2>2, <2>3, <1>0
<1>3. ASSUME NEW i \in 2 .. Len(u), u[i].op = "assign"
      PROVE  u[i - 1].op = "new" /\ u[i - 1].part = u[i].part
  <2>1. i + 1 \in 2 .. Len(s) /\ i \in 1 .. Len(u) /\ i \in 1 .. Len(s) /\ i # 1
    BY <1>0
  <2>2. s[i + 1].op = "assign" /\ s[i + 1].part = u[i].part
    BY <2>1, <1>0, <1>3
  <2>3. s[i].op = "new" /\ s[i].part = s[i + 1].part
    BY <2>1, <2>2 DEF Orderly
  <2>. QED BY <2>1, <2>2, <2>3, <1>0
<1>. QED BY <1>1, <1>2, <1>3 DEF Orderly

LEMMA FollowsWorks ==
  ASSUME NEW s \in Seq(Ops), NEW u \in Seq(Ops), s # <<>>, Follows(u, s), NEW p
  PROVE  /\ WorksOn(u, p) => WorksOn(s, p)
         /\ WorksOn(s, p) /\ ~(Work(s[1]) /\ s[1].part = p) => WorksOn(u, p)
         /\ Idle(s) => Idle(u)
<1>0. /\ 1 \in 1 .. Len(s)
      /\ \A i \in 1 .. Len(u) :
           /\ i + 1 \in 1 .. Len(s) /\ u[i].op = s[i + 1].op /\ u[i].part = s[i + 1].part
      /\ \A i \in 1 .. Len(s) : i # 1 =>
           i - 1 \in 1 .. Len(u) /\ u[i - 1].op = s[i].op /\ u[i - 1].part = s[i].part
  BY Indices
<1>1. WorksOn(u, p) => WorksOn(s, p)
  <2>1. ASSUME NEW i \in 1 .. Len(u), Work(u[i]), u[i].part = p PROVE WorksOn(s, p)
    <3>1. i + 1 \in 1 .. Len(s) /\ Work(s[i + 1]) /\ s[i + 1].part = p
      BY <2>1, <1>0 DEF Work
    <3>. QED BY <3>1 DEF WorksOn
  <2>. QED BY <2>1 DEF WorksOn
<1>2. WorksOn(s, p) /\ ~(Work(s[1]) /\ s[1].part = p) => WorksOn(u, p)
  <2>1. ASSUME NEW i \in 1 .. Len(s), Work(s[i]), s[i].part = p, i # 1 PROVE WorksOn(u, p)
    <3>1. i - 1 \in 1 .. Len(u) /\ Work(u[i - 1]) /\ u[i - 1].part = p
      BY <2>1, <1>0 DEF Work
    <3>. QED BY <3>1 DEF WorksOn
  <2>. QED BY <2>1 DEF WorksOn
<1>3. Idle(s) => Idle(u)
  BY <1>0 DEF Idle, Work
<1>. QED BY <1>1, <1>2, <1>3

LEMMA FollowsConstructing ==
  ASSUME NEW s \in Seq(Ops), NEW u \in Seq(Ops), s # <<>>, Follows(u, s),
         Constructing(s), s[1].op = "new" => s[1].part # "session"
  PROVE  Constructing(u)
<1>0. /\ Len(s) \in Nat \ {0} /\ Len(u) \in Nat /\ Len(u) = Len(s) - 1
      /\ \A i \in 1 .. Len(u) :
           /\ i + 1 \in 1 .. Len(s) /\ u[i].op = s[i + 1].op /\ u[i].part = s[i + 1].part
      /\ \A i \in 1 .. Len(s) : i # 1 =>
           i - 1 \in 1 .. Len(u) /\ u[i - 1].op = s[i].op /\ u[i - 1].part = s[i].part
  BY Indices
<1>1. \A i \in 1 .. Len(u) : u[i].op \in {"new", "assign", "start"}
  BY <1>0 DEF Constructing
<1>2. ASSUME NEW i \in 1 .. Len(u), NEW j \in 1 .. Len(u), i < j, u[i].op = "start", Work(u[j])
      PROVE  u[j].part = "session"
  <2>1. /\ i + 1 \in 1 .. Len(s) /\ j + 1 \in 1 .. Len(s) /\ i + 1 < j + 1
        /\ s[i + 1].op = "start" /\ Work(s[j + 1])
    BY <1>0, <1>2 DEF Work
  <2>2. s[j + 1].part = "session"
    BY <2>1 DEF Constructing
  <2>. QED BY <2>2, <1>0
<1>3. ASSUME NEW i \in 1 .. Len(u), u[i].op = "start", u[i].part = "session"
      PROVE  \E j \in 1 .. i - 1 : u[j].op = "new" /\ u[j].part = "session"
  <2>1. i + 1 \in 1 .. Len(s) /\ s[i + 1].op = "start" /\ s[i + 1].part = "session"
    BY <1>0, <1>3
  <2>2. PICK j \in 1 .. (i + 1) - 1 : s[j].op = "new" /\ s[j].part = "session"
    BY <2>1 DEF Constructing
  <2>3. j \in 1 .. Len(s) /\ j # 1
    BY <2>1, <2>2
  <2>4. j - 1 \in 1 .. i - 1
    BY <2>2, <2>3
  <2>. QED BY <2>2, <2>3, <2>4, <1>0
<1>. QED BY <1>1, <1>2, <1>3 DEF Constructing

LEMMA FollowsHalfway ==
  ASSUME NEW s \in Seq(Ops), NEW u \in Seq(Ops), s # <<>>, Follows(u, s), Orderly(s), NEW p
  PROVE  /\ ~(Work(s[1]) /\ s[1].part = p) => (Halfway(u, p) <=> Halfway(s, p))
         /\ s[1].op = "delete" /\ s[1].part = p => Halfway(u, p)
         /\ s[1].op \in {"new", "assign"} /\ s[1].part = p => Halfway(s, p)
         /\ s[1].op = "assign" /\ s[1].part = p => ~Halfway(u, p)
<1>0. /\ Len(s) \in Nat \ {0} /\ Len(u) \in Nat /\ Len(u) = Len(s) - 1 /\ 1 \in 1 .. Len(s)
      /\ \A i \in 1 .. Len(u) :
           /\ i + 1 \in 1 .. Len(s) /\ u[i].op = s[i + 1].op /\ u[i].part = s[i + 1].part
      /\ \A i \in 1 .. Len(s) : i # 1 =>
           i - 1 \in 1 .. Len(u) /\ u[i - 1].op = s[i].op /\ u[i - 1].part = s[i].part
  BY Indices
<1>1. ASSUME ~(s[1].op = "delete" /\ s[1].part = p), Halfway(u, p) PROVE Halfway(s, p)
  <2>1. PICK i \in 1 .. Len(u) :
          /\ u[i].op \in {"new", "assign"} /\ u[i].part = p
          /\ \A h \in 1 .. i - 1 : u[h].op = "delete" => u[h].part # p
    BY <1>1 DEF Halfway
  <2>2. i + 1 \in 1 .. Len(s) /\ s[i + 1].op \in {"new", "assign"} /\ s[i + 1].part = p
    BY <2>1, <1>0
  <2>3. ASSUME NEW h \in 1 .. (i + 1) - 1, s[h].op = "delete", h # 1 PROVE s[h].part # p
    <3>1. h - 1 \in 1 .. i - 1 /\ h \in 1 .. Len(s)
      BY <2>3, <2>2, <1>0
    <3>2. u[h - 1].op = "delete" /\ u[h - 1].part = s[h].part
      BY <3>1, <2>3, <1>0
    <3>. QED BY <3>1, <3>2, <2>1
  <2>4. \A h \in 1 .. (i + 1) - 1 : s[h].op = "delete" => s[h].part # p
    BY <2>3, <1>1
  <2>. QED BY <2>2, <2>4 DEF Halfway
<1>2. ASSUME NEW i \in 1 .. Len(s), i # 1, s[i].op \in {"new", "assign"}, s[i].part = p,
             \A h \in 1 .. i - 1 : h # 1 /\ s[h].op = "delete" => s[h].part # p
      PROVE  Halfway(u, p)
  <2>1. i - 1 \in 1 .. Len(u) /\ u[i - 1].op \in {"new", "assign"} /\ u[i - 1].part = p
    BY <1>2, <1>0
  <2>2. ASSUME NEW h \in 1 .. (i - 1) - 1, u[h].op = "delete" PROVE u[h].part # p
    <3>1. h \in 1 .. Len(u) /\ h + 1 \in 1 .. i - 1 /\ h + 1 # 1
      BY <2>1, <1>0
    <3>2. s[h + 1].op = "delete" /\ s[h + 1].part = u[h].part
      BY <3>1, <2>2, <1>0
    <3>. QED BY <3>1, <3>2, <1>2
  <2>. QED BY <2>1, <2>2 DEF Halfway
<1>3. ASSUME ~(Work(s[1]) /\ s[1].part = p), Halfway(s, p) PROVE Halfway(u, p)
  <2>1. PICK i \in 1 .. Len(s) :
          /\ s[i].op \in {"new", "assign"} /\ s[i].part = p
          /\ \A h \in 1 .. i - 1 : s[h].op = "delete" => s[h].part # p
    BY <1>3 DEF Halfway
  <2>2. i # 1
    BY <2>1, <1>3 DEF Work
  <2>. QED BY <2>1, <2>2, <1>2
<1>4. ASSUME s[1].op = "delete", s[1].part = p PROVE Halfway(u, p)
  <2>1. PICK j \in 1 + 1 .. Len(s) : s[j].op = "new" /\ s[j].part = p
    BY <1>4, <1>0 DEF Orderly
  <2>2. ASSUME NEW h \in 1 .. j - 1, h # 1, s[h].op = "delete" PROVE s[h].part # p
    <3>1. h \in 1 .. Len(s) /\ 1 < h
      BY <2>1, <2>2, <1>0
    <3>2. s[h].part = p => Rank(s[1].op) < Rank(s[h].op)
      BY <3>1, <2>2, <1>0, <1>4 DEF Orderly, Work
    <3>. QED BY <3>2, <2>2, <1>4 DEF Rank
  <2>3. j \in 1 .. Len(s) /\ j # 1
    BY <2>1, <1>0
  <2>. QED BY <2>1, <2>2, <2>3, <1>2
<1>5. ASSUME s[1].op \in {"new", "assign"}, s[1].part = p PROVE Halfway(s, p)
  <2>1. \A h \in 1 .. 1 - 1 : s[h].op = "delete" => s[h].part # p
    OBVIOUS
  <2>. QED BY <2>1, <1>0, <1>5 DEF Halfway
<1>6. ASSUME s[1].op = "assign", s[1].part = p, Halfway(u, p) PROVE FALSE
  <2>1. PICK i \in 1 .. Len(u) : u[i].op \in {"new", "assign"} /\ u[i].part = p
    BY <1>6 DEF Halfway
  <2>2. /\ i + 1 \in 1 .. Len(s) /\ 1 < i + 1
        /\ s[i + 1].op \in {"new", "assign"} /\ s[i + 1].part = p
    BY <2>1, <1>0
  <2>3. Rank(s[1].op) < Rank(s[i + 1].op)
    BY <2>2, <1>0, <1>6 DEF Orderly, Work
  <2>. QED BY <2>2, <2>3, <1>6 DEF Rank
<1>. QED BY <1>1, <1>3, <1>4, <1>5, <1>6 DEF Work


-----------------------------------------------------------------------------
(* The lists after a step                                                  *)

GoesOn(t) == Follows(todo'[t], todo[t]) /\ UNCHANGED faulted
Faults(t) == todo'[t] = Segfault /\ faulted' = faulted \cup {t}
Others(t) == \A v \in Threads \ {t} : todo'[v] = todo[v]
Flags == UNCHANGED <<m_crash, m_running, hooked, process>>

LEMMA ProceedFollows ==
  ASSUME TypeInv, NEW t \in Threads, todo[t] # <<>>, Proceed(t)
  PROVE  Follows(todo'[t], todo[t]) /\ Others(t)
<1>1. todo \in [Threads -> Seq(Ops)] /\ Good(todo[t])
  BY DEF TypeInv, Lists
<1>2. todo'[t] = Tail(todo[t]) /\ Others(t)
  BY <1>1 DEF Proceed, Others
<1>. QED BY <1>1, <1>2, FollowsTail

LEMMA FaultSegfaults ==
  ASSUME TypeInv, NEW t \in Threads, t \notin faulted, Fault(t)
  PROVE  Faults(t) /\ Others(t) /\ UNCHANGED process
BY DEF Fault, Faults, Others, TypeInv, Lists

LEMMA AstrayOrFine ==
  ASSUME TypeInv, NEW t \in Threads, todo[t] # <<>>, t \notin faulted, Fine(t) \/ Wanders(t)
  PROVE  (GoesOn(t) \/ Faults(t)) /\ Others(t) /\ UNCHANGED process
BY ProceedFollows, FaultSegfaults DEF Fine, Wanders, Astray, GoesOn

\* The operations that leave the objects as they are, and save nothing.
Passes(t) ==
  \/ Stop(t) \/ Visit(t) \/ Empty(t) \/ Say(t) \/ Bye(t) \/ Loop(t)
  \/ ConnectMade(t) \/ ConnectFailed(t) \/ Disconnect(t)
PassNames == {"stop", "visit", "empty", "say", "bye", "loop", "connect", "disconnect"}

LEMMA Passing ==
  ASSUME NEW t, Passes(t)
  PROVE  /\ Head(todo[t]).op \in PassNames
         /\ UNCHANGED <<objects, m_crash, m_running, hooked, saved>>
         /\ Fine(t) \/ Wanders(t) \/ Fault(t)
         /\ ConnectFailed(t) \/ UNCHANGED inside
         /\ Fine(t) \/ Strays
<1>1. Head(todo[t]).op \in PassNames
  BY DEF Passes, PassNames, Stop, Visit, Empty, Say, Bye, Loop, ConnectMade, ConnectFailed, Disconnect, At
<1>2. UNCHANGED <<objects, m_crash, m_running, hooked, saved>> /\ (ConnectFailed(t) \/ UNCHANGED inside)
  BY DEF Passes, Stop, Visit, Empty, Say, Bye, Loop, ConnectMade, ConnectFailed, Disconnect
<1>3. \/ Fine(t) \/ (Fault(t) /\ Undefined(Phase)) \/ Astray(t, Phase) \/ Astray(t, "torn")
      \/ \E p, o : OnShutdown(t, p, o)
  BY DEF Passes, Stop, Visit, Empty, Say, Bye, Loop, ConnectMade, ConnectFailed, Disconnect
<1>4. Wanders(t) => Strays
  BY DEF Wanders, Strays, Astray
<1>. QED BY <1>1, <1>2, <1>3, <1>4, Ways

\* `new' where a class has no singleton: the object goes to the assignment
\* behind it.
LEMMA NewMakes ==
  ASSUME TypeInv, TypeInv', NEW t \in Threads, New(t), mSingleton[part(t)] = 0
  PROVE  LET p == part(t)  n == made[p] + 1 IN
         /\ p \in Parts /\ todo[t] # <<>> /\ todo[t][1].op = "new" /\ todo[t][1].part = p
         /\ GoesOn(t) /\ Others(t) /\ UNCHANGED process /\ UNCHANGED ptr
         /\ alive' = [alive EXCEPT ![p] = @ \cup {n}]
         /\ mSingleton' = [mSingleton EXCEPT ![p] = n]
         /\ Len(todo'[t]) >= 1 /\ todo'[t][1].op = "assign" /\ todo'[t][1].part = p
         /\ todo'[t][1].object = n
<1> DEFINE s == todo[t]
           u == todo'[t]
           p == part(t)
           n == made[p] + 1
           rest == Tail(s)
           list == [i \in DOMAIN rest |->
                      IF i = 1 THEN [rest[1] EXCEPT !.object = n] ELSE rest[i]]
<1>1. /\ s \in Seq(Ops) /\ u \in Seq(Ops) /\ Good(s) /\ s # <<>>
      /\ Len(s) \in Nat /\ 1 \in 1 .. Len(s) /\ s[1].op = "new" /\ s[1].part = p
  BY ReadingOps DEF TypeInv, Lists, New, At, part
<1>2. /\ p \in Parts /\ 2 \in 1 .. Len(s) /\ s[2].part = p /\ s[2].op = "assign"
  BY <1>1 DEF Good, Touching
<1>3. /\ alive' = [alive EXCEPT ![p] = @ \cup {n}] /\ mSingleton' = [mSingleton EXCEPT ![p] = n]
      /\ ptr' = ptr /\ todo' = [todo EXCEPT ![t] = list] /\ UNCHANGED <<process, faulted>>
  BY DEF New
<1>4. u = list /\ Others(t)
  BY <1>3 DEF TypeInv, Lists, Others
<1>5. /\ rest \in Seq(Ops) /\ Len(rest) = Len(s) - 1 /\ Len(rest) \in Nat
      /\ DOMAIN rest = 1 .. Len(rest) /\ \A i \in 1 .. Len(rest) : rest[i] = s[i + 1]
  BY <1>1, TailGood, LenProperties
<1>6. \A o \in Ops : /\ [o EXCEPT !.object = n].op = o.op /\ [o EXCEPT !.object = n].part = o.part
                     /\ [o EXCEPT !.object = n].object = n
  BY DEF Ops
<1>7. /\ DOMAIN list = 1 .. Len(rest)
      /\ \A i \in 1 .. Len(rest) : list[i] = IF i = 1 THEN [rest[1] EXCEPT !.object = n] ELSE rest[i]
  BY <1>5
<1>8. \A i \in 1 .. Len(rest) : rest[i] \in Ops
  BY <1>5
<1>9. GoesOn(t) <=> Follows(u, s)
  BY <1>3 DEF GoesOn
<1>. HIDE DEF s, list, rest, n, p
<1>10. Len(list) = Len(rest)
  <2>1. DOMAIN list = 1 .. Len(list) /\ Len(list) \in Nat
    BY <1>1, <1>4, LenProperties
  <2>2. \A a, b \in Nat : 1 .. a = 1 .. b => a = b
    <3>1. ASSUME NEW a \in Nat, NEW b \in Nat, a < b PROVE b \in 1 .. b /\ b \notin 1 .. a
      BY <3>1
    <3>. QED BY <3>1
  <2>. QED BY <2>1, <2>2, <1>5, <1>7
<1>11. ASSUME NEW i \in 1 .. Len(list)
       PROVE  list[i].op = rest[i].op /\ list[i].part = rest[i].part
  <2>1. CASE i = 1
    <3>1. list[1] = [rest[1] EXCEPT !.object = n] /\ rest[1] \in Ops
      BY <2>1, <1>7, <1>8, <1>10
    <3>. QED BY <2>1, <3>1, <1>6
  <2>2. CASE i # 1
    BY <2>2, <1>7, <1>10
  <2>. QED BY <2>1, <2>2
<1>12. Follows(list, s)
  BY <1>5, <1>10, <1>11 DEF Follows
<1>13. Len(list) >= 1 /\ list[1].op = s[2].op /\ list[1].part = s[2].part /\ list[1].object = n
  <2>1. 1 \in 1 .. Len(rest) /\ 1 + 1 = 2
    BY <1>1, <1>2, <1>5
  <2>2. list[1] = [rest[1] EXCEPT !.object = n] /\ rest[1] \in Ops
    BY <2>1, <1>7, <1>8
  <2>3. list[1].object = n
    BY <2>2, <1>6
  <2>4. Len(list) >= 1 /\ 1 \in 1 .. Len(list)
    BY <2>1, <1>5, <1>10
  <2>5. rest[1] = s[2]
    BY <2>1, <1>5
  <2>. QED BY <2>3, <2>4, <2>5, <1>11
<1>. QED BY <1>1, <1>2, <1>3, <1>4, <1>9, <1>12, <1>13 DEF p, n, s

-----------------------------------------------------------------------------
(* The uptime                                                              *)

\* As long as nothing was saved the handlers would save it, and every thread
\* saves before it does anything that counts.
SaveInv ==
  ~saved =>
    /\ m_crash /\ m_running /\ hooked /\ process \notin {"ended", "aborted"}
    /\ \A t \in Threads : Saving(todo[t])
    /\ \A t \in faulted : todo[t] = Handler

\* What a list is about to delete exists, what it is about to make does not.
Apt(s) ==
  \A i \in 1 .. Len(s) : LET p == s[i].part IN
    /\ s[i].op = "delete" => ptr[p] \in alive[p]
    /\ s[i].op = "new" /\ (\A h \in 1 .. i - 1 : s[h].op = "delete" => s[h].part # p)
         => mSingleton[p] = 0
    /\ s[i].op = "assign" /\ i = 1 => s[i].object \in alive[p]

\* Start-up, before there is a session: no signal would be answered, but
\* nothing calls abort() either, since main and console work on different parts.
Early == ~saved /\ mSingleton["session"] = 0
EarlyInv ==
  /\ inside \in [{"console", "session"} -> Nat] /\ inside["session"] = 0
  /\ \A t \in Threads : Orderly(todo[t]) /\ Apt(todo[t])
  /\ \A t \in Threads \ {"main"} : \A i \in 1 .. Len(todo[t]) : todo[t][i].op # "start"
  /\ \A t \in Threads \ {"main", "console"} : Idle(todo[t])
  /\ Constructing(todo["main"]) /\ ~WorksOn(todo["console"], "session")
  /\ (\E p \in Parts \ {"session"} : WorksOn(todo["main"], p)) =>
       inside["console"] = 0 /\ Idle(todo["console"])
  /\ "console" \notin faulted =>
       \A p \in Parts \ {"session"} :
         WorksOn(todo["main"], p) \/ WorksOn(todo["console"], p) \/ ptr[p] \in alive[p]
StartInv == Early => EarlyInv

\* SIGABRT while a signal is answered.
Signals(t) ==
  /\ mSingleton["session"] # 0
  /\ todo'[t] = OnSignal \o <<Do("die", "none")>> /\ UNCHANGED faulted

LEMMA UnsavedOps ==
  ASSUME TypeInv, SaveInv, NEW t \in Threads, Step(t), ~saved'
  PROVE  /\ ~saved /\ t \notin faulted /\ todo[t] # <<>>
         /\ Head(todo[t]) = todo[t][1] /\ todo[t][1].part = part(t)
         /\ Passes(t) \/ Delete(t) \/ New(t) \/ Assign(t) \/ Start(t)
         /\ Delete(t) => part(t) # "session"
<1>0. \/ Uptime(t) \/ Save(t) \/ Clear(t) \/ Halt(t) \/ Unhook(t) \/ CallAbort(t) \/ End(t)
      \/ Passes(t) \/ Delete(t) \/ New(t) \/ Assign(t) \/ Start(t)
  BY DEF Step, Passes
<1>1. todo[t] # <<>> /\ Head(todo[t]) = todo[t][1] /\ Len(todo[t]) \in Nat \ {0}
  <2>1. Passes(t) => todo[t] # <<>>
    BY DEF Passes, At, Stop, Visit, Empty, Say, Bye, Loop, ConnectMade, ConnectFailed, Disconnect
  <2>2. todo[t] # <<>>
    BY <1>0, <2>1 DEF At, Uptime, Save, Clear, Halt, Delete, New, Assign, Start, Unhook, CallAbort, End
  <2>. QED BY <2>2, ReadingOps DEF TypeInv
<1>2. ~Uptime(t)
  BY DEF Uptime
<1>3. ~saved
  <2>1. ASSUME Save(t) PROVE ~saved
    BY <2>1 DEF Save
  <2>2. Passes(t) => saved' = saved
    BY Passing
  <2>3. ASSUME ~Save(t), ~Uptime(t) PROVE saved' = saved
    BY <1>0, <2>2, <2>3 DEF Clear, Halt, Delete, New, Assign, Start, Unhook, CallAbort, End
  <2>. QED BY <2>1, <2>3, <1>2
<1>4. ~Save(t)
  BY <1>3 DEF Save, SaveInv
<1>5. ~Late(todo[t][1])
  <2>1. Saving(todo[t]) /\ 1 \in 1 .. Len(todo[t])
    BY <1>1, <1>3 DEF SaveInv
  <2>2. Late(todo[t][1]) => \E i \in 1 .. 1 - 1 : todo[t][i].op \in {"uptime", "save"}
    BY <2>1 DEF Saving
  <2>. QED BY <2>2
<1>6. ~Clear(t) /\ ~Halt(t) /\ ~Unhook(t) /\ ~CallAbort(t) /\ ~End(t)
  BY <1>1, <1>5 DEF Late, Clear, Halt, Unhook, CallAbort, End, At
<1>7. Passes(t) \/ Delete(t) \/ New(t) \/ Assign(t) \/ Start(t)
  BY <1>0, <1>2, <1>4, <1>6
<1>8. t \notin faulted
  <2>1. Passes(t) => todo[t][1].op # "uptime"
    BY <1>1, Passing DEF PassNames
  <2>2. todo[t][1].op # "uptime"
    BY <1>1, <1>7, <2>1 DEF Delete, New, Assign, Start, At
  <2>. QED BY <2>2, <1>3, HandlerLists DEF SaveInv
<1>9. todo[t][1].part = part(t) /\ (Delete(t) => part(t) # "session")
  BY <1>1, <1>5 DEF part, Late, Delete, At
<1>. QED BY <1>1, <1>3, <1>7, <1>8, <1>9

\* What is deleted exists and what is made does not, until the session exists.
LEMMA EarlyApt ==
  ASSUME TypeInv, SaveInv, StartInv, NEW t \in Threads, Step(t), ~saved', mSingleton["session"] = 0
  PROVE  /\ Delete(t) => Usable(t)
         /\ New(t) => mSingleton[part(t)] = 0
<1>1. /\ ~saved /\ todo[t] # <<>> /\ Head(todo[t]) = todo[t][1] /\ todo[t][1].part = part(t)
  BY UnsavedOps
<1>2. Apt(todo[t])
  BY <1>1 DEF StartInv, Early, EarlyInv
<1>3. 1 \in 1 .. Len(todo[t])
  BY <1>1, ReadingOps DEF TypeInv
<1>4. /\ todo[t][1].op = "delete" => ptr[part(t)] \in alive[part(t)]
      /\ todo[t][1].op = "new" => mSingleton[part(t)] = 0
  BY <1>1, <1>2, <1>3 DEF Apt
<1>. QED BY <1>1, <1>4 DEF Delete, New, At, Usable, target

LEMMA UnsavedStep ==
  ASSUME TypeInv, TypeInv', SaveInv, StartInv, NEW t \in Threads, Step(t), ~saved'
  PROVE  (GoesOn(t) \/ Faults(t) \/ Signals(t)) /\ Others(t) /\ Flags
<1>1. /\ ~saved /\ t \notin faulted /\ todo[t] # <<>>
      /\ Passes(t) \/ Delete(t) \/ New(t) \/ Assign(t) \/ Start(t)
  BY UnsavedOps
<1>2. UNCHANGED <<m_crash, m_running, hooked>>
  BY <1>1, Passing DEF Delete, New, Assign, Start
<1>3. ASSUME Fine(t) \/ Wanders(t) \/ Fault(t)
      PROVE  (GoesOn(t) \/ Faults(t)) /\ Others(t) /\ UNCHANGED process
  BY <1>1, <1>3, AstrayOrFine, FaultSegfaults
<1>4. ASSUME Abort(t), mSingleton["session"] # 0
      PROVE  Signals(t) /\ Others(t) /\ UNCHANGED process
  BY <1>1, <1>4 DEF Abort, SaveInv, Signals, Others, TypeInv, Lists
<1>5. ASSUME Passes(t) \/ Assign(t) \/ Start(t)
      PROVE  Fine(t) \/ Wanders(t) \/ Fault(t)
  BY <1>5, Passing DEF Assign, Start
<1>6. ASSUME Delete(t)
      PROVE  Fine(t) \/ Wanders(t) \/ (Abort(t) /\ mSingleton["session"] # 0)
  BY <1>6, EarlyApt, Ways DEF Delete
<1>7. ASSUME New(t)
      PROVE  \/ GoesOn(t) /\ Others(t) /\ UNCHANGED process
             \/ Abort(t) /\ mSingleton["session"] # 0
  <2>1. CASE mSingleton["session"] # 0 /\ mSingleton[part(t)] # 0
    BY <1>7, <2>1 DEF New
  <2>2. CASE mSingleton["session"] = 0 \/ mSingleton[part(t)] = 0
    <3>1. mSingleton[part(t)] = 0
      BY <1>7, <2>2, EarlyApt
    <3>. QED BY <1>7, <3>1, NewMakes
  <2>. QED BY <2>1, <2>2
<1>. QED BY <1>1, <1>2, <1>3, <1>4, <1>5, <1>6, <1>7 DEF Flags

-----------------------------------------------------------------------------
(* The uptime, step by step                                                *)

\* A thread's list is replaced by one that saves.
LEMMA SavingList ==
  ASSUME SaveInv, NEW t \in Threads, Others(t), Flags, ~saved, faulted \subseteq Threads,
         Saving(todo'[t]),
         \/ UNCHANGED faulted /\ t \notin faulted
         \/ faulted' = faulted \cup {t} /\ todo'[t] = Segfault
  PROVE  SaveInv'
<1>1. m_crash' /\ m_running' /\ hooked' /\ process' \notin {"ended", "aborted"}
  BY DEF SaveInv, Flags
<1>2. \A v \in Threads : Saving(todo'[v])
  BY DEF SaveInv, Others
<1>3. \A v \in faulted' : todo'[v] = Handler
  <2>1. Segfault = Handler
    BY FaultHandled DEF SaveInv, Threads
  <2>. QED BY <2>1 DEF SaveInv, Others
<1>. QED BY <1>1, <1>2, <1>3 DEF SaveInv

LEMMA StepSaves ==
  ASSUME TypeInv, TypeInv', SaveInv, StartInv, NEW t \in Threads, Step(t)
  PROVE  SaveInv'
<1>1. CASE saved'
  BY <1>1 DEF SaveInv
<1>2. CASE ~saved'
  <2>1. /\ ~saved /\ t \notin faulted /\ todo[t] # <<>> /\ Head(todo[t]) = todo[t][1]
        /\ Passes(t) \/ Delete(t) \/ New(t) \/ Assign(t) \/ Start(t)
    BY <1>2, UnsavedOps
  <2>2. todo[t] \in Seq(Ops) /\ todo'[t] \in Seq(Ops) /\ faulted \subseteq Threads
    BY DEF TypeInv, Lists, Rest
  <2>3. todo[t][1].op \notin {"uptime", "save"}
    <3>1. Passes(t) => todo[t][1].op \notin {"uptime", "save"}
      BY <2>1, Passing DEF PassNames
    <3>. QED BY <2>1, <3>1 DEF Delete, New, Assign, Start, At
  <2>4. (GoesOn(t) \/ Faults(t) \/ Signals(t)) /\ Others(t) /\ Flags
    BY <1>2, UnsavedStep
  <2>5. Saving(todo[t])
    BY <2>1 DEF SaveInv
  <2>6. Saving(todo'[t])
    <3>1. Segfault = Handler
      BY <2>1, FaultHandled DEF SaveInv, Threads
    <3>. QED
      BY <3>1, <2>1, <2>2, <2>3, <2>4, <2>5, FollowsSaving, HandlerLists DEF GoesOn, Faults, Signals
  <2>. QED BY <2>1, <2>2, <2>4, <2>6, SavingList DEF GoesOn, Faults, Signals
<1>. QED BY <1>1, <1>2

-----------------------------------------------------------------------------
(* Start-up                                                                *)

LEMMA AptIdle ==
  ASSUME NEW v \in Threads, Idle(todo'[v])
  PROVE  Apt(todo[v])'
BY DEF Apt, Idle, Work

\* A list is not concerned by what happens to a part it does not work on.
LEMMA AptOther ==
  ASSUME TypeInv, NEW v \in Threads, todo'[v] = todo[v], Apt(todo[v]), NEW p, ~WorksOn(todo[v], p),
         \A q \in Parts \ {p} : ptr'[q] = ptr[q] /\ alive'[q] = alive[q] /\ mSingleton'[q] = mSingleton[q]
  PROVE  Apt(todo[v])'
<1>1. \A i \in 1 .. Len(todo[v]) :
        todo[v][i].op \in {"delete", "new", "assign"} => todo[v][i].part \in Parts \ {p}
  <2>1. Good(todo[v])
    BY DEF TypeInv, Lists
  <2>. QED BY <2>1 DEF Good, Touching, WorksOn, Work
<1>. QED BY <1>1 DEF Apt

LEMMA AptSame ==
  ASSUME NEW v \in Threads, todo'[v] = todo[v], Apt(todo[v]), UNCHANGED <<ptr, alive, mSingleton>>
  PROVE  Apt(todo[v])'
BY DEF Apt

\* What is left of a list after an operation on p, or on no part at all.
LEMMA AptRest ==
  ASSUME TypeInv, TypeInv', NEW t \in Threads, todo[t] # <<>>, Follows(todo'[t], todo[t]),
         Apt(todo[t]), Orderly(todo[t]), todo[t][1].op # "new", NEW p, p = todo[t][1].part,
         \/ ~Work(todo[t][1]) /\ UNCHANGED <<ptr, alive, mSingleton>>
         \/ /\ Work(todo[t][1])
            /\ \A q \in Parts \ {p} : /\ ptr'[q] = ptr[q] /\ alive'[q] = alive[q]
                                      /\ mSingleton'[q] = mSingleton[q]
            /\ todo[t][1].op = "delete" => mSingleton'[p] = 0
  PROVE  Apt(todo[t])'
<1> DEFINE s == todo[t]
           u == todo'[t]
<1>1. s \in Seq(Ops) /\ u \in Seq(Ops) /\ Good(s)
  BY DEF TypeInv, Lists
<1>2. /\ Len(s) \in Nat \ {0} /\ Len(u) \in Nat /\ Len(u) = Len(s) - 1 /\ 1 \in 1 .. Len(s)
      /\ \A i \in 1 .. Len(u) :
           /\ i + 1 \in 1 .. Len(s) /\ u[i].op = s[i + 1].op /\ u[i].part = s[i + 1].part
      /\ \A i \in 1 .. Len(s) : i # 1 =>
           i - 1 \in 1 .. Len(u) /\ u[i - 1].op = s[i].op /\ u[i - 1].part = s[i].part
  BY <1>1, Indices
<1>3. s[1].op # "new" /\ p = s[1].part /\ Apt(s) /\ Orderly(s)
  OBVIOUS
<1>4. \/ ~Work(s[1]) /\ UNCHANGED <<ptr, alive, mSingleton>>
      \/ /\ Work(s[1])
         /\ \A q \in Parts \ {p} : /\ ptr'[q] = ptr[q] /\ alive'[q] = alive[q]
                                   /\ mSingleton'[q] = mSingleton[q]
         /\ s[1].op = "delete" => mSingleton'[p] = 0
  OBVIOUS
<1>. HIDE DEF s
<1>5. ASSUME NEW i \in 1 .. Len(u)
      PROVE  /\ u[i].op = "delete" => ptr'[u[i].part] \in alive'[u[i].part]
             /\ u[i].op = "new" /\ (\A h \in 1 .. i - 1 : u[h].op = "delete" => u[h].part # u[i].part)
                  => mSingleton'[u[i].part] = 0
             /\ ~(u[i].op = "assign" /\ i = 1)
  <2> DEFINE j == i + 1
             q == s[j].part
  <2>1. j \in 1 .. Len(s) /\ j # 1 /\ 1 < j /\ u[i].op = s[j].op /\ u[i].part = q
    BY <1>2
  <2>2. s[j].op \in {"delete", "new"} => q \in Parts
    BY <2>1, <1>1 DEF Good, Touching
  <2>3. Work(s[1]) /\ Work(s[j]) /\ s[1].part = q => Rank(s[1].op) < Rank(s[j].op)
    BY <2>1, <1>2, <1>3 DEF Orderly
  <2>4. ~(s[j].op = "assign" /\ i = 1)
    <3>1. i = 1 => j \in 2 .. Len(s) /\ j - 1 = 1
      BY <2>1
    <3>. QED BY <3>1, <1>3 DEF Orderly
  <2>. HIDE DEF u
  <2>5. s[j].op = "delete" => ptr'[q] \in alive'[q]
    <3>1. s[j].op = "delete" => ptr[q] \in alive[q]
      BY <2>1, <1>3 DEF Apt
    <3>2. s[j].op = "delete" /\ Work(s[1]) => q # p
      BY <2>3, <1>3 DEF Rank, Work
    <3>. QED BY <3>1, <3>2, <2>2, <1>4
  <2>6. ASSUME s[j].op = "new", \A h \in 1 .. i - 1 : u[h].op = "delete" => u[h].part # q
        PROVE  mSingleton'[q] = 0
    <3>1. CASE s[1].op = "delete" /\ q = p
      BY <3>1, <2>2, <2>6, <1>3, <1>4 DEF Work
    <3>2. CASE ~(s[1].op = "delete" /\ q = p)
      <4>1. \A h \in 1 .. j - 1 : s[h].op = "delete" => s[h].part # q
        <5>1. ASSUME NEW h \in 1 .. j - 1, s[h].op = "delete", h # 1 PROVE s[h].part # q
          <6>1. h \in 1 .. Len(s) /\ h - 1 \in 1 .. i - 1
            BY <5>1, <2>1, <1>2
          <6>. QED BY <6>1, <5>1, <2>6, <1>2
        <5>. QED BY <5>1, <3>2, <1>3
      <4>2. mSingleton[q] = 0
        BY <4>1, <2>1, <2>6, <1>3 DEF Apt
      <4>3. Work(s[1]) => q # p
        BY <2>3, <2>6, <3>2, <1>3 DEF Work, Rank
      <4>. QED BY <4>2, <4>3, <2>2, <2>6, <1>4
    <3>. QED BY <3>1, <3>2
  <2>. QED BY <2>1, <2>4, <2>5, <2>6
<1>. QED BY <1>5 DEF Apt

\* A thread other than main gets a list that works on nothing.
LEMMA EarlyHarmless ==
  ASSUME EarlyInv, NEW t \in Threads \ {"main"}, Others(t), Harmless(todo'[t]),
         UNCHANGED <<ptr, alive, mSingleton, inside>>, faulted \subseteq faulted',
         t = "console" => Idle(todo[t]) \/ "console" \in faulted'
  PROVE  EarlyInv'
<1>0. "main" \in Threads /\ "console" \in Threads /\ "main" # "console" /\ "console" # "session"
  BY DEF Threads
<1>1. \A v \in Threads \ {t} : todo'[v] = todo[v]
  BY DEF Others
<1>2. Idle(todo'[t]) /\ \A i \in 1 .. Len(todo'[t]) : todo'[t][i].op # "start"
  BY DEF Harmless, Idle
<1>3. Orderly(todo'[t])
  BY <1>2 DEF Orderly, Idle, Work
<1>4. \A p : ~WorksOn(todo'[t], p)
  BY <1>2 DEF WorksOn, Idle
<1>5. todo'["main"] = todo["main"]
  BY <1>0, <1>1
<1>6. inside' \in [{"console", "session"} -> Nat] /\ inside'["session"] = 0
  BY DEF EarlyInv
<1>7. \A v \in Threads : Orderly(todo'[v])
  BY <1>1, <1>3 DEF EarlyInv
<1>8. ASSUME NEW v \in Threads PROVE Apt(todo[v])'
  <2>1. CASE v = t
    BY <2>1, <1>2, AptIdle
  <2>2. CASE v # t
    BY <2>2, <1>1, AptSame DEF EarlyInv
  <2>. QED BY <2>1, <2>2
<1>9. \A v \in Threads \ {"main"} : \A i \in 1 .. Len(todo'[v]) : todo'[v][i].op # "start"
  BY <1>1, <1>2 DEF EarlyInv
<1>10. \A v \in Threads \ {"main", "console"} : Idle(todo'[v])
  BY <1>1, <1>2 DEF EarlyInv
<1>11. Constructing(todo'["main"])
  BY <1>5 DEF EarlyInv
<1>12. ~WorksOn(todo'["console"], "session")
  BY <1>0, <1>1, <1>4 DEF EarlyInv
<1>13. (\E p \in Parts \ {"session"} : WorksOn(todo'["main"], p)) =>
          inside'["console"] = 0 /\ Idle(todo'["console"])
  BY <1>0, <1>1, <1>2, <1>5 DEF EarlyInv
<1>14. ASSUME "console" \notin faulted', NEW p \in Parts \ {"session"}
       PROVE  WorksOn(todo'["main"], p) \/ WorksOn(todo'["console"], p) \/ ptr'[p] \in alive'[p]
  <2>1. WorksOn(todo["main"], p) \/ WorksOn(todo["console"], p) \/ ptr[p] \in alive[p]
    BY <1>14 DEF EarlyInv
  <2>2. t = "console" => ~WorksOn(todo["console"], p)
    BY <1>14 DEF Idle, WorksOn
  <2>. QED BY <2>1, <2>2, <1>0, <1>1, <1>5
<1>. QED BY <1>6, <1>7, <1>8, <1>9, <1>10, <1>11, <1>12, <1>13, <1>14 DEF EarlyInv

\* A thread goes on, in a list that keeps to the rules of start-up; p is the
\* part it has worked on.
LEMMA EarlyGoesOn ==
  ASSUME TypeInv, TypeInv', EarlyInv, NEW t \in Threads, todo[t] # <<>>, Others(t), GoesOn(t),
         NEW p, p = todo[t][1].part,
         inside' \in [{"console", "session"} -> Nat], inside'["session"] = 0,
         \/ inside' = inside
         \/ t = "main" /\ \A q \in Parts \ {"session"} : ~WorksOn(todo[t], q),
         \A v \in Threads : Apt(todo[v])',
         t = "main" => Constructing(todo'[t]),
         \A q \in Parts \ {p} : ptr'[q] = ptr[q] /\ alive'[q] = alive[q],
         \/ ~Work(todo[t][1]) /\ ptr' = ptr /\ alive' = alive
         \/ p = "session" \/ WorksOn(todo'[t], p) \/ ptr'[p] \in alive'[p]
  PROVE  EarlyInv'
<1>0. "main" \in Threads /\ "console" \in Threads /\ "main" # "console" /\ "console" # "session"
  BY DEF Threads
<1>1. \A v \in Threads \ {t} : todo'[v] = todo[v]
  BY DEF Others
<1>2. todo[t] \in Seq(Ops) /\ todo'[t] \in Seq(Ops) /\ Follows(todo'[t], todo[t]) /\ UNCHANGED faulted
  BY DEF TypeInv, Lists, GoesOn
<1>3. Orderly(todo'[t])
  BY <1>2, FollowsOrderly DEF EarlyInv
<1>4. \A q : /\ WorksOn(todo'[t], q) => WorksOn(todo[t], q)
             /\ WorksOn(todo[t], q) /\ ~(Work(todo[t][1]) /\ p = q) => WorksOn(todo'[t], q)
             /\ Idle(todo[t]) => Idle(todo'[t])
  BY <1>2, FollowsWorks
<1>5. ASSUME t # "main", NEW i \in 1 .. Len(todo'[t]) PROVE todo'[t][i].op # "start"
  <2>1. i + 1 \in 1 .. Len(todo[t]) /\ todo'[t][i].op = todo[t][i + 1].op
    BY <1>2, Indices
  <2>. QED BY <2>1, <1>5 DEF EarlyInv
<1>7. \A v \in Threads : Orderly(todo'[v])
  BY <1>1, <1>3 DEF EarlyInv
<1>9. \A v \in Threads \ {"main"} : \A i \in 1 .. Len(todo'[v]) : todo'[v][i].op # "start"
  BY <1>1, <1>5 DEF EarlyInv
<1>10. \A v \in Threads \ {"main", "console"} : Idle(todo'[v])
  BY <1>1, <1>4 DEF EarlyInv
<1>11. Constructing(todo'["main"])
  BY <1>0, <1>1 DEF EarlyInv
<1>12. ~WorksOn(todo'["console"], "session")
  BY <1>0, <1>1, <1>4 DEF EarlyInv
<1>13. ASSUME NEW q \in Parts \ {"session"}, WorksOn(todo'["main"], q)
       PROVE  inside'["console"] = 0 /\ Idle(todo'["console"])
  <2>1. WorksOn(todo["main"], q)
    BY <1>0, <1>1, <1>4, <1>13
  <2>2. inside["console"] = 0 /\ Idle(todo["console"])
    BY <2>1 DEF EarlyInv
  <2>3. inside' = inside
    BY <2>1
  <2>. QED BY <2>2, <2>3, <1>0, <1>1, <1>4
<1>14. ASSUME "console" \notin faulted', NEW q \in Parts \ {"session"}
       PROVE  WorksOn(todo'["main"], q) \/ WorksOn(todo'["console"], q) \/ ptr'[q] \in alive'[q]
  <2>1. WorksOn(todo["main"], q) \/ WorksOn(todo["console"], q) \/ ptr[q] \in alive[q]
    BY <1>2, <1>14 DEF EarlyInv
  <2>2. t \notin {"main", "console"} => ~WorksOn(todo[t], q)
    BY DEF EarlyInv, Idle, WorksOn
  <2>3. CASE q # p \/ (~Work(todo[t][1]) /\ ptr' = ptr /\ alive' = alive)
    <3>1. ptr'[q] = ptr[q] /\ alive'[q] = alive[q]
      BY <2>3
    <3>2. WorksOn(todo[t], q) => WorksOn(todo'[t], q)
      BY <2>3, <1>4
    <3>. QED BY <2>1, <3>1, <3>2, <1>0, <1>1
  <2>4. CASE q = p /\ (WorksOn(todo'[t], p) \/ ptr'[p] \in alive'[p])
    <3>1. WorksOn(todo'[t], q) => t \in {"main", "console"}
      BY <2>2, <1>4
    <3>. QED BY <2>4, <3>1
  <2>. QED BY <2>3, <2>4
<1>. QED BY <1>7, <1>9, <1>10, <1>11, <1>12, <1>13, <1>14 DEF EarlyInv

\* What `new' leaves of its list.
LEMMA AptNew ==
  ASSUME TypeInv, TypeInv', NEW t \in Threads, New(t), Apt(todo[t]), Orderly(todo[t]),
         NEW p, p = todo[t][1].part, mSingleton[part(t)] = 0
  PROVE  /\ Apt(todo[t])' /\ WorksOn(todo'[t], p) /\ p \in Parts
         /\ \A q \in Parts \ {p} : /\ ptr'[q] = ptr[q] /\ alive'[q] = alive[q]
                                   /\ mSingleton'[q] = mSingleton[q]
         /\ mSingleton'[p] # 0
<1> DEFINE s == todo[t]
           u == todo'[t]
           n == made[p] + 1
<1>1. /\ s # <<>> /\ part(t) = p /\ p \in Parts /\ s[1].op = "new" /\ Follows(u, s)
      /\ alive' = [alive EXCEPT ![p] = @ \cup {n}] /\ mSingleton' = [mSingleton EXCEPT ![p] = n]
      /\ ptr' = ptr /\ Len(u) >= 1
      /\ u[1].op = "assign" /\ u[1].part = p /\ u[1].object = n
  BY NewMakes DEF GoesOn
<1>6. s \in Seq(Ops) /\ u \in Seq(Ops) /\ Good(s)
  BY DEF TypeInv, Lists
<1>2. /\ Len(s) \in Nat \ {0} /\ Len(u) \in Nat /\ Len(u) = Len(s) - 1 /\ 1 \in 1 .. Len(s)
      /\ \A i \in 1 .. Len(u) :
           /\ i + 1 \in 1 .. Len(s) /\ u[i].op = s[i + 1].op /\ u[i].part = s[i + 1].part
      /\ \A i \in 1 .. Len(s) : i # 1 =>
           i - 1 \in 1 .. Len(u) /\ u[i - 1].op = s[i].op /\ u[i - 1].part = s[i].part
  BY <1>1, <1>6, Indices
<1>7. n \in alive'[p] /\ mSingleton'[p] = n /\ n # 0
  BY <1>1 DEF TypeInv, Objects
<1>8. \A q \in Parts \ {p} : /\ ptr'[q] = ptr[q] /\ alive'[q] = alive[q]
                             /\ mSingleton'[q] = mSingleton[q]
  BY <1>1 DEF TypeInv, Objects
<1>9. Apt(s) /\ Orderly(s)
  OBVIOUS
<1>. HIDE DEF s, n
<1>10. ASSUME NEW i \in 1 .. Len(u)
       PROVE  /\ u[i].op = "delete" => ptr'[u[i].part] \in alive'[u[i].part]
              /\ u[i].op = "new" /\ (\A h \in 1 .. i - 1 : u[h].op = "delete" => u[h].part # u[i].part)
                   => mSingleton'[u[i].part] = 0
              /\ u[i].op = "assign" /\ i = 1 => u[i].object \in alive'[u[i].part]
  <2> DEFINE j == i + 1
             q == s[j].part
  <2>1. j \in 1 .. Len(s) /\ j # 1 /\ 1 < j /\ u[i].op = s[j].op /\ u[i].part = q
    BY <1>2
  <2>2. s[j].op \in {"delete", "new"} => q \in Parts /\ q # p
    <3>1. s[j].op \in {"delete", "new"} => q \in Parts
      BY <2>1, <1>6 DEF Good, Touching
    <3>2. Work(s[1]) /\ Work(s[j]) /\ s[1].part = q => Rank(s[1].op) < Rank(s[j].op)
      BY <2>1, <1>2, <1>9 DEF Orderly
    <3>3. p = s[1].part
      BY DEF s
    <3>. QED BY <3>1, <3>2, <3>3, <1>1 DEF Rank, Work
  <2>3. u[i].op = "assign" /\ i = 1 => u[i].object \in alive'[u[i].part]
    BY <2>1, <1>1, <1>7
  <2>. HIDE DEF u
  <2>4. s[j].op = "delete" => ptr'[q] \in alive'[q]
    <3>1. s[j].op = "delete" => ptr[q] \in alive[q]
      BY <2>1, <1>9 DEF Apt
    <3>. QED BY <3>1, <2>2, <1>8
  <2>5. ASSUME s[j].op = "new", \A h \in 1 .. i - 1 : u[h].op = "delete" => u[h].part # q
        PROVE  mSingleton'[q] = 0
    <3>1. \A h \in 1 .. j - 1 : s[h].op = "delete" => s[h].part # q
      <4>1. ASSUME NEW h \in 1 .. j - 1, s[h].op = "delete", h # 1 PROVE s[h].part # q
        <5>1. h \in 1 .. Len(s) /\ h - 1 \in 1 .. i - 1
          BY <4>1, <2>1, <1>2
        <5>2. u[h - 1].op = "delete" /\ u[h - 1].part = s[h].part
          BY <5>1, <4>1, <1>2
        <5>. QED BY <5>1, <5>2, <2>5
      <4>. QED BY <4>1, <1>1
    <3>2. mSingleton[q] = 0
      BY <3>1, <2>1, <2>5, <1>9 DEF Apt
    <3>. QED BY <3>2, <2>2, <2>5, <1>8
  <2>. QED BY <2>1, <2>3, <2>4, <2>5
<1>11. Apt(todo[t])'
  BY <1>10 DEF Apt
<1>12. WorksOn(u, p)
  <2>1. 1 \in 1 .. Len(u)
    BY <1>1, <1>2
  <2>. QED BY <2>1, <1>1 DEF WorksOn, Work
<1>. QED BY <1>1, <1>7, <1>8, <1>11, <1>12

\* No two threads work on one part.
LEMMA OneWorker ==
  ASSUME EarlyInv, NEW t \in Threads, NEW p \in Parts, WorksOn(todo[t], p), NEW v \in Threads \ {t}
  PROVE  ~WorksOn(todo[v], p)
<1>1. \A w \in Threads : Idle(todo[w]) => ~WorksOn(todo[w], p)
  BY DEF Idle, WorksOn
<1>2. t \in {"main", "console"} /\ (v \notin {"main", "console"} => ~WorksOn(todo[v], p))
  BY <1>1 DEF EarlyInv
<1>3. CASE p = "session"
  BY <1>2, <1>3 DEF EarlyInv
<1>4. CASE p # "session"
  <2>1. WorksOn(todo["main"], p) => ~WorksOn(todo["console"], p)
    BY <1>1, <1>4 DEF EarlyInv, Threads
  <2>. QED BY <2>1, <1>2
<1>. QED BY <1>3, <1>4

\* A step before there is a session leaves the bot before there is one.
LEMMA StillEarly ==
  ASSUME TypeInv, SaveInv, NEW t \in Threads, Step(t), Early'
  PROVE  Early /\ (New(t) => part(t) # "session")
<1>1. ~saved' /\ mSingleton'["session"] = 0
  BY DEF Early
<1>2. /\ ~saved /\ todo[t] # <<>>
      /\ Passes(t) \/ Delete(t) \/ New(t) \/ Assign(t) \/ Start(t)
      /\ Delete(t) => part(t) # "session"
  BY <1>1, UnsavedOps
<1>3. mSingleton \in [Parts -> Nat] /\ made \in [Parts -> Nat] /\ "session" \in Parts
  BY DEF TypeInv, Objects, Parts
<1>4. ASSUME Passes(t) \/ Assign(t) \/ Start(t) PROVE mSingleton' = mSingleton
  BY <1>4, Passing DEF Assign, Start, objects
<1>5. ASSUME Delete(t) PROVE mSingleton'["session"] = mSingleton["session"]
  BY <1>5, <1>2, <1>3 DEF Delete
<1>6. ASSUME New(t)
      PROVE  mSingleton'["session"] = mSingleton["session"] /\ part(t) # "session"
  <2>1. part(t) \in Parts
    BY <1>2, <1>6, ReadingOps DEF TypeInv, New, At, Touching
  <2>2. CASE mSingleton[part(t)] = 0
    <3>1. mSingleton' = [mSingleton EXCEPT ![part(t)] = made[part(t)] + 1]
      BY <1>6, <2>2 DEF New
    <3>2. made[part(t)] + 1 # 0
      BY <2>1, <1>3
    <3>. QED BY <3>1, <3>2, <1>1, <1>3
  <2>3. CASE mSingleton[part(t)] # 0
    <3>1. mSingleton' = mSingleton
      BY <1>6, <2>3 DEF New
    <3>. QED BY <3>1, <2>3, <1>1
  <2>. QED BY <2>2, <2>3
<1>. QED BY <1>1, <1>2, <1>4, <1>5, <1>6 DEF Early

\* The steps that work on a part.
LEMMA EarlyWorks ==
  ASSUME TypeInv, TypeInv', EarlyInv, NEW t \in Threads, todo[t] # <<>>, Others(t), GoesOn(t),
         NEW p \in Parts, p = todo[t][1].part, Work(todo[t][1]), UNCHANGED inside,
         \A q \in Parts \ {p} : /\ ptr'[q] = ptr[q] /\ alive'[q] = alive[q]
                                /\ mSingleton'[q] = mSingleton[q],
         Apt(todo[t])', t = "main" => Constructing(todo'[t]),
         p = "session" \/ WorksOn(todo'[t], p) \/ ptr'[p] \in alive'[p]
  PROVE  EarlyInv'
<1>1. WorksOn(todo[t], p)
  BY ReadingOps DEF TypeInv, WorksOn
<1>2. ASSUME NEW v \in Threads PROVE Apt(todo[v])'
  <2>1. CASE v # t
    <3>1. ~WorksOn(todo[v], p)
      BY <1>1, <2>1, OneWorker
    <3>2. todo'[v] = todo[v] /\ Apt(todo[v])
      BY <2>1 DEF Others, EarlyInv
    <3>. QED BY <3>1, <3>2, AptOther
  <2>. QED BY <2>1
<1>3. inside' \in [{"console", "session"} -> Nat] /\ inside'["session"] = 0
  BY DEF EarlyInv
<1>. QED BY <1>2, <1>3, EarlyGoesOn

LEMMA StepStarts ==
  ASSUME TypeInv, TypeInv', SaveInv, StartInv, NEW t \in Threads, Step(t)
  PROVE  StartInv'
<1> SUFFICES ASSUME Early' PROVE EarlyInv'
  BY DEF StartInv
<1>1. EarlyInv /\ ~saved' /\ mSingleton["session"] = 0 /\ (New(t) => part(t) # "session")
  BY StillEarly DEF StartInv, Early
<1>2. /\ ~saved /\ t \notin faulted /\ todo[t] # <<>>
      /\ Head(todo[t]) = todo[t][1] /\ todo[t][1].part = part(t)
      /\ Passes(t) \/ Delete(t) \/ New(t) \/ Assign(t) \/ Start(t)
      /\ Delete(t) => part(t) # "session"
  BY <1>1, UnsavedOps
<1>3. (GoesOn(t) \/ Faults(t)) /\ Others(t)
  BY <1>1, UnsavedStep DEF Signals
<1>4. /\ todo[t] \in Seq(Ops) /\ todo'[t] \in Seq(Ops) /\ Good(todo[t])
      /\ Len(todo[t]) \in Nat \ {0} /\ 1 \in 1 .. Len(todo[t])
      /\ Apt(todo[t]) /\ Orderly(todo[t]) /\ Constructing(todo["main"])
  BY <1>1, <1>2, ReadingOps DEF TypeInv, Lists, EarlyInv
<1>5. t = "main" => todo[t][1].op \in {"new", "assign", "start"}
  BY <1>4 DEF Constructing
<1>6. ASSUME GoesOn(t), t = "main" PROVE Constructing(todo'[t])
  <2>1. todo[t][1].op = "new" => todo[t][1].part # "session"
    <3>1. Passes(t) => todo[t][1].op # "new"
      BY <1>2, Passing DEF PassNames
    <3>. QED BY <3>1, <1>1, <1>2 DEF Delete, New, Assign, Start, At
  <2>. QED BY <2>1, <1>2, <1>4, <1>6, FollowsConstructing DEF GoesOn
<1>7. CASE Passes(t)
  <2>1. todo[t][1].op \in PassNames /\ UNCHANGED <<ptr, alive, mSingleton, inside>>
    <3>1. ~ConnectFailed(t)
      BY <1>1 DEF ConnectFailed, EarlyInv
    <3>. QED BY <3>1, <1>2, <1>7, Passing DEF objects
  <2>2. t # "main" /\ ~Work(todo[t][1]) /\ todo[t][1].op # "new"
    BY <2>1, <1>5 DEF Work, PassNames
  <2>3. CASE Faults(t)
    <3>1. t \in Threads \ {"main"} /\ faulted \subseteq faulted' /\ Harmless(todo'[t])
          /\ (t = "console" => "console" \in faulted')
      BY <2>2, <2>3, HandlerLists DEF Faults
    <3>. QED BY <3>1, <2>1, <1>1, <1>3, EarlyHarmless
  <2>4. CASE GoesOn(t)
    <3>1. ASSUME NEW v \in Threads PROVE Apt(todo[v])'
      <4>1. CASE v = t
        BY <4>1, <2>1, <2>2, <2>4, <1>2, <1>4, AptRest DEF GoesOn
      <4>2. CASE v # t
        BY <4>2, <2>1, <1>1, <1>3, AptSame DEF Others, EarlyInv
      <4>. QED BY <4>1, <4>2
    <3>2. inside' \in [{"console", "session"} -> Nat] /\ inside'["session"] = 0 /\ inside' = inside
      BY <2>1, <1>1 DEF EarlyInv
    <3>3. \A q \in Parts \ {part(t)} : ptr'[q] = ptr[q] /\ alive'[q] = alive[q]
      BY <2>1
    <3>. QED BY <3>1, <3>2, <3>3, <2>1, <2>2, <2>4, <1>1, <1>2, <1>3, EarlyGoesOn
  <2>. QED BY <2>3, <2>4, <1>3
<1>8. ASSUME Delete(t) \/ New(t) \/ Assign(t) \/ Start(t)
      PROVE  GoesOn(t) /\ part(t) \in Parts
  <2>1. todo[t][1].op \in {"delete", "new", "assign", "start"}
    BY <1>2, <1>8 DEF Delete, New, Assign, Start, At
  <2>2. part(t) \in Parts
    BY <2>1, <1>2, ReadingOps DEF TypeInv, Touching
  <2>3. UNCHANGED faulted
    BY <1>1, <1>8, EarlyApt DEF Delete, New, Assign, Start, Fine
  <2>. QED BY <2>2, <2>3, <1>2, <1>3 DEF Faults
<1>9. CASE Start(t)
  <2>1. todo[t][1].op = "start" /\ UNCHANGED <<ptr, alive, mSingleton>>
    BY <1>2, <1>9 DEF Start, At, objects
  <2>2. t = "main"
    BY <2>1, <1>1, <1>4 DEF EarlyInv
  <2>3. Constructing(todo[t]) /\ ~Work(todo[t][1])
    BY <2>1, <2>2, <1>4 DEF Work
  <2>4. part(t) # "session"
    <3>1. part(t) = "session" => \E j \in 1 .. 1 - 1 : todo[t][j].op = "new"
      BY <2>1, <2>3, <1>2, <1>4 DEF Constructing
    <3>. QED BY <3>1
  <2>5. ASSUME NEW q \in Parts \ {"session"} PROVE ~WorksOn(todo[t], q)
    <3>1. ASSUME NEW j \in 1 .. Len(todo[t]), Work(todo[t][j]) PROVE todo[t][j].part = "session"
      <4>1. 1 < j
        BY <3>1, <2>3, <1>4
      <4>. QED BY <4>1, <3>1, <2>1, <2>3, <1>4 DEF Constructing
    <3>. QED BY <3>1 DEF WorksOn
  <2>6. inside' \in [{"console", "session"} -> Nat] /\ inside'["session"] = 0
    <3>1. inside' = [inside EXCEPT ![part(t)] = ptr[part(t)]] /\ ptr[part(t)] \in Nat
      BY <1>8, <1>9 DEF Start, target, TypeInv, Objects
    <3>. QED BY <3>1, <2>4, <1>1 DEF EarlyInv
  <2>7. ASSUME NEW v \in Threads PROVE Apt(todo[v])'
    <3>1. CASE v = t
      BY <3>1, <2>1, <2>3, <1>2, <1>4, <1>8, <1>9, AptRest DEF GoesOn
    <3>2. CASE v # t
      BY <3>2, <2>1, <1>1, <1>3, AptSame DEF Others, EarlyInv
    <3>. QED BY <3>1, <3>2
  <2>8. \A q \in Parts \ {part(t)} : ptr'[q] = ptr[q] /\ alive'[q] = alive[q]
    BY <2>1
  <2>. QED
    BY <2>1, <2>2, <2>3, <2>5, <2>6, <2>7, <2>8, <1>1, <1>2, <1>3, <1>6, <1>8, <1>9, EarlyGoesOn
<1>10. CASE Delete(t)
  <2>1. todo[t][1].op = "delete" /\ Work(todo[t][1]) /\ todo[t][1].op # "new" /\ t # "main"
    BY <1>2, <1>5, <1>10 DEF Delete, At, Work
  <2> DEFINE p == part(t)
  <2>2. /\ ptr' = ptr /\ mSingleton' = [mSingleton EXCEPT ![p] = 0] /\ UNCHANGED inside
        /\ alive' = [alive EXCEPT ![p] = @ \ {target(t)}]
    BY <1>10 DEF Delete
  <2>3. GoesOn(t) /\ p \in Parts
    BY <1>8, <1>10
  <2>. HIDE DEF p
  <2>4. /\ \A q \in Parts \ {p} : /\ ptr'[q] = ptr[q] /\ alive'[q] = alive[q]
                                  /\ mSingleton'[q] = mSingleton[q]
        /\ mSingleton'[p] = 0
    BY <2>2, <2>3 DEF TypeInv, Objects
  <2>5. p = todo[t][1].part
    BY <1>2 DEF p
  <2>6. Apt(todo[t])'
    BY <2>1, <2>3, <2>4, <2>5, <1>2, <1>4, AptRest DEF GoesOn
  <2>7. WorksOn(todo'[t], p)
    <3>1. PICK j \in 1 + 1 .. Len(todo[t]) : todo[t][j].op = "new" /\ todo[t][j].part = p
      BY <2>1, <2>5, <1>4 DEF Orderly
    <3>2. j \in 1 .. Len(todo[t]) /\ j # 1
      BY <3>1, <1>4
    <3>3. /\ j - 1 \in 1 .. Len(todo'[t])
          /\ todo'[t][j - 1].op = "new" /\ todo'[t][j - 1].part = p
      BY <3>1, <3>2, <2>3, <1>2, <1>4, Indices DEF GoesOn
    <3>. QED BY <3>3 DEF WorksOn, Work
  <2>. QED BY <2>1, <2>2, <2>3, <2>4, <2>5, <2>6, <2>7, <1>1, <1>2, <1>3, EarlyWorks
<1>11. CASE New(t)
  <2>1. todo[t][1].op = "new" /\ Work(todo[t][1]) /\ UNCHANGED inside
    BY <1>2, <1>11 DEF New, At, Work
  <2>2. mSingleton[part(t)] = 0
    BY <1>1, <1>11, EarlyApt
  <2>3. GoesOn(t) /\ part(t) \in Parts
    BY <1>8, <1>11
  <2>4. /\ Apt(todo[t])' /\ WorksOn(todo'[t], part(t))
        /\ \A q \in Parts \ {part(t)} : /\ ptr'[q] = ptr[q] /\ alive'[q] = alive[q]
                                        /\ mSingleton'[q] = mSingleton[q]
    BY <2>2, <1>2, <1>4, <1>11, AptNew
  <2>5. t = "main" => Constructing(todo'[t])
    BY <2>3, <1>6
  <2>. QED BY <2>1, <2>3, <2>4, <2>5, <1>1, <1>2, <1>3, EarlyWorks
<1>12. CASE Assign(t)
  <2>1. todo[t][1].op = "assign" /\ Work(todo[t][1]) /\ todo[t][1].op \notin {"new", "delete"}
    BY <1>2, <1>12 DEF Assign, At, Work
  <2> DEFINE p == part(t)
  <2>2. /\ ptr' = [ptr EXCEPT ![p] = todo[t][1].object]
        /\ mSingleton' = mSingleton /\ alive' = alive /\ UNCHANGED inside
    BY <1>2, <1>12 DEF Assign
  <2>3. GoesOn(t) /\ p \in Parts
    BY <1>8, <1>12
  <2>. HIDE DEF p
  <2>4. \A q \in Parts \ {p} : /\ ptr'[q] = ptr[q] /\ alive'[q] = alive[q]
                               /\ mSingleton'[q] = mSingleton[q]
    BY <2>2, <2>3 DEF TypeInv, Objects
  <2>5. p = todo[t][1].part
    BY <1>2 DEF p
  <2>6. Apt(todo[t])'
    BY <2>1, <2>3, <2>4, <2>5, <1>2, <1>4, AptRest DEF GoesOn
  <2>7. ptr'[p] \in alive'[p]
    <3>1. todo[t][1].object \in alive[p]
      BY <2>1, <2>5, <1>4 DEF Apt
    <3>. QED BY <3>1, <2>2, <2>3 DEF TypeInv, Objects
  <2>8. t = "main" => Constructing(todo'[t])
    BY <2>3, <1>6
  <2>. QED BY <2>1, <2>2, <2>3, <2>4, <2>5, <2>6, <2>7, <2>8, <1>1, <1>2, <1>3, EarlyWorks
<1>. QED BY <1>2, <1>7, <1>9, <1>10, <1>11, <1>12

-----------------------------------------------------------------------------
(* The uptime, whatever happens                                            *)

UptimeInv == SaveInv /\ StartInv

\* Nothing the invariant reads has changed.
LEMMA UptimeQuiet ==
  ASSUME UptimeInv, Flags, UNCHANGED <<todo, faulted, saved, inside, ptr, alive, mSingleton>>
  PROVE  UptimeInv'
<1>1. SaveInv'
  BY DEF UptimeInv, SaveInv, Flags
<1>2. ASSUME Early' PROVE EarlyInv'
  <2>1. EarlyInv
    BY <1>2 DEF UptimeInv, StartInv, Early
  <2>2. \A t \in Threads : Apt(todo[t])'
    BY <2>1, AptSame DEF EarlyInv
  <2>. QED BY <2>1, <2>2 DEF EarlyInv
<1>. QED BY <1>1, <1>2 DEF UptimeInv, StartInv

\* A thread that had nothing to do begins a list that saves and works on nothing.
LEMMA UptimeBegins ==
  ASSUME TypeInv, UptimeInv, NEW t \in Threads \ {"main"}, todo[t] = <<>>, Others(t), Flags,
         ~saved, UNCHANGED <<saved, inside, ptr, alive, mSingleton>>,
         Saving(todo'[t]), Harmless(todo'[t]), UNCHANGED faulted \/ Faults(t)
  PROVE  UptimeInv'
<1>1. t \notin faulted
  BY HandlerLists DEF UptimeInv, SaveInv
<1>2. SaveInv'
  <2>1. faulted \subseteq Threads /\ t \in Threads
    BY DEF TypeInv, Rest
  <2>. QED BY <1>1, <2>1, SavingList DEF UptimeInv, Faults
<1>3. ASSUME Early' PROVE EarlyInv'
  <2>1. EarlyInv
    BY <1>3 DEF UptimeInv, StartInv, Early
  <2>2. Idle(todo[t])
    BY DEF Idle
  <2>3. faulted \subseteq faulted'
    BY DEF Faults
  <2>. QED BY <2>1, <2>2, <2>3, EarlyHarmless
<1>. QED BY <1>2, <1>3 DEF UptimeInv, StartInv

LEMMA UptimeFault ==
  ASSUME TypeInv, UptimeInv, NEW t \in Threads \ {"main"}, todo[t] = <<>>, Fault(t), ~saved,
         UNCHANGED <<saved, m_crash, m_running, hooked, inside, ptr, alive, mSingleton>>
  PROVE  UptimeInv'
<1>1. t \notin faulted
  BY HandlerLists DEF UptimeInv, SaveInv
<1>2. Faults(t) /\ Others(t) /\ Flags
  BY <1>1, FaultSegfaults DEF Flags
<1>3. Segfault = Handler
  BY FaultHandled DEF UptimeInv, SaveInv, Threads
<1>. QED BY <1>2, <1>3, HandlerLists, UptimeBegins DEF Faults

\* The console begins a reload before there is a session.
LEMMA EarlyReload ==
  ASSUME TypeInv', EarlyInv, NEW nev \in Reloads, todo["console"] = <<>>, inside["console"] # 0,
         "console" \notin faulted, Others("console"),
         todo'["console"] = Reload(nev) \o Answer("console") \o <<Do("loop", "console")>>,
         UNCHANGED <<ptr, alive, mSingleton, inside, faulted>>
  PROVE  EarlyInv'
<1> DEFINE s == Reload(nev) \o Answer("console") \o <<Do("loop", "console")>>
<1>0. "main" \in Threads /\ "console" \in Threads /\ "main" # "console"
  BY DEF Threads
<1>1. /\ Orderly(s) /\ ~WorksOn(s, "session")
      /\ \A i \in 1 .. Len(s) :
           /\ s[i].op # "start"
           /\ s[i].op = "new" => \E h \in 1 .. i - 1 : s[h].op = "delete" /\ s[h].part = s[i].part
           /\ s[i].op = "assign" => i # 1
  BY ReloadList
<1>2. todo'["console"] = s /\ Good(s) /\ \A v \in Threads \ {"console"} : todo'[v] = todo[v]
  BY <1>0 DEF TypeInv, Lists, Others
<1>. HIDE DEF s
<1>3. \A p \in Parts \ {"session"} : ~WorksOn(todo["main"], p) /\ ptr[p] \in alive[p]
  <2>1. \A p : ~WorksOn(<<>>, p)
    BY DEF WorksOn
  <2>. QED BY <2>1 DEF EarlyInv
<1>4. Apt(todo["console"])'
  <2>1. ASSUME NEW i \in 1 .. Len(s), s[i].op = "delete" PROVE ptr[s[i].part] \in alive[s[i].part]
    <3>1. s[i].part \in Parts
      BY <2>1, <1>2 DEF Good, Touching
    <3>2. s[i].part # "session"
      BY <2>1, <1>1 DEF WorksOn, Work
    <3>. QED BY <3>1, <3>2, <1>3
  <2>. QED BY <2>1, <1>1, <1>2 DEF Apt
<1>5. ASSUME NEW v \in Threads PROVE Apt(todo[v])'
  <2>1. CASE v # "console"
    <3>1. todo'[v] = todo[v] /\ Apt(todo[v])
      BY <2>1, <1>2 DEF EarlyInv
    <3>. QED BY <3>1, AptSame
  <2>. QED BY <2>1, <1>4
<1>6. \A v \in Threads : Orderly(todo'[v])
  BY <1>1, <1>2 DEF EarlyInv
<1>7. \A v \in Threads \ {"main"} : \A i \in 1 .. Len(todo'[v]) : todo'[v][i].op # "start"
  BY <1>1, <1>2 DEF EarlyInv
<1>8. \A v \in Threads \ {"main", "console"} : Idle(todo'[v])
  BY <1>2 DEF EarlyInv
<1>9. /\ Constructing(todo'["main"]) /\ ~WorksOn(todo'["console"], "session")
      /\ \A p \in Parts \ {"session"} : ~WorksOn(todo'["main"], p) /\ ptr'[p] \in alive'[p]
  <2>1. todo'["main"] = todo["main"]
    BY <1>0, <1>2
  <2>2. Constructing(todo["main"])
    BY DEF EarlyInv
  <2>. QED BY <2>1, <2>2, <1>1, <1>2, <1>3
<1>10. inside' \in [{"console", "session"} -> Nat] /\ inside'["session"] = 0
  BY DEF EarlyInv
<1>. QED BY <1>5, <1>6, <1>7, <1>8, <1>9, <1>10 DEF EarlyInv

LEMMA CommandSaves ==
  ASSUME TypeInv, TypeInv', UptimeInv, NEW t \in {"console", "session"}, Command(t), ~saved
  PROVE  UptimeInv'
<1>1. /\ todo[t] = <<>> /\ inside[t] # 0
      /\ UNCHANGED <<saved, inside, ptr, alive, mSingleton, faulted>> /\ Flags
  BY DEF Command, Free, Flags, objects
<1>2. t \in Threads \ {"main"} /\ todo \in [Threads -> Seq(Ops)]
  BY DEF Threads, TypeInv, Lists
<1>3. CASE todo' = [todo EXCEPT ![t] = Kikapcs \o <<Do("loop", t)>>]
  <2>1. todo'[t] = Kikapcs \o <<Do("loop", t)>> /\ Others(t)
    BY <1>2, <1>3 DEF Others
  <2>2. Saving(todo'[t]) /\ Harmless(todo'[t])
    BY <2>1, KikapcsList
  <2>. QED BY <2>1, <2>2, <1>1, <1>2, UptimeBegins
<1>5. ASSUME NEW cmd \in Lines, NEW s \in ConsoleLine(cmd),
             todo' = [todo EXCEPT ![t] = s \o <<Do("loop", t)>>]
      PROVE  UptimeInv'
  <2>1. todo'[t] = s \o <<Do("loop", t)>> /\ Others(t)
    BY <1>2, <1>5 DEF Others
  <2>2. Saving(todo'[t]) /\ Harmless(todo'[t])
    BY <2>1, LineList
  <2>. QED BY <2>1, <2>2, <1>1, <1>2, UptimeBegins
<1>4. ASSUME NEW nev \in Reloads,
             todo' = [todo EXCEPT ![t] = Reload(nev) \o Answer(t) \o <<Do("loop", t)>>]
      PROVE  UptimeInv'
  <2>1. todo'[t] = Reload(nev) \o Answer(t) \o <<Do("loop", t)>> /\ Others(t)
    BY <1>2, <1>4 DEF Others
  <2>2. t \notin faulted
    BY <1>1, HandlerLists DEF UptimeInv, SaveInv
  <2>3. SaveInv'
    <3>1. faulted \subseteq Threads /\ t \in Threads
      BY <1>2 DEF TypeInv, Rest
    <3>2. Saving(todo'[t])
      BY <2>1, ReloadList
    <3>. QED BY <3>1, <3>2, <2>1, <2>2, <1>1, SavingList DEF UptimeInv
  <2>4. ASSUME Early' PROVE EarlyInv'
    <3>1. EarlyInv
      BY <2>4, <1>1 DEF UptimeInv, StartInv, Early
    <3>2. t = "console"
      BY <3>1, <1>1 DEF EarlyInv
    <3>. QED BY <3>1, <3>2, <2>1, <2>2, <1>1, EarlyReload
  <2>. QED BY <2>3, <2>4 DEF UptimeInv, StartInv
<1>. QED BY <1>3, <1>4, <1>5 DEF Command

LEMMA NextSaves == TypeInv /\ TypeInv' /\ UptimeInv /\ [Next]_vars => UptimeInv'
<1> SUFFICES ASSUME TypeInv, TypeInv', UptimeInv, [Next]_vars PROVE UptimeInv'
  OBVIOUS
<1>1. ASSUME NEW t \in Threads, Step(t) PROVE UptimeInv'
  BY <1>1, StepSaves, StepStarts DEF UptimeInv
<1>2. CASE saved'
  BY <1>2 DEF UptimeInv, SaveInv, StartInv, Early
<1>3. ASSUME MainWakes, ~saved PROVE UptimeInv'
  BY <1>3 DEF MainWakes, UptimeInv, SaveInv
<1>4. ASSUME NEW t \in {"console", "session"}, Command(t), ~saved PROVE UptimeInv'
  BY <1>4, CommandSaves
<1>10. ASSUME NEW t \in {"console", "session"}, EmptyText(t) PROVE UptimeInv'
  BY <1>10, UptimeQuiet DEF EmptyText, Flags, objects
<1>5. ASSUME Round, ~saved PROVE UptimeInv'
  <2>1. /\ todo["session"] = <<>> /\ "session" \in Threads \ {"main"}
        /\ UNCHANGED <<saved, m_crash, m_running, hooked, inside, ptr, alive, mSingleton>>
        /\ Fault("session") \/ UNCHANGED <<todo, process, faulted>>
    BY <1>5 DEF Round, Free, objects, Threads
  <2>. QED BY <2>1, <1>5, UptimeFault, UptimeQuiet DEF Flags
<1>6. ASSUME Signal, ~saved PROVE UptimeInv'
  <2>1. /\ todo["signal"] = <<>> /\ "signal" \in Threads \ {"main"} /\ Flags
        /\ UNCHANGED <<saved, inside, ptr, alive, mSingleton, faulted>>
        /\ todo' = [todo EXCEPT !["signal"] = OnSignal] \/ UNCHANGED todo
    BY <1>6 DEF Signal, Free, Flags, objects, Threads
  <2>2. CASE UNCHANGED todo
    BY <2>1, <2>2, UptimeQuiet
  <2>3. CASE todo' = [todo EXCEPT !["signal"] = OnSignal]
    <3>1. todo'["signal"] = OnSignal /\ Others("signal")
      BY <2>1, <2>3 DEF TypeInv, Lists, Others
    <3>2. Saving(todo'["signal"]) /\ Harmless(todo'["signal"])
      BY <3>1, HandlerLists
    <3>. QED BY <3>1, <3>2, <2>1, <1>6, UptimeBegins
  <2>. QED BY <2>1, <2>2, <2>3
<1>7. ASSUME NEW p \in Infos, NEW o \in polling[p], ~saved,
             PollerEnds(p, o) \/ PollerAstray(p, o) \/ PollerReports(p, o)
      PROVE  UptimeInv'
  <2>1. /\ UNCHANGED <<saved, m_crash, m_running, hooked, inside, ptr, alive, mSingleton>>
        /\ \/ UNCHANGED <<todo, process, faulted>>
           \/ todo["poller"] = <<>> /\ Fault("poller")
    BY <1>7 DEF PollerEnds, PollerAstray, PollerReports, Free, objects
  <2>2. "poller" \in Threads \ {"main"}
    BY DEF Threads
  <2>. QED BY <2>1, <2>2, <1>7, UptimeFault, UptimeQuiet DEF Flags
<1>8. CASE UNCHANGED vars
  BY <1>8, UptimeQuiet DEF vars, objects, Flags
<1>9. ASSUME MainWakes \/ (\E t \in {"console", "session"} : Command(t)) \/ Round \/ Signal
             \/ \E p \in Infos : \E o \in polling[p] :
                  PollerEnds(p, o) \/ PollerAstray(p, o) \/ PollerReports(p, o)
      PROVE  saved' = saved
  BY <1>9 DEF MainWakes, Command, Round, Signal, PollerEnds, PollerAstray, PollerReports
<1>. QED BY <1>1, <1>2, <1>3, <1>4, <1>5, <1>6, <1>7, <1>8, <1>9, <1>10 DEF Next

LEMMA InitSaves == Init => UptimeInv
<1> SUFFICES ASSUME Init PROVE UptimeInv
  OBVIOUS
<1>1. todo["main"] = Vezerlo /\ \A t \in Threads \ {"main"} : todo[t] = <<>> \/ todo[t] = Run
  BY DEF Init, Threads
<1>0. Saving(Run) /\ Orderly(Run) /\ Harmless(Run)
  BY RunOnline, OnlineHarmless DEF Orderly, Harmless, Work
<1>2. /\ ~saved /\ m_crash /\ m_running /\ hooked /\ process = "running" /\ faulted = {}
      /\ inside = [t \in {"console", "session"} |-> 0] /\ \A p \in Parts : mSingleton[p] = 0
  BY DEF Init
<1>3. /\ Saving(Vezerlo) /\ Orderly(Vezerlo) /\ Constructing(Vezerlo)
      /\ \A p \in Parts \ {"session"} : WorksOn(Vezerlo, p)
      /\ \A i \in 1 .. Len(Vezerlo) :
           Vezerlo[i].op # "delete" /\ (Vezerlo[i].op = "assign" => i # 1)
  BY VezerloList
<1>4. Saving(<<>>) /\ Orderly(<<>>) /\ Idle(<<>>) /\ \A i \in 1 .. Len(<<>>) : FALSE
  BY DEF Saving, Orderly, Idle
<1>5. SaveInv
  BY <1>0, <1>1, <1>2, <1>3, <1>4 DEF SaveInv
<1>6. Good(Vezerlo) /\ "main" \in Threads /\ "console" \in Threads /\ "main" # "console"
  BY FreshMain DEF Fresh, Threads
<1>7. ASSUME NEW t \in Threads PROVE Apt(todo[t]) /\ Orderly(todo[t])
  <2>1. CASE t = "main"
    <3>1. \A i \in 1 .. Len(Vezerlo) : Vezerlo[i].op = "new" => mSingleton[Vezerlo[i].part] = 0
      BY <1>2, <1>6 DEF Good, Touching
    <3>. QED BY <2>1, <3>1, <1>1, <1>3 DEF Apt
  <2>2. CASE t # "main"
    BY <2>2, <1>0, <1>1, <1>4 DEF Apt, Harmless, Work
  <2>. QED BY <2>1, <2>2
<1>8. EarlyInv
  <2>1. \A t \in Threads \ {"main"} : Harmless(todo[t]) /\ Idle(todo[t])
    BY <1>0, <1>1, <1>4 DEF Harmless, Idle
  <2>2. ~WorksOn(todo["console"], "session")
    BY <2>1, <1>6 DEF WorksOn, Idle
  <2>3. \A t \in Threads \ {"main"} : \A i \in 1 .. Len(todo[t]) : todo[t][i].op # "start"
    BY <2>1 DEF Harmless
  <2>4. /\ inside \in [{"console", "session"} -> Nat] /\ inside["session"] = 0
        /\ inside["console"] = 0 /\ Idle(todo["console"])
    BY <2>1, <1>2, <1>6
  <2>. QED BY <2>1, <2>2, <2>3, <2>4, <1>1, <1>2, <1>3, <1>6, <1>7 DEF EarlyInv
<1>. QED BY <1>5, <1>8 DEF UptimeInv, StartInv

\* However the bot ends - a command, a signal, a crash in any thread, several of
\* them at once, even during start-up - its uptime was saved first, unless the
\* crash handler itself crashes (_OnSignal, segfault_handler, Vezerlo::Leallas).
\* Each list saves before it clears m_crash or ends the process; the one way
\* round it, SIGABRT while there is no session and _OnSignal does nothing, needs
\* a double delete or a second singleton, and before there is a session main and
\* console never work on one part.
THEOREM UptimeAlwaysSaved == Spec => []UptimeSaved
<1>1. UptimeInv => UptimeSaved
  BY DEF UptimeInv, SaveInv, UptimeSaved
<1>2. Spec => []TypeInv
  BY InitKeepsTypes, NextKeepsTypes, PTL DEF Spec
<1>3. Spec => []UptimeInv
  BY <1>2, InitSaves, NextSaves, PTL DEF Spec
<1>. QED BY <1>1, <1>3, PTL

-----------------------------------------------------------------------------
(* The singletons                                                          *)

\* Somebody is between the deletion and the assignment of p, and p has no object,
\* or the new one when the assignment comes next; or nobody is, and p has the one
\* object that is held.
AssignsNext(s, p) == Len(s) >= 1 /\ s[1].op = "assign" /\ s[1].part = p
Changing(s, p) ==
  /\ AssignsNext(s, p) =>
       /\ mSingleton[p] = s[1].object /\ alive[p] = {s[1].object} /\ ptr[p] # s[1].object
  /\ ~AssignsNext(s, p) => mSingleton[p] = 0 /\ alive[p] = {}
Current(p) == ptr[p] = mSingleton[p] /\ alive[p] = {ptr[p]}
Single(p) ==
  \/ Current(p) /\ \A t \in Threads : ~Halfway(todo[t], p)
  \/ \E t \in Threads : /\ Halfway(todo[t], p) /\ Changing(todo[t], p)
                        /\ \A v \in Threads \ {t} : ~Halfway(todo[v], p)

\* Only a list that works on nothing is given up half-way, at abort().
Orders ==
  \A t \in Threads :
    /\ Orderly(todo[t])
    /\ \A i \in 1 .. Len(todo[t]) : todo[t][i].op = "abort" => Idle(todo[t])
Singles == Orders /\ \A p \in Parts : Single(p)
SingleInv == undefined = "no" /\ m_running => Singles

LEMMA HarmlessShape ==
  ASSUME NEW s, Harmless(s)
  PROVE  Orderly(s) /\ Idle(s) /\ \A p : ~Halfway(s, p)
BY DEF Harmless, Orderly, Idle, Halfway, Work

LEMMA IdleShape ==
  ASSUME NEW s, Idle(s)
  PROVE  \A p : ~Halfway(s, p)
BY DEF Idle, Halfway, Work

\* A thread that is half-way with nothing begins a list that is not either.
LEMMA SinglesBegin ==
  ASSUME Singles, NEW t \in Threads, Idle(todo[t]), Others(t), UNCHANGED <<ptr, alive, mSingleton>>,
         Orderly(todo'[t]), \A p : ~Halfway(todo'[t], p),
         \A i \in 1 .. Len(todo'[t]) : todo'[t][i].op = "abort" => Idle(todo'[t])
  PROVE  Singles'
<1>1. \A p : ~Halfway(todo[t], p)
  BY IdleShape
<1>2. \A v \in Threads : v # t => todo'[v] = todo[v]
  BY DEF Others
<1>3. Orders'
  BY <1>2 DEF Orders, Singles
<1>4. ASSUME NEW p \in Parts PROVE Single(p)'
  <2>1. CASE Current(p) /\ \A v \in Threads : ~Halfway(todo[v], p)
    <3>1. \A v \in Threads : ~Halfway(todo'[v], p)
      BY <2>1, <1>2
    <3>2. ptr'[p] = mSingleton'[p] /\ alive'[p] = {ptr'[p]}
      BY <2>1 DEF Current
    <3>. QED BY <3>1, <3>2 DEF Single, Current
  <2>2. ASSUME NEW w \in Threads, Halfway(todo[w], p), Changing(todo[w], p),
               \A v \in Threads \ {w} : ~Halfway(todo[v], p)
        PROVE  Single(p)'
    <3>1. w # t /\ todo'[w] = todo[w]
      BY <2>2, <1>1, <1>2
    <3>2. Changing(todo[w], p)'
      BY <3>1, <2>2 DEF Changing
    <3>3. \A v \in Threads \ {w} : ~Halfway(todo'[v], p)
      BY <2>2, <1>2
    <3>. QED BY <3>1, <3>2, <3>3, <2>2 DEF Single
  <2>. QED BY <2>1, <2>2 DEF Singles, Single
<1>. QED BY <1>3, <1>4 DEF Singles

LEMMA OrdersGoOn ==
  ASSUME TypeInv, TypeInv', Orders, NEW t \in Threads, todo[t] # <<>>, Others(t), GoesOn(t)
  PROVE  Orders'
<1>1. todo[t] \in Seq(Ops) /\ todo'[t] \in Seq(Ops) /\ Follows(todo'[t], todo[t])
  BY DEF TypeInv, Lists, GoesOn
<1>2. Orderly(todo'[t])
  BY <1>1, FollowsOrderly DEF Orders
<1>3. ASSUME NEW i \in 1 .. Len(todo'[t]), todo'[t][i].op = "abort" PROVE Idle(todo'[t])
  <2>1. i + 1 \in 1 .. Len(todo[t]) /\ todo[t][i + 1].op = "abort"
    BY <1>1, <1>3, Indices
  <2>2. Idle(todo[t])
    BY <2>1 DEF Orders
  <2>. QED BY <2>2, <1>1, FollowsWorks
<1>. QED BY <1>2, <1>3 DEF Orders, Others

\* A step that does not work on p.
LEMMA SingleElsewhere ==
  ASSUME TypeInv, TypeInv', Singles, NEW t \in Threads, todo[t] # <<>>, Others(t), GoesOn(t),
         NEW p \in Parts, ~(Work(todo[t][1]) /\ todo[t][1].part = p),
         ptr'[p] = ptr[p], alive'[p] = alive[p], mSingleton'[p] = mSingleton[p]
  PROVE  Single(p)'
<1>1. /\ todo[t] \in Seq(Ops) /\ todo'[t] \in Seq(Ops) /\ Follows(todo'[t], todo[t]) /\ Good(todo[t])
      /\ Orderly(todo[t])
  BY DEF TypeInv, Lists, GoesOn, Singles, Orders
<1>2. \A v \in Threads : v # t => todo'[v] = todo[v]
  BY DEF Others
<1>3. \A v \in Threads : Halfway(todo'[v], p) <=> Halfway(todo[v], p)
  <2>1. Halfway(todo'[t], p) <=> Halfway(todo[t], p)
    BY <1>1, FollowsHalfway
  <2>. QED BY <2>1, <1>2
<1>4. ~AssignsNext(todo[t], p)
  BY DEF AssignsNext, Work
<1>5. ~AssignsNext(todo'[t], p)
  <2>1. ASSUME AssignsNext(todo'[t], p) PROVE FALSE
    <3>1. 1 \in 1 .. Len(todo'[t]) /\ 1 + 1 = 2
      BY <2>1, <1>1, LenProperties DEF AssignsNext
    <3>2. 2 \in 2 .. Len(todo[t]) /\ 2 - 1 = 1 /\ todo[t][2].op = "assign" /\ todo[t][2].part = p
      BY <2>1, <3>1, <1>1, Indices DEF AssignsNext
    <3>3. todo[t][1].op = "new" /\ todo[t][1].part = p
      BY <3>2, <1>1 DEF Orderly
    <3>. QED BY <3>3 DEF Work
  <2>. QED BY <2>1
<1>6. CASE Current(p) /\ \A v \in Threads : ~Halfway(todo[v], p)
  <2>1. ptr'[p] = mSingleton'[p] /\ alive'[p] = {ptr'[p]}
    BY <1>6 DEF Current
  <2>. QED BY <2>1, <1>3, <1>6 DEF Single, Current
<1>7. ASSUME NEW w \in Threads, Halfway(todo[w], p), Changing(todo[w], p),
             \A v \in Threads \ {w} : ~Halfway(todo[v], p)
      PROVE  Single(p)'
  <2>1. Changing(todo[w], p)'
    <3>1. CASE w = t
      BY <3>1, <1>4, <1>5, <1>7 DEF Changing
    <3>2. CASE w # t
      BY <3>2, <1>2, <1>7 DEF Changing
    <3>. QED BY <3>1, <3>2
  <2>2. Halfway(todo'[w], p) /\ \A v \in Threads \ {w} : ~Halfway(todo'[v], p)
    BY <1>3, <1>7
  <2>. QED BY <2>1, <2>2 DEF Single
<1>. QED BY <1>6, <1>7 DEF Singles, Single

\* The list of a thread, and what a step takes from it.
LEMMA StepHead ==
  ASSUME TypeInv, NEW t \in Threads, Step(t)
  PROVE  /\ todo[t] # <<>> /\ Head(todo[t]) = todo[t][1] /\ todo[t][1].part = part(t)
         /\ todo[t] \in Seq(Ops) /\ Good(todo[t]) /\ Len(todo[t]) \in Nat /\ 1 \in 1 .. Len(todo[t])
         /\ todo[t][1].op \in Touching => part(t) \in Parts
<1>0. \/ Uptime(t) \/ Save(t) \/ Clear(t) \/ Halt(t) \/ Unhook(t) \/ CallAbort(t) \/ End(t)
      \/ Passes(t) \/ Delete(t) \/ New(t) \/ Assign(t) \/ Start(t)
  BY DEF Step, Passes
<1>2. Passes(t) => todo[t] # <<>>
  BY DEF Passes, At, Stop, Visit, Empty, Say, Bye, Loop, ConnectMade, ConnectFailed, Disconnect
<1>1. todo[t] # <<>>
  BY <1>0, <1>2 DEF At, Uptime, Save, Clear, Halt, Delete, New, Assign, Start, Unhook, CallAbort, End
<1>. QED BY <1>1, ReadingOps DEF TypeInv, Lists, part

\* What is assigned next was made by the operation before.
LEMMA NotAssignedNext ==
  ASSUME NEW s \in Seq(Ops), NEW u \in Seq(Ops), s # <<>>, Follows(u, s), Orderly(s),
         s[1].op # "new", NEW p
  PROVE  ~AssignsNext(u, p)
<1> SUFFICES ASSUME AssignsNext(u, p) PROVE FALSE
  OBVIOUS
<1>1. 1 \in 1 .. Len(u)
  BY LenProperties DEF AssignsNext
<1>2. 1 + 1 \in 1 .. Len(s) /\ s[1 + 1].op = "assign"
  BY <1>1, Indices DEF AssignsNext
<1>3. 2 \in 2 .. Len(s) /\ 2 - 1 = 1 /\ s[2].op = "assign"
  BY <1>2, LenProperties
<1>4. s[1].op = "new"
  BY <1>3 DEF Orderly
<1>. QED BY <1>4

LEMMA SingleDelete ==
  ASSUME TypeInv, TypeInv', Singles, NEW t \in Threads, Step(t),
         NEW p \in Parts, p = part(t), Delete(t), Usable(t), Fine(t)
  PROVE  Single(p)'
<1>1. /\ todo[t] # <<>> /\ todo[t][1].op = "delete" /\ todo[t][1].part = p
      /\ todo[t] \in Seq(Ops) /\ todo'[t] \in Seq(Ops) /\ Orderly(todo[t])
  BY StepHead DEF Delete, At, Touching, TypeInv, Lists, Singles, Orders
<1>2. Follows(todo'[t], todo[t]) /\ \A v \in Threads : v # t => todo'[v] = todo[v]
  BY <1>1, ProceedFollows DEF Fine, Others
<1>3. /\ ptr' = ptr /\ ptr[p] \in alive[p] /\ mSingleton' = [mSingleton EXCEPT ![p] = 0]
      /\ alive' = [alive EXCEPT ![p] = @ \ {ptr[p]}]
  BY DEF Delete, Usable, target
<1>4. Current(p) /\ \A v \in Threads : ~Halfway(todo[v], p)
  <2>1. ASSUME NEW w \in Threads, Changing(todo[w], p) PROVE FALSE
    BY <2>1, <1>3 DEF Changing
  <2>2. Single(p)
    BY <1>1 DEF Singles
  <2>. QED BY <2>1, <2>2 DEF Single
<1>5. mSingleton'[p] = 0 /\ alive'[p] = {}
  BY <1>1, <1>3, <1>4 DEF Current, TypeInv, Objects
<1>6. Halfway(todo'[t], p) /\ ~AssignsNext(todo'[t], p)
  BY <1>1, <1>2, FollowsHalfway, NotAssignedNext
<1>7. \A v \in Threads \ {t} : ~Halfway(todo'[v], p)
  BY <1>2, <1>4
<1>8. Single(p)'
  BY <1>5, <1>6, <1>7 DEF Single, Changing
<1>. QED BY <1>8

\* Whoever is half-way with p is the only one.
LEMMA OneHalfway ==
  ASSUME Singles, NEW t \in Threads, NEW p \in Parts, Halfway(todo[t], p)
  PROVE  Changing(todo[t], p) /\ \A v \in Threads \ {t} : ~Halfway(todo[v], p)
<1>1. Single(p)
  BY DEF Singles
<1>. QED BY <1>1 DEF Single

LEMMA SingleNew ==
  ASSUME TypeInv, TypeInv', Singles, NEW t \in Threads, Step(t),
         NEW p \in Parts, p = part(t), New(t)
  PROVE  mSingleton[p] = 0 /\ Single(p)'
<1> DEFINE n == made[p] + 1
<1>1. /\ todo[t] # <<>> /\ todo[t][1].op = "new" /\ todo[t][1].part = p
      /\ todo[t] \in Seq(Ops) /\ 1 \in 1 .. Len(todo[t])
  BY StepHead DEF New, At, Touching
<1>2. Halfway(todo[t], p)
  <2>1. \A h \in 1 .. 1 - 1 : todo[t][h].op = "delete" => todo[t][h].part # p
    OBVIOUS
  <2>. QED BY <2>1, <1>1 DEF Halfway
<1>3. Changing(todo[t], p) /\ \A v \in Threads \ {t} : ~Halfway(todo[v], p)
  BY <1>1, <1>2, OneHalfway
<1>4. mSingleton[p] = 0 /\ alive[p] = {}
  BY <1>1, <1>3 DEF Changing, AssignsNext
<1>5. /\ Others(t) /\ ptr' = ptr
      /\ alive' = [alive EXCEPT ![p] = @ \cup {n}] /\ mSingleton' = [mSingleton EXCEPT ![p] = n]
      /\ Len(todo'[t]) >= 1 /\ todo'[t][1].op = "assign" /\ todo'[t][1].part = p
      /\ todo'[t][1].object = n
  BY <1>4, NewMakes
<1>6. mSingleton'[p] = n /\ alive'[p] = {n} /\ ptr'[p] # n
  BY <1>1, <1>4, <1>5 DEF TypeInv, Objects
<1>. HIDE DEF n
<1>7. Halfway(todo'[t], p)
  <2>1. 1 \in 1 .. Len(todo'[t])
    <3>1. todo'[t] \in Seq(Ops)
      BY DEF TypeInv, Lists
    <3>. QED BY <3>1, <1>5, LenProperties
  <2>2. \A h \in 1 .. 1 - 1 : todo'[t][h].op = "delete" => todo'[t][h].part # p
    OBVIOUS
  <2>. QED BY <2>1, <2>2, <1>5 DEF Halfway
<1>8. Changing(todo[t], p)'
  BY <1>5, <1>6 DEF Changing, AssignsNext
<1>9. \A v \in Threads \ {t} : ~Halfway(todo'[v], p)
  BY <1>3, <1>5 DEF Others
<1>10. Single(p)'
  BY <1>7, <1>8, <1>9 DEF Single
<1>. QED BY <1>4, <1>10

LEMMA SingleAssign ==
  ASSUME TypeInv, TypeInv', Singles, NEW t \in Threads, Step(t),
         NEW p \in Parts, p = part(t), Assign(t)
  PROVE  Single(p)'
<1>1. /\ todo[t] # <<>> /\ todo[t][1].op = "assign" /\ todo[t][1].part = p
      /\ todo[t] \in Seq(Ops) /\ todo'[t] \in Seq(Ops) /\ 1 \in 1 .. Len(todo[t])
      /\ Len(todo[t]) >= 1 /\ Orderly(todo[t])
  BY StepHead DEF Assign, At, Touching, TypeInv, Lists, Singles, Orders
<1>2. Follows(todo'[t], todo[t]) /\ \A v \in Threads : v # t => todo'[v] = todo[v]
  BY <1>1, ProceedFollows DEF Assign, Fine, Others
<1>3. /\ ptr' = [ptr EXCEPT ![p] = todo[t][1].object] /\ mSingleton' = mSingleton /\ alive' = alive
  BY StepHead DEF Assign
<1>4. Halfway(todo[t], p) /\ ~Halfway(todo'[t], p)
  BY <1>1, <1>2, FollowsHalfway
<1>5. Changing(todo[t], p) /\ \A v \in Threads \ {t} : ~Halfway(todo[v], p)
  BY <1>1, <1>4, OneHalfway
<1>6. mSingleton[p] = todo[t][1].object /\ alive[p] = {todo[t][1].object}
  BY <1>1, <1>5 DEF Changing, AssignsNext
<1>7. ptr'[p] = mSingleton'[p] /\ alive'[p] = {ptr'[p]}
  BY <1>1, <1>3, <1>6 DEF TypeInv, Objects
<1>8. \A v \in Threads : ~Halfway(todo'[v], p)
  BY <1>2, <1>4, <1>5
<1>9. Single(p)'
  BY <1>7, <1>8 DEF Single, Current
<1>. QED BY <1>9

LEMMA NothingStrays ==
  ASSUME undefined' = "no"
  PROVE  ~Strays /\ \A t : ~Wanders(t)
BY DEF Strays, Wanders, Astray, Undefined, Causes

LEMMA StepSingles ==
  ASSUME TypeInv, TypeInv', Singles, NEW t \in Threads, Step(t), undefined = "no",
         undefined' = "no", m_running'
  PROVE  Singles'
<1>1. ~Strays /\ ~Wanders(t)
  BY NothingStrays
<1>2. /\ todo[t] # <<>> /\ Head(todo[t]) = todo[t][1] /\ todo[t][1].part = part(t)
      /\ 1 \in 1 .. Len(todo[t]) /\ todo[t][1].op \in Touching => part(t) \in Parts
  BY StepHead
<1>3. ASSUME Fine(t) PROVE GoesOn(t) /\ Others(t)
  BY <1>2, <1>3, ProceedFollows DEF Fine, GoesOn
<1>4. CASE CallAbort(t)
  <2>1. Idle(todo[t]) /\ Orderly(todo[t]) /\ UNCHANGED <<ptr, alive, mSingleton>>
    BY <1>2, <1>4 DEF CallAbort, At, Singles, Orders, objects
  <2>2. CASE UNCHANGED todo
    <3>1. Others(t) /\ todo'[t] = todo[t] /\ \A p : ~Halfway(todo'[t], p)
      BY <2>1, <2>2, IdleShape DEF Others
    <3>. QED BY <2>1, <3>1, SinglesBegin
  <2>3. CASE todo' = [todo EXCEPT ![t] = OnSignal \o <<Do("die", "none")>>]
    <3>1. Others(t) /\ todo'[t] = OnSignal \o <<Do("die", "none")>>
      BY <2>3 DEF Others, TypeInv, Lists
    <3>2. Harmless(todo'[t])
      BY <3>1, HandlerLists
    <3>. QED BY <2>1, <3>1, <3>2, HarmlessShape, SinglesBegin
  <2>. QED BY <2>2, <2>3, <1>4 DEF CallAbort, Abort
<1>5. CASE Uptime(t) \/ Save(t) \/ Clear(t) \/ Start(t) \/ Passes(t) \/ Unhook(t) \/ End(t)
  <2>1. GoesOn(t) /\ Others(t)
    <3>1. CASE End(t)
      BY <3>1, <1>2, ProceedFollows DEF End, GoesOn
    <3>2. CASE ~End(t)
      BY <3>2, <1>1, <1>3, <1>5, Passing DEF Uptime, Save, Clear, Start, Unhook
    <3>. QED BY <3>1, <3>2
  <2>2. UNCHANGED <<ptr, alive, mSingleton>> /\ ~Work(todo[t][1])
    <3>1. CASE Passes(t)
      BY <3>1, <1>2, Passing DEF objects, Work, PassNames
    <3>2. CASE ~Passes(t)
      BY <3>2, <1>2, <1>5 DEF Uptime, Save, Clear, Start, Unhook, End, At, objects, Work
    <3>. QED BY <3>1, <3>2
  <2>3. \A p \in Parts : Single(p)'
    BY <2>1, <2>2, <1>2, SingleElsewhere
  <2>4. Orders'
    BY <2>1, <1>2, OrdersGoOn DEF Singles
  <2>. QED BY <2>3, <2>4 DEF Singles
<1>6. CASE Delete(t) \/ New(t) \/ Assign(t)
  <2>5. Head(todo[t]).op \in {"delete", "new", "assign"}
    BY <1>6 DEF Delete, New, Assign, At
  <2>6. part(t) \in Parts
    BY <2>5, <1>2 DEF Touching
  <2> PICK p \in Parts : p = part(t)
    BY <2>6
  <2>1. GoesOn(t) /\ Others(t) /\ Single(p)'
    <3>1. CASE Delete(t)
      <4>1. Usable(t) /\ Fine(t)
        BY <3>1, <1>1, Ways DEF Delete
      <4>. QED BY <3>1, <4>1, <1>3, SingleDelete
    <3>2. CASE New(t)
      BY <3>2, SingleNew, NewMakes
    <3>3. CASE Assign(t)
      BY <3>3, <1>3, SingleAssign DEF Assign
    <3>. QED BY <3>1, <3>2, <3>3, <1>6
  <2>2. \A q \in Parts \ {p} :
          ptr'[q] = ptr[q] /\ alive'[q] = alive[q] /\ mSingleton'[q] = mSingleton[q]
    BY <1>6 DEF Delete, New, Assign, TypeInv, Objects
  <2>3. \A q \in Parts \ {p} : Single(q)'
    BY <2>1, <2>2, <1>2, SingleElsewhere
  <2>4. Orders'
    BY <2>1, <1>2, OrdersGoOn DEF Singles
  <2>. QED BY <2>1, <2>3, <2>4 DEF Singles
<1>7. ~Halt(t)
  BY DEF Halt
<1>. QED BY <1>4, <1>5, <1>6, <1>7 DEF Step, Passes

LEMMA NextSingles == TypeInv /\ TypeInv' /\ SingleInv /\ [Next]_vars => SingleInv'
<1> SUFFICES ASSUME TypeInv, TypeInv', SingleInv, [Next]_vars, undefined' = "no", m_running'
             PROVE  Singles'
  BY DEF SingleInv
<1>1. ~Strays /\ ~Undefined(Phase) /\ \A t : ~Wanders(t)
  BY NothingStrays, Ways
<1>2. undefined = "no" /\ m_running
  <2>1. ASSUME NEW t \in Threads, Step(t) PROVE undefined' = undefined /\ (m_running' => m_running)
    <3>1. CASE Passes(t)
      BY <3>1, <1>1, Passing DEF Fine
    <3>2. CASE ~Passes(t)
      <4>1. \/ Uptime(t) \/ Save(t) \/ Clear(t) \/ Halt(t) \/ Unhook(t) \/ CallAbort(t) \/ End(t)
            \/ Delete(t) \/ New(t) \/ Assign(t) \/ Start(t)
        BY <2>1, <3>2 DEF Step, Passes
      <4>2. ~Astray(t, Phase)
        BY <1>1, Ways
      <4>. QED BY <4>1, <4>2, <1>1 DEF Uptime, Save, Clear, Halt, Delete, New, Assign, Start,
                  Unhook, CallAbort, End, Fine
    <3>. QED BY <3>1, <3>2
  <2>2. ASSUME ~\E t \in Threads : Step(t) PROVE undefined' = undefined /\ (m_running' => m_running)
    BY <2>2, <1>1 DEF Next, MainWakes, Command, EmptyText, Round, Signal, PollerEnds, PollerAstray,
       PollerReports, vars
  <2>. QED BY <2>1, <2>2
<1>3. Singles
  BY <1>2 DEF SingleInv
<1>4. ASSUME NEW t \in Threads, Step(t) PROVE Singles'
  BY <1>2, <1>3, <1>4, StepSingles
<1>5. Idle(<<>>)
  BY DEF Idle
<1>6. ASSUME NEW t \in Threads, todo[t] = <<>>, Others(t), UNCHANGED <<ptr, alive, mSingleton>>,
             Orderly(todo'[t]), \A p : ~Halfway(todo'[t], p),
             \A i \in 1 .. Len(todo'[t]) : todo'[t][i].op = "abort" => Idle(todo'[t])
      PROVE  Singles'
  BY <1>3, <1>5, <1>6, SinglesBegin
<1>7. ASSUME NEW t \in {"console", "session"}, Command(t) PROVE Singles'
  <2>1. t \in Threads /\ todo[t] = <<>> /\ UNCHANGED <<ptr, alive, mSingleton>>
    BY <1>7 DEF Command, Free, Threads, objects
  <2>2. CASE todo' = [todo EXCEPT ![t] = Kikapcs \o <<Do("loop", t)>>]
    <3>1. Others(t) /\ todo'[t] = Kikapcs \o <<Do("loop", t)>>
      BY <2>1, <2>2 DEF Others, TypeInv, Lists
    <3>2. Harmless(todo'[t])
      BY <3>1, KikapcsList
    <3>. QED BY <2>1, <3>1, <3>2, <1>6, HarmlessShape
  <2>4. ASSUME NEW cmd \in Lines, NEW s \in ConsoleLine(cmd),
               todo' = [todo EXCEPT ![t] = s \o <<Do("loop", t)>>]
        PROVE  Singles'
    <3>1. Others(t) /\ todo'[t] = s \o <<Do("loop", t)>>
      BY <2>1, <2>4 DEF Others, TypeInv, Lists
    <3>2. Harmless(todo'[t])
      BY <3>1, LineList
    <3>. QED BY <2>1, <3>1, <3>2, <1>6, HarmlessShape
  <2>3. ASSUME NEW nev \in Reloads,
               todo' = [todo EXCEPT ![t] = Reload(nev) \o Answer(t) \o <<Do("loop", t)>>]
        PROVE  Singles'
    <3> DEFINE s == Reload(nev) \o Answer(t) \o <<Do("loop", t)>>
    <3>1. Others(t) /\ todo'[t] = s
      BY <2>1, <2>3 DEF Others, TypeInv, Lists
    <3>2. /\ Orderly(s)
          /\ \A i \in 1 .. Len(s) :
               /\ s[i].op \in {"stop", "say", "loop", "delete", "new", "assign"}
               /\ s[i].op = "new" =>
                    \E h \in 1 .. i - 1 : s[h].op = "delete" /\ s[h].part = s[i].part
               /\ s[i].op = "assign" => i # 1
      BY ReloadList
    <3>3. Len(s) \in Nat
      <4>1. todo'[t] \in Seq(Ops)
        BY <2>1 DEF TypeInv, Lists
      <4>. QED BY <4>1, <3>1, LenProperties
    <3>. HIDE DEF s
    <3>4. ASSUME NEW i \in 1 .. Len(s), s[i].op \in {"new", "assign"}
          PROVE  \E h \in 1 .. i - 1 : s[h].op = "delete" /\ s[h].part = s[i].part
      <4>1. CASE s[i].op = "new"
        BY <4>1, <3>2
      <4>2. CASE s[i].op = "assign"
        <5>1. i \in 2 .. Len(s) /\ i - 1 \in 1 .. Len(s)
          BY <4>2, <3>2, <3>3
        <5>2. s[i - 1].op = "new" /\ s[i - 1].part = s[i].part
          BY <5>1, <4>2, <3>2 DEF Orderly
        <5>3. PICK h \in 1 .. (i - 1) - 1 : s[h].op = "delete" /\ s[h].part = s[i].part
          BY <5>1, <5>2, <3>2
        <5>4. h \in 1 .. i - 1
          BY <5>1, <5>3
        <5>. QED BY <5>3, <5>4
      <4>. QED BY <4>1, <4>2, <3>4
    <3>5. \A p : ~Halfway(s, p)
      BY <3>4 DEF Halfway
    <3>6. \A i \in 1 .. Len(s) : s[i].op # "abort"
      BY <3>2
    <3>. QED BY <2>1, <3>1, <3>2, <3>5, <3>6, <1>6
  <2>. QED BY <2>2, <2>3, <2>4, <1>7 DEF Command
<1>12. ASSUME NEW t \in {"console", "session"}, EmptyText(t) PROVE Singles'
  BY <1>12, <1>3 DEF EmptyText, objects, Singles, Orders, Single, Current, Changing
<1>8. ASSUME Signal PROVE Singles'
  <2>1. "signal" \in Threads /\ todo["signal"] = <<>> /\ UNCHANGED <<ptr, alive, mSingleton>>
    BY <1>8 DEF Signal, Free, Threads, objects
  <2>2. CASE UNCHANGED todo
    BY <2>1, <2>2, <1>3 DEF Singles, Orders, Single, Current, Changing
  <2>3. CASE todo' = [todo EXCEPT !["signal"] = OnSignal]
    <3>1. Others("signal") /\ todo'["signal"] = OnSignal
      BY <2>1, <2>3 DEF Others, TypeInv, Lists
    <3>2. Harmless(todo'["signal"])
      BY <3>1, HandlerLists
    <3>. QED BY <2>1, <3>1, <3>2, <1>6, HarmlessShape
  <2>. QED BY <2>2, <2>3, <1>8 DEF Signal
<1>9. ASSUME NEW p \in Infos, NEW o \in polling[p],
             PollerEnds(p, o) \/ PollerAstray(p, o) \/ PollerReports(p, o)
      PROVE  Singles'
  <2>1. UNCHANGED <<todo, ptr, alive, mSingleton>>
    BY <1>1, <1>9 DEF PollerEnds, PollerAstray, PollerReports, objects
  <2>. QED BY <2>1, <1>3 DEF Singles, Orders, Single, Current, Changing
<1>10. ~MainWakes /\ ~Round
  BY <1>1, <1>2 DEF MainWakes, Round
<1>11. CASE UNCHANGED vars
  BY <1>11, <1>3 DEF vars, objects, Singles, Orders, Single, Current, Changing
<1>. QED BY <1>4, <1>7, <1>8, <1>9, <1>10, <1>11, <1>12 DEF Next

LEMMA InitSingles == Init => SingleInv
<1> SUFFICES ASSUME Init PROVE Singles
  BY DEF SingleInv
<1>1. todo["main"] = Vezerlo /\ \A t \in Threads \ {"main"} : todo[t] = <<>> \/ todo[t] = Run
  BY DEF Init, Threads
<1>2. /\ Orderly(Vezerlo) /\ \A p \in Parts : WorksOn(Vezerlo, p)
      /\ \A i \in 1 .. Len(Vezerlo) : /\ Vezerlo[i].op \in {"new", "assign", "start"}
                                      /\ Vezerlo[i].op = "assign" => i # 1
  BY VezerloList DEF Constructing
<1>3. Harmless(<<>>) /\ "main" \in Threads
  BY DEF Harmless, Threads
<1>4. \A t \in Threads \ {"main"} :
        Orderly(todo[t]) /\ Idle(todo[t]) /\ \A p : ~Halfway(todo[t], p)
  BY <1>1, <1>3, HarmlessShape, RunOnline, OnlineHarmless
<1>5. Orders
  <2>1. \A i \in 1 .. Len(Vezerlo) : Vezerlo[i].op # "abort"
    BY <1>2
  <2>. QED BY <2>1, <1>1, <1>2, <1>4 DEF Orders
<1>6. ASSUME NEW p \in Parts PROVE Single(p)
  <2>1. PICK i \in 1 .. Len(Vezerlo) : Work(Vezerlo[i]) /\ Vezerlo[i].part = p
    BY <1>2 DEF WorksOn
  <2>2. \A h \in 1 .. i - 1 : Vezerlo[h].op # "delete"
    <3>1. Vezerlo \in Seq(Ops)
      BY FreshMain DEF Fresh, Good
    <3>2. \A h \in 1 .. i - 1 : h \in 1 .. Len(Vezerlo)
      BY <3>1, LenProperties
    <3>. QED BY <3>2, <1>2
  <2>3. Halfway(todo["main"], p)
    BY <2>1, <2>2, <1>1, <1>2 DEF Halfway, Work
  <2>4. ~AssignsNext(todo["main"], p)
    <3>1. Vezerlo \in Seq(Ops)
      BY FreshMain DEF Fresh, Good
    <3>2. Len(Vezerlo) >= 1 => 1 \in 1 .. Len(Vezerlo)
      BY <3>1, LenProperties
    <3>. QED BY <3>2, <1>1, <1>2 DEF AssignsNext
  <2>5. mSingleton[p] = 0 /\ alive[p] = {}
    BY DEF Init
  <2>6. \A v \in Threads \ {"main"} : ~Halfway(todo[v], p)
    BY <1>4
  <2>. QED BY <2>3, <2>4, <2>5, <2>6, <1>3 DEF Single, Changing
<1>. QED BY <1>5, <1>6 DEF Singles

\* Reloads and shutdowns of several threads, in any order: where nothing
\* undefined happened and nobody is at work on a class, its singleton is the one
\* object Vezerlo holds (Vezerlo::Reload, Singleton). Two threads that reload one
\* part at once cannot both be half-way: the second delete of an object is
\* undefined, and so is every use of a part between its delete and its assignment.
THEOREM SingletonStaysCurrent == Spec => []SingletonIsCurrent
<1>1. TypeInv /\ SingleInv => SingletonIsCurrent
  <2> SUFFICES ASSUME TypeInv, Singles, NEW p \in Parts, ~Busy(p) PROVE Current(p)
    BY DEF SingleInv, SingletonIsCurrent, Current
  <2>1. ASSUME NEW t \in Threads PROVE ~Halfway(todo[t], p)
    <3>1. todo[t] \in Seq(Ops)
      BY DEF TypeInv, Lists
    <3>2. DOMAIN todo[t] = 1 .. Len(todo[t])
      BY <3>1, LenProperties
    <3>. QED BY <3>2 DEF Busy, Halfway
  <2>. QED BY <2>1 DEF Singles, Single
<1>2. Spec => []TypeInv
  BY InitKeepsTypes, NextKeepsTypes, PTL DEF Spec
<1>3. Spec => []SingleInv
  BY <1>2, InitSingles, NextSingles, PTL DEF Spec
<1>. QED BY <1>1, <1>2, <1>3, PTL

-----------------------------------------------------------------------------
(* Nothing undefined between start-up and shutdown                         *)

\* While it runs and nothing is reloaded: main is in the constructor of Vezerlo
\* or waits; nobody else makes or deletes anything; the threads that have started
\* are in objects that exist, and stay there as long as they are to go on in
\* them; and a part is there, or main still has it to make and has no session yet.
Running == m_running /\ ~reloaded
MainList(s) ==
  /\ \A i \in 1 .. Len(s) : s[i].op \in {"new", "assign", "start"}
  /\ \A i \in 1 .. Len(s) : s[i].op = "start" => s[i].part \in {"console", "session"}
  /\ Orderly(s) /\ SessionLast(s)
There(p) == ptr[p] \in alive[p] /\ mSingleton[p] # 0
Avoids(s, op) == \A i \in 1 .. Len(s) : s[i].op # op
Stays(t) ==
  /\ t \in {"console", "session"} /\ inside[t] # 0
  /\ t = "session" => Avoids(todo[t], "connect")
Seats ==
  /\ inside \in [{"console", "session"} -> Nat]
  /\ \A t \in {"console", "session"} : inside[t] \in alive[t] \cup {0}
  /\ active \subseteq {"console", "session"} /\ \A t \in active : inside[t] # 0
Steady ==
  /\ MainList(todo["main"]) /\ Apt(todo["main"])
  /\ \A p \in Parts : AssignsNext(todo["main"], p) => mSingleton[p] # 0
  /\ \A t \in Threads \ {"main"} : Harmless(todo[t]) /\ (Avoids(todo[t], "loop") \/ Stays(t))
  /\ Seats
  /\ \A p \in Infos : polling[p] \subseteq alive[p]
  /\ \A p \in Parts : There(p) \/ (WorksOn(todo["main"], p) /\ ptr["session"] = 0)
SafeInv == SafeWhileRunning /\ (Running => Steady)

LEMMA AvoidsConcat ==
  ASSUME NEW s \in Seq(Ops), NEW u \in Seq(Ops), NEW x, Avoids(s, x), Avoids(u, x)
  PROVE  Avoids(s \o u, x)
<1>1. \A i \in 1 .. Len(s \o u) :
        \/ i \in 1 .. Len(s) /\ (s \o u)[i] = s[i]
        \/ i - Len(s) \in 1 .. Len(u) /\ (s \o u)[i] = u[i - Len(s)]
  BY AtConcat
<1>. QED BY <1>1 DEF Avoids

LEMMA AvoidsOne ==
  ASSUME NEW op \in OpNames, NEW p \in Parts \cup {"none"}, NEW x, x # op
  PROVE  <<Do(op, p)>> \in Seq(Ops) /\ Avoids(<<Do(op, p)>>, x)
<1>1. <<Do(op, p)>> \in Seq(Ops) /\ Len(<<Do(op, p)>>) = 1 /\ <<Do(op, p)>>[1].op = op
  BY OneOp
<1>. QED BY <1>1 DEF Avoids

LEMMA LeallasAvoids ==
  ASSUME NEW x \in {"loop", "connect"}
  PROVE  Avoids(Leallas, x)
<1> DEFINE a == <<Do("save", "none")>>
           b == Each("stop", Order)
           c == <<Do("halt", "none")>>
<1>1. a \in Seq(Ops) /\ Avoids(a, x) /\ c \in Seq(Ops) /\ Avoids(c, x)
  <2>1. "save" \in OpNames /\ "halt" \in OpNames /\ x # "save" /\ x # "halt"
    BY DEF OpNames
  <2>. QED BY <2>1, AvoidsOne
<1>2. b \in Seq(Ops) /\ Avoids(b, x)
  <2>1. DOMAIN Order = 1 .. Len(Order) /\ Len(Order) \in Nat
    BY PartsAreStrings, LenProperties
  <2>2. \A i \in 1 .. Len(Order) : b[i].op = "stop"
    BY <2>1 DEF Each, Do
  <2>3. b \in Seq(Ops)
    BY FreshEach, PartsAreStrings DEF Fresh, Good, OpNames
  <2>4. Len(b) = Len(Order)
    BY <2>1 DEF Each
  <2>. QED BY <2>2, <2>3, <2>4 DEF Avoids
<1>3. Shutdown \in Seq(Ops) /\ Avoids(Shutdown, x)
  <2> DEFINE s == <<Do("visit", "console"), Do("visit", "session"), Do("empty", "none")>>
  <2>1. Len(s) = 3 /\ s[1].op = "visit" /\ s[2].op = "visit" /\ s[3].op = "empty"
    BY DEF Do
  <2>2. \A i \in 1 .. Len(s) : i = 1 \/ i = 2 \/ i = 3
    BY <2>1
  <2>3. Avoids(s, x)
    BY <2>1, <2>2 DEF Avoids
  <2>. QED BY <2>3, ShutdownList DEF Shutdown
<1>4. Leallas = a \o b \o Shutdown \o c
  BY DEF Leallas
<1>. HIDE DEF a, b, c
<1>5. a \o b \in Seq(Ops) /\ Avoids(a \o b, x)
  BY <1>1, <1>2, AtConcat, AvoidsConcat
<1>6. a \o b \o Shutdown \in Seq(Ops) /\ Avoids(a \o b \o Shutdown, x)
  BY <1>3, <1>5, AtConcat, AvoidsConcat
<1>. QED BY <1>1, <1>4, <1>6, AvoidsConcat

LEMMA HandlersLoopless ==
  /\ Avoids(OnSignal, "loop") /\ Avoids(Segfault, "loop")
  /\ Avoids(OnSignal \o <<Do("die", "none")>>, "loop")
<1> DEFINE a == <<Do("uptime", "none"), Do("clear", "none")>>
           d == <<Do("uptime", "none"), Do("bye", "session"), Do("clear", "none")>>
<1>0. {Do("uptime", "none"), Do("clear", "none"), Do("bye", "session")} \subseteq Ops
  BY DEF Do, Ops, OpNames, Parts
<1>1. a \in Seq(Ops) /\ Avoids(a, "loop")
  <2>1. a \in Seq(Ops) /\ Len(a) = 2 /\ a[1].op = "uptime" /\ a[2].op = "clear"
    BY <1>0 DEF Do
  <2>2. \A i \in 1 .. Len(a) : i = 1 \/ i = 2
    BY <2>1
  <2>. QED BY <2>1, <2>2 DEF Avoids
<1>2. d \in Seq(Ops) /\ Avoids(d, "loop")
  <2>1. d \in Seq(Ops) /\ Len(d) = 3 /\ d[1].op = "uptime" /\ d[2].op = "bye" /\ d[3].op = "clear"
    BY <1>0 DEF Do
  <2>2. \A i \in 1 .. Len(d) : i = 1 \/ i = 2 \/ i = 3
    BY <2>1
  <2>. QED BY <2>1, <2>2 DEF Avoids
<1>3. Leallas \in Seq(Ops) /\ Avoids(Leallas, "loop")
  BY LeallasList, LeallasAvoids
<1>4. \A op \in {"die", "abort"} :
        <<Do(op, "none")>> \in Seq(Ops) /\ Avoids(<<Do(op, "none")>>, "loop")
  BY AvoidsOne DEF OpNames
<1>5. OnSignal = a \o Leallas /\ Handler = d \o Leallas \o <<Do("abort", "none")>>
  BY DEF OnSignal, Handler
<1>6. Segfault = Handler \/ Segfault = <<Do("abort", "none")>>
  BY DEF Segfault
<1> DEFINE e == <<Do("abort", "none")>>
           f == <<Do("die", "none")>>
<1>7. e \in Seq(Ops) /\ Avoids(e, "loop") /\ f \in Seq(Ops) /\ Avoids(f, "loop")
  BY <1>4
<1>8. Handler = d \o Leallas \o e /\ (Segfault = Handler \/ Segfault = e)
  BY <1>5, <1>6
<1>. HIDE DEF a, d, e, f
<1>9. a \o Leallas \in Seq(Ops) /\ Avoids(a \o Leallas, "loop")
  BY <1>1, <1>3, AtConcat, AvoidsConcat
<1>10. d \o Leallas \in Seq(Ops) /\ Avoids(d \o Leallas, "loop")
  BY <1>2, <1>3, AtConcat, AvoidsConcat
<1>11. Avoids(a \o Leallas \o f, "loop") /\ Avoids(d \o Leallas \o e, "loop")
  BY <1>7, <1>9, <1>10, AvoidsConcat
<1>12. Avoids(OnSignal, "loop") /\ Avoids(OnSignal \o f, "loop")
  BY <1>5, <1>9, <1>11
<1>13. Avoids(Segfault, "loop")
  BY <1>7, <1>8, <1>11
<1>. QED BY <1>12, <1>13 DEF f

\* kikapcs on IRC does not connect.
LEMMA KikapcsAvoids ==
  ASSUME NEW t \in {"console", "session"}
  PROVE  Avoids(Kikapcs \o <<Do("loop", t)>>, "connect")
<1>1. Words \in Seq(Ops) /\ Avoids(Words, "connect")
  BY AvoidsOne DEF Words, OpNames, Parts
<1> DEFINE c == <<Do("loop", t)>>
<1>2. c \in Seq(Ops) /\ Avoids(c, "connect")
  <2>1. "loop" \in OpNames /\ t \in Parts /\ "loop" # "connect"
    BY DEF OpNames, Parts
  <2>. QED BY <2>1, AvoidsOne
<1>. HIDE DEF c
<1>3. Leallas \in Seq(Ops) /\ Avoids(Leallas, "connect")
  BY LeallasList, LeallasAvoids
<1>4. Kikapcs \in Seq(Ops) /\ Avoids(Kikapcs, "connect")
  BY <1>1, <1>3, AtConcat, AvoidsConcat DEF Kikapcs
<1>. QED BY <1>2, <1>4, AvoidsConcat DEF c

\* Another thread than main goes on, or begins a list that makes nothing; the
\* session may leave its object.
LEMMA SteadyElsewhere ==
  ASSUME Steady, NEW t \in Threads \ {"main"}, Others(t),
         UNCHANGED <<ptr, alive, mSingleton>>,
         \A p \in Infos : polling'[p] \subseteq polling[p],
         Harmless(todo'[t]), Avoids(todo'[t], "loop") \/ Stays(t)',
         Seats', \A v \in {"console", "session"} \ {t} : inside'[v] = inside[v]
  PROVE  Steady'
<1>0. "main" \in Threads
  BY DEF Threads
<1>1. \A v \in Threads \ {t} : todo'[v] = todo[v]
  BY DEF Others
<1>2. todo'["main"] = todo["main"]
  BY <1>0, <1>1
<1>3. MainList(todo'["main"]) /\ \A p \in Parts : AssignsNext(todo'["main"], p) => mSingleton'[p] # 0
  BY <1>2 DEF Steady
<1>4. Apt(todo["main"])'
  BY <1>0, <1>2, AptSame DEF Steady
<1>5. ASSUME NEW v \in Threads \ {"main"}
      PROVE  Harmless(todo'[v]) /\ (Avoids(todo'[v], "loop") \/ Stays(v)')
  <2>1. CASE v = t
    BY <2>1
  <2>2. CASE v # t
    <3>1. todo'[v] = todo[v]
      BY <2>2, <1>1
    <3>2. Stays(v) => Stays(v)'
      BY <3>1, <2>2 DEF Stays
    <3>. QED BY <3>1, <3>2 DEF Steady
  <2>. QED BY <2>1, <2>2
<1>6. \A p \in Infos : polling'[p] \subseteq alive'[p]
  BY DEF Steady
<1>7. \A p \in Parts : There(p)' \/ (WorksOn(todo'["main"], p) /\ ptr'["session"] = 0)
  BY <1>2 DEF Steady, There
<1>. QED BY <1>3, <1>4, <1>5, <1>6, <1>7 DEF Steady

\* Once there is a session every object is where it is looked for.
LEMMA SteadyDefined ==
  ASSUME TypeInv, Steady, ptr["session"] # 0, NEW t \in Threads, Step(t)
  PROVE  undefined' = undefined \/ Undefined("offline") \/ Undefined("torn")
<1>1. \A p \in Parts : ptr[p] \in alive[p] /\ mSingleton[p] # 0 /\ mSingleton[p] \in alive[p]
  BY DEF Steady, There, TypeInv, Objects
<1>2. /\ todo[t] # <<>> /\ Head(todo[t]) = todo[t][1] /\ 1 \in 1 .. Len(todo[t])
      /\ todo[t][1].op \in Touching => part(t) \in Parts
  BY StepHead
<1>3. ASSUME NEW p, NEW o \in alive[p], OnShutdown(t, p, o)
      PROVE  undefined' = undefined \/ Undefined("offline")
  BY <1>3 DEF OnShutdown, Astray, Fine
<1>4. CASE Stop(t)
  <2>1. target(t) \in alive[part(t)]
    BY <1>1, <1>2, <1>4 DEF Stop, At, Touching, target
  <2>2. OnShutdown(t, part(t), target(t))
    BY <1>4 DEF Stop
  <2>. QED BY <2>1, <2>2, <1>3
<1>5. CASE Visit(t)
  <2>1. CASE part(t) \in active /\ OnShutdown(t, part(t), inside[part(t)])
    <3>1. inside[part(t)] \in alive[part(t)]
      BY <2>1 DEF Steady, Seats
    <3>. QED BY <2>1, <3>1, <1>3
  <2>2. Astray(t, "torn") => Undefined("torn")
    BY DEF Astray
  <2>3. \/ Astray(t, "torn") \/ Fine(t)
        \/ part(t) \in active /\ OnShutdown(t, part(t), inside[part(t)])
    BY <1>5 DEF Visit
  <2>. QED BY <2>1, <2>2, <2>3 DEF Fine
<1>6. CASE Disconnect(t)
  <2>1. mSingleton["session"] \in alive["session"]
    BY <1>1 DEF Parts
  <2>2. OnShutdown(t, "session", mSingleton["session"])
    BY <1>6 DEF Disconnect
  <2>. QED BY <2>1, <2>2, <1>3
<1>7. ~Delete(t)
  <2>1. todo[t][1].op # "delete"
    BY <1>2 DEF Steady, MainList, Harmless, Work
  <2>. QED BY <2>1, <1>2 DEF Delete, At
<1>8. CASE Say(t)
  BY <1>1, <1>8 DEF Say, Fine, Parts
<1>9. CASE Loop(t)
  <2>1. todo[t][1].op = "loop"
    BY <1>2, <1>9 DEF Loop, At
  <2>2. t # "main"
    BY <2>1, <1>2 DEF Steady, MainList
  <2>3. Stays(t)
    BY <2>1, <2>2, <1>2 DEF Steady, Avoids
  <2>4. inside[t] \in alive[t]
    BY <2>3 DEF Steady, Seats, Stays
  <2>. QED BY <2>4, <1>9 DEF Loop, Fine
<1>10. CASE Empty(t) \/ Bye(t) \/ ConnectMade(t) \/ ConnectFailed(t)
  BY <1>10 DEF Empty, Bye, ConnectMade, ConnectFailed, Fine
<1>11. CASE ~Passes(t)
  <2>1. \/ Uptime(t) \/ Save(t) \/ Clear(t) \/ Halt(t) \/ Unhook(t) \/ CallAbort(t) \/ End(t)
        \/ New(t) \/ Assign(t) \/ Start(t)
    BY <1>7, <1>11 DEF Step, Passes
  <2>. QED BY <2>1 DEF Uptime, Save, Clear, Halt, New, Assign, Start, Unhook, CallAbort, End, Fine
<1>. QED BY <1>4, <1>5, <1>6, <1>8, <1>9, <1>10, <1>11 DEF Passes

\* A step of a thread that makes nothing.
LEMMA OthersSteady ==
  ASSUME TypeInv, TypeInv', Steady, NEW t \in Threads \ {"main"}, Step(t)
  PROVE  Steady'
<1>1. /\ todo[t] # <<>> /\ Head(todo[t]) = todo[t][1] /\ 1 \in 1 .. Len(todo[t])
      /\ Harmless(todo[t])
  BY StepHead DEF Steady
<1>2. ~Work(todo[t][1]) /\ todo[t][1].op # "start"
  BY <1>1 DEF Harmless
<1>3. ~Delete(t) /\ ~New(t) /\ ~Assign(t) /\ ~Start(t)
  BY <1>1, <1>2 DEF Delete, New, Assign, Start, At, Work
<1>4. \/ Uptime(t) \/ Save(t) \/ Clear(t) \/ Halt(t) \/ Unhook(t) \/ CallAbort(t) \/ End(t)
      \/ Passes(t)
  BY <1>3 DEF Step, Passes
<1>5. UNCHANGED <<ptr, alive, mSingleton, polling>>
  <2>1. CASE Passes(t)
    BY <2>1 DEF Passes, Stop, Visit, Empty, Say, Bye, Loop, ConnectMade, ConnectFailed, Disconnect, objects
  <2>. QED BY <2>1, <1>4 DEF Uptime, Save, Clear, Halt, Unhook, CallAbort, End, objects
<1>6. \/ UNCHANGED inside /\ active' \subseteq active
      \/ ConnectFailed(t)
  <2>1. CASE Passes(t)
    BY <2>1 DEF Passes, Stop, Visit, Empty, Say, Bye, Loop, ConnectMade, ConnectFailed, Disconnect, wires
  <2>. QED BY <2>1, <1>4 DEF Uptime, Save, Clear, Halt, Unhook, CallAbort, End, wires
<1>7. \/ Proceed(t) \/ UNCHANGED todo
      \/ todo' = [todo EXCEPT ![t] = Segfault]
      \/ todo' = [todo EXCEPT ![t] = OnSignal \o <<Do("die", "none")>>]
  <2>1. CASE Passes(t)
    BY <2>1, Passing DEF Fine, Wanders, Astray, Fault
  <2>. QED BY <2>1, <1>4 DEF Uptime, Save, Clear, Halt, Unhook, CallAbort, End, Fine, Abort
<1>8. /\ Others(t)
      /\ \/ Follows(todo'[t], todo[t]) \/ todo'[t] = todo[t]
         \/ todo'[t] = Segfault \/ todo'[t] = OnSignal \o <<Do("die", "none")>>
  BY <1>1, <1>7, ProceedFollows DEF Others, TypeInv, Lists
<1>9. /\ inside \in [{"console", "session"} -> Nat]
      /\ \A v \in {"console", "session"} : inside[v] \in alive[v] \cup {0}
      /\ active \subseteq {"console", "session"} /\ \A v \in active : inside[v] # 0
  BY DEF Steady, Seats
<1>10. ASSUME ConnectFailed(t)
       PROVE  /\ t = "session" /\ todo[t][1].op = "connect"
              /\ inside' = [inside EXCEPT ![t] = 0] /\ active' = active \ {t}
              /\ Follows(todo'[t], todo[t])
  BY <1>1, <1>10, ProceedFollows DEF ConnectFailed, Fine, At
<1>11. Seats' /\ \A v \in {"console", "session"} \ {t} : inside'[v] = inside[v]
  <2>1. CASE UNCHANGED inside /\ active' \subseteq active
    BY <2>1, <1>5, <1>9 DEF Seats
  <2>2. CASE ConnectFailed(t)
    <3>1. /\ inside' = [inside EXCEPT !["session"] = 0] /\ active' = active \ {"session"}
          /\ t = "session" /\ alive' = alive
      BY <2>2, <1>5, <1>10
    <3>2. inside'["session"] = 0 /\ inside'["console"] = inside["console"]
      BY <3>1, <1>9
    <3>3. inside' \in [{"console", "session"} -> Nat]
      BY <3>1, <1>9
    <3>4. \A v \in active' : v = "console" /\ inside[v] # 0
      BY <3>1, <1>9
    <3>. QED BY <3>1, <3>2, <3>3, <3>4, <1>9 DEF Seats
  <2>. QED BY <2>1, <2>2, <1>6
<1>12. Harmless(todo'[t]) /\ (Avoids(todo'[t], "loop") \/ Stays(t)')
  <2>1. CASE Follows(todo'[t], todo[t])
    <3>1. todo[t] \in Seq(Ops) /\ todo'[t] \in Seq(Ops)
      BY DEF TypeInv, Lists
    <3>2. \A i \in 1 .. Len(todo'[t]) : i + 1 \in 1 .. Len(todo[t]) /\ todo'[t][i].op = todo[t][i + 1].op
      BY <2>1, <3>1, <1>1, Indices
    <3>3. Harmless(todo'[t]) /\ \A x : Avoids(todo[t], x) => Avoids(todo'[t], x)
      BY <3>2, <1>1 DEF Harmless, Work, Avoids
    <3>4. CASE Avoids(todo[t], "loop")
      BY <3>3, <3>4
    <3>5. CASE ~Avoids(todo[t], "loop")
      <4>1. Stays(t)
        BY <3>5 DEF Steady
      <4>2. ~ConnectFailed(t)
        BY <4>1, <1>1, <1>10 DEF Stays, Avoids
      <4>3. Stays(t)'
        BY <4>1, <4>2, <3>3, <1>6 DEF Stays
      <4>. QED BY <4>3, <3>3
    <3>. QED BY <3>4, <3>5
  <2>2. CASE todo'[t] = todo[t] /\ ~ConnectFailed(t)
    <3>1. Stays(t) => Stays(t)'
      BY <2>2, <1>6 DEF Stays
    <3>. QED BY <2>2, <3>1 DEF Steady
  <2>3. CASE todo'[t] = Segfault \/ todo'[t] = OnSignal \o <<Do("die", "none")>>
    BY <2>3, HandlerLists, HandlersLoopless
  <2>. QED BY <2>1, <2>2, <2>3, <1>8, <1>10
<1>. QED BY <1>5, <1>8, <1>11, <1>12, SteadyElsewhere

LEMMA FollowsMainList ==
  ASSUME NEW s \in Seq(Ops), NEW u \in Seq(Ops), s # <<>>, Follows(u, s), MainList(s)
  PROVE  MainList(u)
<1>0. /\ \A i \in 1 .. Len(u) :
           /\ i + 1 \in 1 .. Len(s) /\ u[i].op = s[i + 1].op /\ u[i].part = s[i + 1].part
      /\ Len(u) \in Nat
  BY Indices
<1>1. Orderly(u)
  BY FollowsOrderly DEF MainList
<1>2. \A i \in 1 .. Len(u) :
        /\ u[i].op \in {"new", "assign", "start"}
        /\ u[i].op = "start" => u[i].part \in {"console", "session"}
  BY <1>0 DEF MainList
<1>3. ASSUME NEW i \in 1 .. Len(u), NEW j \in 1 .. Len(u), i < j, Work(u[j])
      PROVE  /\ Work(u[i]) /\ u[i].part = "session" => u[j].part = "session"
             /\ u[i].op = "start" => u[j].part # u[i].part
  <2>1. /\ i + 1 \in 1 .. Len(s) /\ j + 1 \in 1 .. Len(s) /\ i + 1 < j + 1 /\ Work(s[j + 1])
        /\ u[i].op = s[i + 1].op /\ u[i].part = s[i + 1].part /\ u[j].part = s[j + 1].part
    BY <1>0, <1>3 DEF Work
  <2>2. /\ Work(s[i + 1]) /\ s[i + 1].part = "session" => s[j + 1].part = "session"
        /\ s[i + 1].op = "start" => s[j + 1].part # s[i + 1].part
    BY <2>1 DEF MainList, SessionLast
  <2>. QED BY <2>1, <2>2 DEF Work
<1>. QED BY <1>1, <1>2, <1>3 DEF MainList, SessionLast

\* Main goes on in the constructor of Vezerlo.
LEMMA MainStaysSteady ==
  ASSUME TypeInv, TypeInv', Steady, todo["main"] # <<>>, GoesOn("main"), Others("main"),
         Apt(todo["main"])', Seats',
         \A p \in Parts : AssignsNext(todo'["main"], p) => mSingleton'[p] # 0,
         \A v \in {"console", "session"} : inside[v] # 0 => inside'[v] # 0,
         \A p \in Infos : polling'[p] \subseteq alive'[p],
         \A p \in Parts : There(p)' \/ (WorksOn(todo'["main"], p) /\ ptr'["session"] = 0)
  PROVE  Steady'
<1>1. MainList(todo'["main"])
  <2>1. "main" \in Threads
    BY DEF Threads
  <2>2. /\ todo["main"] \in Seq(Ops) /\ todo'["main"] \in Seq(Ops)
        /\ Follows(todo'["main"], todo["main"]) /\ MainList(todo["main"])
    BY <2>1 DEF TypeInv, Lists, GoesOn, Steady
  <2>. QED BY <2>2, FollowsMainList
<1>2. ASSUME NEW v \in Threads \ {"main"}
      PROVE  Harmless(todo'[v]) /\ (Avoids(todo'[v], "loop") \/ Stays(v)')
  <2>1. todo'[v] = todo[v]
    BY DEF Others
  <2>2. Stays(v) => Stays(v)'
    BY <2>1 DEF Stays
  <2>. QED BY <2>1, <2>2 DEF Steady
<1>. QED BY <1>1, <1>2 DEF Steady

LEMMA MainSteady ==
  ASSUME TypeInv, TypeInv', Steady, Step("main")
  PROVE  Steady'
<1> DEFINE s == todo["main"]
           u == todo'["main"]
<1>0. "main" \in Threads
  BY DEF Threads
<1>1. /\ s # <<>> /\ Head(s) = s[1] /\ s[1].part = part("main")
      /\ s \in Seq(Ops) /\ u \in Seq(Ops) /\ Good(s) /\ Len(s) \in Nat /\ 1 \in 1 .. Len(s)
      /\ s[1].op \in Touching => part("main") \in Parts
      /\ Len(s) >= 1
  BY <1>0, StepHead DEF TypeInv, Lists
<1>2. MainList(s) /\ Apt(s) /\ s[1].op \in {"new", "assign", "start"} /\ Orderly(s) /\ SessionLast(s)
  BY <1>1 DEF Steady, MainList
<1>3. New("main") \/ Assign("main") \/ Start("main")
  <2>1. ~Passes("main")
    BY <1>1, <1>2, Passing DEF PassNames
  <2>. QED BY <2>1, <1>1, <1>2 DEF Step, Passes, Uptime, Save, Clear, Halt, Delete, Unhook,
     CallAbort, End, At
<1> PICK p \in Parts : p = part("main")
  BY <1>1, <1>2 DEF Touching
<1>4. s[1].part = p
  BY <1>1
<1>5. New("main") => mSingleton[part("main")] = 0
  <2>1. s[1].op = "new" => mSingleton[p] = 0
    BY <1>1, <1>2, <1>4 DEF Apt
  <2>. QED BY <2>1, <1>1 DEF New, At
<1>6. GoesOn("main") /\ Others("main")
  <2>1. CASE New("main")
    BY <2>1, <1>0, <1>5, NewMakes
  <2>2. CASE Assign("main") \/ Start("main")
    BY <2>2, <1>0, <1>1, ProceedFollows DEF Assign, Start, Fine, GoesOn
  <2>. QED BY <2>1, <2>2, <1>3
<1>7. Follows(u, s)
  BY <1>6 DEF GoesOn
<1>8. \A q : /\ WorksOn(s, q) /\ ~(Work(s[1]) /\ p = q) => WorksOn(u, q)
  BY <1>1, <1>4, <1>7, FollowsWorks
<1>9. /\ inside \in [{"console", "session"} -> Nat]
      /\ \A v \in {"console", "session"} : inside[v] \in alive[v] \cup {0}
      /\ active \subseteq {"console", "session"} /\ \A v \in active : inside[v] # 0
      /\ \A q \in Infos : polling[q] \subseteq alive[q]
      /\ \A q \in Parts : There(q) \/ (WorksOn(s, q) /\ ptr["session"] = 0)
  BY DEF Steady, Seats
<1>10. /\ ptr \in [Parts -> Nat] /\ alive \in [Parts -> SUBSET Nat] /\ mSingleton \in [Parts -> Nat]
       /\ made \in [Parts -> Nat] /\ polling \in [Infos -> SUBSET Nat]
       /\ \A q \in Parts : 0 \notin alive[q]
       /\ "session" \in Parts /\ "console" \in Parts /\ Infos \subseteq Parts
  BY DEF TypeInv, Objects, Pollers, Parts
<1>. HIDE DEF s, u
<1>11. CASE New("main")
  <2> DEFINE n == made[p] + 1
  <2>1. /\ ptr' = ptr /\ inside' = inside /\ active' = active
        /\ alive' = [alive EXCEPT ![p] = @ \cup {n}]
        /\ mSingleton' = [mSingleton EXCEPT ![p] = n]
        /\ u[1].op = "assign" /\ u[1].part = p
    <3>1. /\ UNCHANGED ptr /\ alive' = [alive EXCEPT ![p] = @ \cup {n}]
          /\ mSingleton' = [mSingleton EXCEPT ![p] = n]
          /\ todo'["main"][1].op = "assign" /\ todo'["main"][1].part = p
      BY <1>0, <1>5, <1>11, NewMakes
    <3>. QED BY <3>1, <1>11 DEF New, u, wires
  <2>2. polling' = IF p \in Infos THEN [polling EXCEPT ![p] = @ \cup {n}] ELSE polling
    BY <1>5, <1>11 DEF New
  <2>3. n # 0 /\ n \in Nat
    BY <1>10
  <2>. HIDE DEF n
  <2>4. Apt(todo["main"])' /\ WorksOn(u, p)
    <3>1. Apt(todo["main"]) /\ Orderly(todo["main"]) /\ p = todo["main"][1].part
      BY <1>2, <1>4 DEF s
    <3>. QED BY <3>1, <1>0, <1>5, <1>11, AptNew DEF u
  <2>5. \A q \in Parts \ {p} : alive'[q] = alive[q] /\ mSingleton'[q] = mSingleton[q]
    BY <2>1, <1>10
  <2>6. alive'[p] = alive[p] \cup {n} /\ mSingleton'[p] = n
    BY <2>1, <1>10
  <2>7. \A q \in Parts : AssignsNext(u, q) => mSingleton'[q] # 0
    BY <2>1, <2>3, <2>6 DEF AssignsNext
  <2>8. \A q \in Parts : alive[q] \subseteq alive'[q]
    BY <2>5, <2>6
  <2>9. Seats'
    BY <2>1, <2>8, <1>9, <1>10 DEF Seats
  <2>10. \A q \in Infos : polling'[q] \subseteq alive'[q]
    <3>1. ASSUME NEW q \in Infos PROVE polling'[q] \subseteq alive'[q]
      <4>1. CASE q = p
        <5>1. polling'[q] = polling[q] \cup {n}
          BY <4>1, <2>2, <1>10
        <5>. QED BY <4>1, <5>1, <2>6, <1>9
      <4>2. CASE q # p
        <5>1. polling'[q] = polling[q]
          BY <4>2, <2>2, <1>10
        <5>. QED BY <4>2, <5>1, <2>8, <1>9, <1>10
      <4>. QED BY <4>1, <4>2
    <3>. QED BY <3>1
  <2>11. ASSUME NEW q \in Parts PROVE There(q)' \/ (WorksOn(u, q) /\ ptr'["session"] = 0)
    <3>1. CASE q = p
      <4>1. ~There(p)
        BY <1>5, <1>11 DEF There
      <4>. QED BY <3>1, <4>1, <2>1, <2>4, <1>9
    <3>2. CASE q # p
      <4>1. There(q) => There(q)'
        BY <3>2, <2>1, <2>5 DEF There
      <4>. QED BY <3>2, <4>1, <2>1, <1>8, <1>9
    <3>. QED BY <3>1, <3>2
  <2>12. /\ todo["main"] # <<>> /\ Seats'
         /\ \A q \in Parts : AssignsNext(todo'["main"], q) => mSingleton'[q] # 0
         /\ \A v \in {"console", "session"} : inside[v] # 0 => inside'[v] # 0
    BY <1>1, <1>9, <2>1, <2>7, <2>9 DEF s, u
  <2>13. \A q \in Parts : There(q)' \/ (WorksOn(todo'["main"], q) /\ ptr'["session"] = 0)
    BY <2>11 DEF u
  <2>. QED BY <2>12, <2>13, <2>4, <2>10, <1>6, MainStaysSteady
<1>12. CASE Assign("main") \/ Start("main")
  <2>1. /\ alive' = alive /\ mSingleton' = mSingleton /\ polling' = polling
        /\ s[1].op \in {"assign", "start"}
    BY <1>1, <1>12 DEF Assign, Start, objects, At, s
  <2>2. \A q \in Parts : ~AssignsNext(u, q)
    BY <2>1, <1>1, <1>2, <1>7, NotAssignedNext
  <2>3. \A q \in Infos : polling'[q] \subseteq alive'[q]
    BY <2>1, <1>9
  <2>4. CASE Assign("main")
    <3>1. /\ ptr' = [ptr EXCEPT ![p] = s[1].object] /\ inside' = inside /\ active' = active
          /\ s[1].op = "assign" /\ Work(s[1])
      BY <1>1, <2>4 DEF Assign, At, s, Work, wires
    <3>2. /\ ptr'[p] = s[1].object /\ \A q \in Parts \ {p} : ptr'[q] = ptr[q]
      BY <3>1, <1>10
    <3>3. s[1].object \in alive[p] /\ mSingleton[p] # 0
      <4>1. s[1].object \in alive[p]
        BY <3>1, <1>1, <1>2, <1>4 DEF Apt
      <4>2. AssignsNext(s, p) => mSingleton[p] # 0
        BY DEF Steady, s
      <4>. QED BY <4>1, <4>2, <3>1, <1>1, <1>4 DEF AssignsNext
    <3>4. There(p)'
      BY <3>2, <3>3, <2>1 DEF There
    <3>5. Apt(todo["main"])'
      <4>1. /\ todo["main"] # <<>> /\ Follows(todo'["main"], todo["main"]) /\ Apt(todo["main"])
            /\ Orderly(todo["main"]) /\ todo["main"][1].op = "assign" /\ p = todo["main"][1].part
            /\ Work(todo["main"][1])
        BY <1>1, <1>2, <1>4, <1>7, <3>1 DEF s, u
      <4>2. \A q \in Parts \ {p} :
              ptr'[q] = ptr[q] /\ alive'[q] = alive[q] /\ mSingleton'[q] = mSingleton[q]
        BY <2>1, <3>2
      <4>. QED BY <4>1, <4>2, <1>0, AptRest
    <3>6. ASSUME NEW q \in Parts PROVE There(q)' \/ (WorksOn(u, q) /\ ptr'["session"] = 0)
      <4>1. CASE q = p
        BY <3>4, <4>1
      <4>2. CASE q # p /\ p # "session"
        <5>1. There(q) => There(q)'
          BY <4>2, <2>1, <3>2 DEF There
        <5>2. ptr'["session"] = ptr["session"]
          BY <4>2, <3>2, <1>10
        <5>. QED BY <4>2, <5>1, <5>2, <1>8, <1>9
      <4>3. CASE q # p /\ p = "session"
        <5>1. ~WorksOn(s, q)
          <6>1. \A i \in 1 .. Len(s) : i = 1 \/ 1 < i
            BY <1>1
          <6>2. \A i \in 1 .. Len(s) : Work(s[i]) => s[i].part = p
            BY <6>1, <4>3, <3>1, <1>1, <1>2, <1>4 DEF SessionLast
          <6>. QED BY <6>2, <4>3 DEF WorksOn
        <5>2. There(q)
          BY <5>1, <1>9
        <5>. QED BY <4>3, <5>2, <2>1, <3>2 DEF There
      <4>. QED BY <4>1, <4>2, <4>3
    <3>7. Seats'
      BY <2>1, <3>1, <1>9 DEF Seats
    <3>8. /\ todo["main"] # <<>> /\ Seats'
          /\ \A q \in Parts : AssignsNext(todo'["main"], q) => mSingleton'[q] # 0
          /\ \A v \in {"console", "session"} : inside[v] # 0 => inside'[v] # 0
      BY <1>1, <1>9, <2>2, <3>1, <3>7 DEF s, u
    <3>9. \A q \in Parts : There(q)' \/ (WorksOn(todo'["main"], q) /\ ptr'["session"] = 0)
      BY <3>6 DEF u
    <3>. QED BY <3>8, <3>9, <3>5, <2>3, <1>6, MainStaysSteady
  <2>5. CASE Start("main")
    <3>1. /\ inside' = [inside EXCEPT ![p] = ptr[p]] /\ ptr' = ptr
          /\ active' = active \cup {p}
          /\ s[1].op = "start" /\ ~Work(s[1])
      BY <1>1, <2>5 DEF Start, At, s, Work, target, objects
    <3>2. There(p)
      <4>1. ~WorksOn(s, p)
        <5>1. \A i \in 1 .. Len(s) : i = 1 \/ 1 < i
          BY <1>1
        <5>2. \A i \in 1 .. Len(s) : Work(s[i]) => s[i].part # p
          BY <5>1, <3>1, <1>1, <1>2, <1>4 DEF SessionLast
        <5>. QED BY <5>2 DEF WorksOn
      <4>. QED BY <4>1, <1>9
    <3>3. ptr[p] \in alive[p] /\ ptr[p] # 0 /\ ptr[p] \in Nat
      BY <3>2, <1>10 DEF There
    <3>4. p \in {"console", "session"}
      BY <3>1, <1>1, <1>2, <1>4 DEF MainList
    <3>5. Seats' /\ \A v \in {"console", "session"} : inside[v] # 0 => inside'[v] # 0
      BY <2>1, <3>1, <3>3, <3>4, <1>9 DEF Seats
    <3>6. Apt(todo["main"])'
      <4>1. /\ todo["main"] # <<>> /\ Follows(todo'["main"], todo["main"]) /\ Apt(todo["main"])
            /\ Orderly(todo["main"]) /\ todo["main"][1].op # "new" /\ p = todo["main"][1].part
            /\ ~Work(todo["main"][1])
        BY <1>1, <1>2, <1>4, <1>7, <3>1 DEF s, u
      <4>2. UNCHANGED <<ptr, alive, mSingleton>>
        BY <2>1, <3>1
      <4>. QED BY <4>1, <4>2, <1>0, AptRest
    <3>7. \A q \in Parts : There(q)' \/ (WorksOn(u, q) /\ ptr'["session"] = 0)
      <4>1. \A q \in Parts : There(q) => There(q)'
        BY <2>1, <3>1 DEF There
      <4>. QED BY <4>1, <3>1, <1>8, <1>9
    <3>8. /\ todo["main"] # <<>> /\ Seats'
          /\ \A q \in Parts : AssignsNext(todo'["main"], q) => mSingleton'[q] # 0
          /\ \A v \in {"console", "session"} : inside[v] # 0 => inside'[v] # 0
      BY <1>1, <2>2, <3>5 DEF s, u
    <3>9. \A q \in Parts : There(q)' \/ (WorksOn(todo'["main"], q) /\ ptr'["session"] = 0)
      BY <3>7 DEF u
    <3>. QED BY <3>8, <3>9, <3>6, <2>3, <1>6, MainStaysSteady
  <2>. QED BY <2>4, <2>5, <1>12
<1>. QED BY <1>3, <1>11, <1>12

-----------------------------------------------------------------------------
(* The invariant of the start-up and of the settled bot                    *)

LEMMA PhaseSettled == Phase = "settled" => ptr["session"] # 0 /\ Running
BY DEF Phase, Running

\* What a step may call undefined.
Excused == undefined' = undefined \/ Undefined(Phase) \/ Undefined("offline") \/ Undefined("torn")

LEMMA ExcusedSafe ==
  ASSUME SafeWhileRunning, Excused, Undefined(Phase) => Phase # "settled"
  PROVE  SafeWhileRunning'
BY DEF Excused, Undefined, SafeWhileRunning

LEMMA StepExcused ==
  ASSUME NEW t, Step(t)
  PROVE  Excused
<1>1. Undefined(Phase) => Excused
  BY DEF Excused
<1>2. ASSUME NEW p, NEW o, OnShutdown(t, p, o) PROVE Excused
  BY <1>2 DEF OnShutdown, Astray, Fine, Excused
<1>3. CASE Stop(t) \/ Disconnect(t)
  BY <1>2, <1>3 DEF Stop, Disconnect
<1>4. CASE Visit(t)
  <2>1. Astray(t, "torn") => Excused
    BY DEF Astray, Excused
  <2>2. Fine(t) => Excused
    BY DEF Fine, Excused
  <2>. QED BY <2>1, <2>2, <1>2, <1>4 DEF Visit
<1>5. CASE Say(t) \/ Loop(t) \/ Delete(t)
  BY <1>1, <1>5 DEF Say, Loop, Delete, Astray, Fine, Excused
<1>6. CASE Empty(t) \/ Bye(t) \/ ConnectMade(t) \/ ConnectFailed(t)
  BY <1>6 DEF Empty, Bye, ConnectMade, ConnectFailed, Fine, Excused
<1>7. CASE \/ Uptime(t) \/ Save(t) \/ Clear(t) \/ Halt(t) \/ Unhook(t) \/ CallAbort(t) \/ End(t)
           \/ New(t) \/ Assign(t) \/ Start(t)
  BY <1>7 DEF Uptime, Save, Clear, Halt, New, Assign, Start, Unhook, CallAbort, End, Fine, Excused
<1>. QED BY <1>3, <1>4, <1>5, <1>6, <1>7 DEF Step

LEMMA StepSafe ==
  ASSUME TypeInv, TypeInv', SafeInv, NEW t \in Threads, Step(t)
  PROVE  SafeInv'
<1>1. Excused
  BY StepExcused
<1>2. (m_running' => m_running) /\ reloaded' = reloaded
  <2>1. CASE Passes(t)
    BY <2>1 DEF Passes, Stop, Visit, Empty, Say, Bye, Loop, ConnectMade, ConnectFailed, Disconnect, counts
  <2>2. CASE ~Passes(t)
    <3>1. \/ Uptime(t) \/ Save(t) \/ Clear(t) \/ Halt(t) \/ Unhook(t) \/ CallAbort(t) \/ End(t)
          \/ Delete(t) \/ New(t) \/ Assign(t) \/ Start(t)
      BY <2>2 DEF Step, Passes
    <3>. QED BY <3>1 DEF Uptime, Save, Clear, Halt, Delete, New, Assign, Start, Unhook, CallAbort,
         End, counts
  <2>. QED BY <2>1, <2>2
<1>3. SafeWhileRunning'
  <2>1. CASE Running /\ ptr["session"] # 0
    <3>1. undefined' = undefined \/ Undefined("offline") \/ Undefined("torn")
      BY <2>1, SteadyDefined DEF SafeInv
    <3>. QED BY <3>1 DEF SafeInv, SafeWhileRunning, Undefined
  <2>2. CASE ~(Running /\ ptr["session"] # 0)
    <3>1. Phase # "settled" /\ SafeWhileRunning
      BY <2>2, PhaseSettled DEF SafeInv
    <3>. QED BY <3>1, <1>1, ExcusedSafe
  <2>. QED BY <2>1, <2>2
<1>4. ASSUME Running' PROVE Steady'
  <2>1. Steady
    BY <1>2, <1>4 DEF Running, SafeInv
  <2>. QED BY <2>1, OthersSteady, MainSteady
<1>. QED BY <1>3, <1>4 DEF SafeInv

LEMMA NextSafe == TypeInv /\ TypeInv' /\ SafeInv /\ [Next]_vars => SafeInv'
<1> SUFFICES ASSUME TypeInv, TypeInv', SafeInv, [Next]_vars PROVE SafeInv'
  OBVIOUS
<1>1. ASSUME NEW t \in Threads, Step(t) PROVE SafeInv'
  BY <1>1, StepSafe
<1>2. ASSUME UNCHANGED <<undefined, m_running, reloaded>>, Running => Steady' PROVE SafeInv'
  BY <1>2 DEF SafeInv, SafeWhileRunning, Running
<1>0. ASSUME Undefined(Phase), ~(Running /\ ptr["session"] # 0) PROVE SafeWhileRunning'
  BY <1>0, PhaseSettled, ExcusedSafe DEF Excused, SafeInv
<1>3. ASSUME NEW t \in Threads \ {"main"}, Running, Others(t),
             UNCHANGED <<ptr, alive, mSingleton, inside, polling, active>>,
             Harmless(todo'[t]), Avoids(todo'[t], "loop") \/ Stays(t)'
      PROVE  Steady'
  <2>1. Seats'
    BY <1>3 DEF SafeInv, Steady, Seats
  <2>. QED BY <2>1, <1>3, SteadyElsewhere DEF SafeInv
<1>12. ASSUME Running, UNCHANGED <<ptr, alive, mSingleton, inside, active, todo>>,
              \A p \in Infos : polling'[p] \subseteq polling[p]
       PROVE  Steady'
  <2>1. /\ "signal" \in Threads \ {"main"} /\ Steady /\ Others("signal")
        /\ todo'["signal"] = todo["signal"]
    BY <1>12 DEF Others, SafeInv, Threads
  <2>2. Seats'
    BY <2>1, <1>12 DEF Steady, Seats
  <2>3. Harmless(todo'["signal"]) /\ (Avoids(todo'["signal"], "loop") \/ Stays("signal")')
    <3>1. ~Stays("signal")
      BY DEF Stays
    <3>. QED BY <2>1, <3>1 DEF Steady
  <2>. QED BY <2>1, <2>2, <2>3, <1>12, SteadyElsewhere
<1>4. ASSUME MainWakes PROVE SafeInv'
  BY <1>2, <1>4 DEF MainWakes, Running, counts
<1>5. ASSUME NEW t \in {"console", "session"}, Command(t) PROVE SafeInv'
  <2>1. /\ t \in Threads \ {"main"} /\ todo[t] = <<>> /\ inside[t] # 0
        /\ UNCHANGED <<ptr, alive, mSingleton, inside, polling, active, undefined, m_running>>
    BY <1>5 DEF Command, Free, Threads, objects, wires
  <2>2. CASE todo' = [todo EXCEPT ![t] = Kikapcs \o <<Do("loop", t)>>] /\ UNCHANGED reloaded
    <3>1. Others(t) /\ todo'[t] = Kikapcs \o <<Do("loop", t)>>
      BY <2>1, <2>2 DEF Others, TypeInv, Lists
    <3>2. Harmless(todo'[t])
      BY <3>1, KikapcsList
    <3>3. Stays(t)'
      BY <2>1, <3>1, KikapcsAvoids DEF Stays
    <3>. QED BY <2>1, <2>2, <3>1, <3>2, <3>3, <1>2, <1>3
  <2>3. CASE reloaded'
    BY <2>1, <2>3 DEF SafeInv, SafeWhileRunning, Running
  <2>4. ASSUME t = "console", UNCHANGED reloaded, NEW cmd \in Lines, NEW s \in ConsoleLine(cmd),
               todo' = [todo EXCEPT ![t] = s \o <<Do("loop", t)>>]
        PROVE  SafeInv'
    <3>1. Others(t) /\ todo'[t] = s \o <<Do("loop", t)>>
      BY <2>1, <2>4 DEF Others, TypeInv, Lists
    <3>2. Harmless(todo'[t])
      BY <3>1, LineList
    <3>3. Stays(t)'
      BY <2>1, <2>4 DEF Stays
    <3>. QED BY <2>1, <2>4, <3>1, <3>2, <3>3, <1>2, <1>3
  <2>. QED BY <2>2, <2>3, <2>4, <1>5 DEF Command
<1>13. ASSUME NEW t \in {"console", "session"}, EmptyText(t) PROVE SafeInv'
  <2>1. UNCHANGED <<ptr, alive, mSingleton, inside, polling, active, todo, undefined, m_running, reloaded>>
    BY <1>13 DEF EmptyText, objects
  <2>. QED BY <2>1, <1>2, <1>12
<1>6. ASSUME Round PROVE SafeInv'
  <2>1. ~Running
    BY <1>6 DEF Round, SafeInv, Steady, Seats
  <2>2. Undefined(Phase) /\ UNCHANGED <<m_running, reloaded>>
    BY <1>6 DEF Round, counts
  <2>. QED BY <2>1, <2>2, <1>0 DEF SafeInv, Running
<1>7. ASSUME Signal PROVE SafeInv'
  <2>1. /\ "signal" \in Threads \ {"main"}
        /\ UNCHANGED <<ptr, alive, mSingleton, inside, polling, active, undefined, m_running, reloaded>>
    BY <1>7 DEF Signal, Threads, objects, wires
  <2>2. CASE UNCHANGED todo
    BY <2>1, <2>2, <1>2, <1>12
  <2>3. CASE todo' = [todo EXCEPT !["signal"] = OnSignal]
    <3>1. Others("signal") /\ todo'["signal"] = OnSignal
      BY <2>1, <2>3 DEF Others, TypeInv, Lists
    <3>2. Harmless(todo'["signal"]) /\ Avoids(todo'["signal"], "loop")
      BY <3>1, HandlerLists, HandlersLoopless
    <3>. QED BY <2>1, <3>1, <3>2, <1>2, <1>3
  <2>. QED BY <2>2, <2>3, <1>7 DEF Signal
<1>8. ASSUME NEW p \in Infos, NEW o \in polling[p], PollerEnds(p, o) PROVE SafeInv'
  <2>1. /\ polling' = [polling EXCEPT ![p] = @ \ {o}]
        /\ UNCHANGED <<ptr, alive, mSingleton, inside, active, todo, undefined, m_running, reloaded>>
    BY <1>8 DEF PollerEnds, objects, counts, wires
  <2>2. \A q \in Infos : polling'[q] \subseteq polling[q]
    BY <2>1 DEF TypeInv, Pollers
  <2>. QED BY <2>1, <2>2, <1>2, <1>12
<1>9. ASSUME NEW p \in Infos, NEW o \in polling[p], PollerAstray(p, o) PROVE SafeInv'
  <2>1. ~Running
    BY <1>9 DEF PollerAstray, SafeInv, Steady
  <2>2. Undefined(Phase) /\ UNCHANGED <<m_running, reloaded>>
    BY <1>9 DEF PollerAstray, counts
  <2>. QED BY <2>1, <2>2, <1>0 DEF SafeInv, Running
<1>10. ASSUME NEW p \in Infos, NEW o \in polling[p], PollerReports(p, o) PROVE SafeInv'
  <2>1. /\ "poller" \in Threads \ {"main"} /\ mSingleton["session"] = 0 /\ Undefined(Phase)
        /\ Fault("poller")
        /\ UNCHANGED <<ptr, alive, mSingleton, inside, polling, active, m_running, reloaded>>
    BY <1>10 DEF PollerReports, Threads, objects, counts, wires
  <2>2. Running => ptr["session"] = 0
    BY <2>1 DEF SafeInv, Steady, There, Parts
  <2>3. SafeWhileRunning'
    BY <2>1, <2>2, <1>0
  <2>4. ASSUME Running PROVE Steady'
    <3>1. CASE UNCHANGED todo
      BY <2>1, <2>4, <3>1, <1>12
    <3>2. CASE todo' = [todo EXCEPT !["poller"] = Segfault]
      <4>1. Others("poller") /\ todo'["poller"] = Segfault
        BY <2>1, <3>2 DEF Others, TypeInv, Lists
      <4>2. Harmless(todo'["poller"]) /\ Avoids(todo'["poller"], "loop")
        BY <4>1, HandlerLists, HandlersLoopless
      <4>. QED BY <2>1, <2>4, <4>1, <4>2, <1>3
    <3>. QED BY <2>1, <3>1, <3>2 DEF Fault
  <2>. QED BY <2>1, <2>3, <2>4 DEF SafeInv, Running
<1>11. CASE UNCHANGED vars
  <2>1. UNCHANGED <<undefined, m_running, reloaded, todo, ptr, alive, mSingleton, inside, polling, active>>
    BY <1>11 DEF vars, objects, counts, wires
  <2>. QED BY <2>1, <1>2, <1>12
<1>. QED BY <1>1, <1>4, <1>5, <1>6, <1>7, <1>8, <1>9, <1>10, <1>11, <1>13 DEF Next

LEMMA InitSafe == Init => SafeInv
<1> SUFFICES ASSUME Init PROVE SafeInv
  OBVIOUS
<1>1. todo["main"] = Vezerlo /\ \A t \in Threads \ {"main"} : todo[t] = <<>> \/ todo[t] = Run
  BY DEF Init, Threads
<1>2. /\ undefined = "no" /\ inside = [t \in {"console", "session"} |-> 0] /\ active = {}
      /\ \A p \in Parts : mSingleton[p] = 0 /\ ptr[p] = 0
      /\ \A p \in Infos : polling[p] = {}
  BY DEF Init
<1>3. /\ Orderly(Vezerlo) /\ SessionLast(Vezerlo) /\ \A p \in Parts : WorksOn(Vezerlo, p)
      /\ \A i \in 1 .. Len(Vezerlo) : /\ Vezerlo[i].op \in {"new", "assign", "start"}
                                      /\ Vezerlo[i].op # "delete" /\ (Vezerlo[i].op = "assign" => i # 1)
                                      /\ Vezerlo[i].op = "start" =>
                                           Vezerlo[i].part \in {"console", "session"}
  BY VezerloList DEF Constructing
<1>4. Good(Vezerlo)
  BY FreshMain DEF Fresh
<1>5. MainList(todo["main"])
  BY <1>1, <1>3 DEF MainList
<1>6. Apt(todo["main"])
  <2>1. \A i \in 1 .. Len(Vezerlo) : Vezerlo[i].op = "new" => mSingleton[Vezerlo[i].part] = 0
    BY <1>2, <1>4 DEF Good, Touching
  <2>. QED BY <2>1, <1>1, <1>3 DEF Apt
<1>7. \A p \in Parts : ~AssignsNext(todo["main"], p)
  <2>1. Len(Vezerlo) >= 1 => 1 \in 1 .. Len(Vezerlo)
    BY <1>4, LenProperties DEF Good
  <2>. QED BY <2>1, <1>1, <1>3 DEF AssignsNext
<1>8. ASSUME NEW t \in Threads \ {"main"} PROVE Harmless(todo[t]) /\ Avoids(todo[t], "loop")
  <2>1. Harmless(Run) /\ Avoids(Run, "loop")
    BY RunOnline, OnlineHarmless DEF Online, Avoids
  <2>2. Harmless(<<>>) /\ Avoids(<<>>, "loop")
    BY DEF Harmless, Avoids
  <2>. QED BY <2>1, <2>2, <1>1
<1>9. Seats /\ \A p \in Infos : polling[p] \subseteq alive[p]
  BY <1>2 DEF Seats
<1>10. \A p \in Parts : WorksOn(todo["main"], p) /\ ptr["session"] = 0
  BY <1>1, <1>2, <1>3 DEF Parts
<1>11. Steady
  BY <1>5, <1>6, <1>7, <1>8, <1>9, <1>10 DEF Steady
<1>. QED BY <1>2, <1>11 DEF SafeInv, SafeWhileRunning

\* Between the end of start-up and the end of a shutdown nothing undefined happens,
\* whatever is commanded, signalled or polled: every object Vezerlo holds exists
\* until main wakes after m_running was cleared. There are three exceptions: a
\* reload, a Disconnect() before there was a connection, which uses a pSocketMgr
\* that was not set, and m_activeThreads changing while a Shutdown() is in its
\* loop (Vezerlo, Singleton, the threads of the Info classes, ThreadPool).
THEOREM SafeUntilShutdown == Spec => []SafeWhileRunning
<1>1. SafeInv => SafeWhileRunning
  BY DEF SafeInv
<1>2. Spec => []TypeInv
  BY InitKeepsTypes, NextKeepsTypes, PTL DEF Spec
<1>3. Spec => []SafeInv
  BY <1>2, InitSafe, NextSafe, PTL DEF Spec
<1>. QED BY <1>1, <1>3, PTL
=============================================================================
