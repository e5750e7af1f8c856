--------------------------- MODULE LifecycleProofs --------------------------
(***************************************************************************)
(* Theorems about Lifecycle, for any number of Info classes, commands,     *)
(* signals and faults.                                                     *)
(***************************************************************************)
EXTENDS Lifecycle, TLAPS, SequenceTheorems

OpNames ==
  {"uptime", "clear", "save", "stop", "halt", "abort", "die", "say", "loop", "start",
   "new", "assign", "delete", "unhook", "return", "visit", "empty", "connect", "disconnect", "bye"}
Ops == [op : OpNames, part : Parts \cup {"none"}, object : Nat]
Touching == {"stop", "delete", "new", "assign", "start"}

\* A list of operations as the code begins it: what touches a part names one,
\* and what `new' returns is taken by the operation behind it.
Good(s) ==
  /\ s \in Seq(Ops)
  /\ \A i \in 1 .. Len(s) :
       /\ s[i].op \in Touching => s[i].part \in Parts
       /\ s[i].op = "new" =>
            i < Len(s) /\ s[i + 1].part = s[i].part /\ s[i + 1].op = "assign"
Fresh(s) == Good(s) /\ \A i \in 1 .. Len(s) : s[i].object = 0

\* Objects a list carries were made.
Bounded(s, m) == \A i \in 1 .. Len(s) : s[i].part \in Parts => s[i].object <= m[s[i].part]

-----------------------------------------------------------------------------
(* The lists the threads begin                                             *)

LEMMA PartsAreStrings ==
  /\ InfoOrder \in Seq(Parts) /\ Order \in Seq(Parts) /\ "none" \notin Parts
<1>1. InfoOrder \in Seq(Infos) /\ Infos \subseteq STRING \ {"console", "session", "all", "none"}
  BY LifecycleAssumption DEF Infos
<1>2. InfoOrder \in Seq(Parts)
  BY <1>1 DEF Parts
<1>3. <<"console", "session">> \in Seq(Parts)
  BY DEF Parts
<1>4. Order \in Seq(Parts)
  BY <1>2, <1>3, ConcatProperties DEF Order
<1>5. "none" \notin Infos
  BY <1>1
<1>6. "none" \notin Parts
  BY <1>5 DEF Parts
<1>. QED BY <1>2, <1>4, <1>6

LEMMA FreshConcat ==
  ASSUME NEW s, NEW u, Fresh(s), Fresh(u)
  PROVE  Fresh(s \o u)
<1>1. s \o u \in Seq(Ops) /\ Len(s \o u) = Len(s) + Len(u)
  BY ConcatProperties DEF Fresh, Good
<1>2. \A i \in 1 .. Len(s \o u) : (s \o u)[i] = IF i <= Len(s) THEN s[i] ELSE u[i - Len(s)]
  BY ConcatProperties DEF Fresh, Good
<1>3. Len(s) \in Nat /\ Len(u) \in Nat
  BY LenProperties DEF Fresh, Good
<1>4. ASSUME NEW i \in 1 .. Len(s \o u)
      PROVE  /\ (s \o u)[i].object = 0
             /\ (s \o u)[i].op \in Touching => (s \o u)[i].part \in Parts
             /\ (s \o u)[i].op = "new" =>
                  /\ i < Len(s \o u) /\ (s \o u)[i + 1].part = (s \o u)[i].part
                  /\ (s \o u)[i + 1].op = "assign"
  <2>1. CASE i <= Len(s)
    <3>1. i \in 1 .. Len(s) /\ (s \o u)[i] = s[i]
      BY <2>1, <1>2, <1>3
    <3>2. s[i].op = "new" => i + 1 <= Len(s) /\ (s \o u)[i + 1] = s[i + 1] /\ i < Len(s \o u)
      BY <3>1, <1>1, <1>2, <1>3 DEF Fresh, Good
    <3>. QED BY <3>1, <3>2 DEF Fresh, Good
  <2>2. CASE i > Len(s)
    <3>1. i - Len(s) \in 1 .. Len(u) /\ (s \o u)[i] = u[i - Len(s)]
      BY <2>2, <1>1, <1>2, <1>3
    <3>2. u[i - Len(s)].op = "new" =>
            i < Len(s \o u) /\ (s \o u)[i + 1] = u[(i - Len(s)) + 1]
      BY <3>1, <2>2, <1>1, <1>2, <1>3 DEF Fresh, Good
    <3>. QED BY <3>1, <3>2 DEF Fresh, Good
  <2>. QED BY <2>1, <2>2, <1>1, <1>3
<1>. QED BY <1>1, <1>4 DEF Fresh, Good

LEMMA FreshOne ==
  ASSUME NEW op \in OpNames, NEW p \in Parts \cup {"none"}, op # "new",
         op \in Touching => p \in Parts
  PROVE  Fresh(<<Do(op, p)>>)
<1>1. Do(op, p) \in Ops /\ Do(op, p).object = 0 /\ Do(op, p).op = op /\ Do(op, p).part = p
  BY DEF Do, Ops
<1>2. <<Do(op, p)>> \in Seq(Ops) /\ Len(<<Do(op, p)>>) = 1 /\ <<Do(op, p)>>[1] = Do(op, p)
  BY <1>1
<1>. QED BY <1>1, <1>2 DEF Fresh, Good

LEMMA FreshEach ==
  ASSUME NEW op \in OpNames, NEW parts \in Seq(Parts), op # "new"
  PROVE  Fresh(Each(op, parts))
<1>1. DOMAIN parts = 1 .. Len(parts) /\ Len(parts) \in Nat
  BY LenProperties
<1>2. \A i \in 1 .. Len(parts) : Do(op, parts[i]) \in Ops /\ parts[i] \in Parts
  BY <1>1 DEF Do, Ops
<1>3. Each(op, parts) \in Seq(Ops) /\ Len(Each(op, parts)) = Len(parts)
  BY <1>1, <1>2 DEF Each
<1>4. \A i \in 1 .. Len(parts) : Each(op, parts)[i] = Do(op, parts[i])
  BY <1>1 DEF Each
<1>5. \A i \in 1 .. Len(parts) :
        /\ Each(op, parts)[i].op = op /\ Each(op, parts)[i].object = 0
        /\ Each(op, parts)[i].part \in Parts
  <2>1. ASSUME NEW p \in Parts
        PROVE  Do(op, p).op = op /\ Do(op, p).object = 0 /\ Do(op, p).part = p
    BY DEF Do
  <2>. QED BY <2>1, <1>2, <1>4
<1>. QED BY <1>3, <1>5 DEF Fresh, Good

LEMMA FreshPairs ==
  ASSUME NEW first \in OpNames, NEW second \in OpNames, NEW parts \in Seq(Parts), second # "new",
         first = "new" => second = "assign"
  PROVE  Fresh(Pairs(first, second, parts))
<1> DEFINE s == Pairs(first, second, parts)
           op(i) == IF i % 2 = 1 THEN first ELSE second
           at(i) == (i + 1) \div 2
<1>1. DOMAIN parts = 1 .. Len(parts) /\ Len(parts) \in Nat
  BY LenProperties
<1>2. \A i \in 1 .. 2 * Len(parts) : at(i) \in 1 .. Len(parts)
  BY <1>1
<1>3. \A i \in 1 .. 2 * Len(parts) : i % 2 = 1 => i < 2 * Len(parts) /\ at(i + 1) = at(i)
  BY <1>1
<1>4. \A i \in 1 .. 2 * Len(parts) : Do(op(i), parts[at(i)]) \in Ops /\ parts[at(i)] \in Parts
  BY <1>1, <1>2 DEF Do, Ops
<1>5. s \in Seq(Ops) /\ Len(s) = 2 * Len(parts)
  <2>1. s = [i \in 1 .. 2 * Len(parts) |-> Do(op(i), parts[at(i)])]
    BY DEF Pairs
  <2>2. s \in [1 .. 2 * Len(parts) -> Ops]
    BY <2>1, <1>4
  <2>. QED BY <2>2, <1>1, LenProperties
<1>6. \A i \in 1 .. 2 * Len(parts) :
        s[i].op = op(i) /\ s[i].part = parts[at(i)] /\ s[i].object = 0
  BY DEF Pairs, Do
<1>7. \A i \in 1 .. 2 * Len(parts) : i % 2 = 1 => op(i) = first /\ op(i + 1) = second
  BY <1>1
<1> HIDE DEF s, op, at
<1>8. ASSUME NEW i \in 1 .. Len(s)
      PROVE  /\ s[i].object = 0
             /\ s[i].op \in Touching => s[i].part \in Parts
             /\ s[i].op = "new" =>
                  i < Len(s) /\ s[i + 1].part = s[i].part /\ s[i + 1].op = "assign"
  <2>1. i \in 1 .. 2 * Len(parts) /\ s[i].part \in Parts /\ s[i].object = 0
    BY <1>4, <1>5, <1>6
  <2>2. CASE s[i].op = "new"
    <3>1. i % 2 = 1
      BY <2>1, <2>2, <1>6 DEF op
    <3>2. i < 2 * Len(parts) /\ at(i + 1) = at(i)
      BY <3>1, <2>1, <1>3
    <3>3. i + 1 \in 1 .. 2 * Len(parts)
      BY <3>2, <2>1, <1>1
    <3>4. op(i) = first /\ op(i + 1) = second
      BY <3>1, <2>1, <1>7
    <3>5. first = "new" /\ second = "assign"
      BY <2>1, <2>2, <3>4, <1>6
    <3>6. s[i + 1].part = s[i].part
      BY <2>1, <3>2, <3>3, <1>6
    <3>7. s[i + 1].op = "assign"
      BY <3>3, <3>4, <3>5, <1>6
    <3>. QED BY <2>1, <3>2, <3>6, <3>7, <1>5
  <2>. QED BY <2>1, <2>2
<1>. QED BY <1>5, <1>8 DEF Fresh, Good, s

LEMMA FreshTwo ==
  ASSUME NEW a \in OpNames \ Touching, NEW b \in OpNames \ Touching,
         NEW p \in Parts \cup {"none"}, NEW q \in Parts \cup {"none"}
  PROVE  Fresh(<<Do(a, p), Do(b, q)>>)
<1> DEFINE s == <<Do(a, p), Do(b, q)>>
<1>1. Do(a, p) \in Ops /\ Do(b, q) \in Ops
  BY DEF Do, Ops
<1>2. s \in Seq(Ops) /\ Len(s) = 2
  BY <1>1
<1>3. \A i \in 1 .. Len(s) : s[i].op \notin Touching /\ s[i].op # "new" /\ s[i].object = 0
  BY <1>2 DEF Do, Touching
<1>. QED BY <1>2, <1>3 DEF Fresh, Good

LEMMA FreshShutdown == Fresh(Shutdown)
<1> DEFINE s == <<Do("visit", "console"), Do("visit", "session"), Do("empty", "none")>>
<1>1. Do("visit", "console") \in Ops /\ Do("visit", "session") \in Ops /\ Do("empty", "none") \in Ops
  BY DEF Do, Ops, OpNames, Parts
<1>2. s \in Seq(Ops) /\ Len(s) = 3
  BY <1>1
<1>3. \A i \in 1 .. Len(s) : s[i].op \in {"visit", "empty"} /\ s[i].object = 0
  BY <1>2 DEF Do
<1>. QED BY <1>2, <1>3 DEF Fresh, Good, Touching, Shutdown

LEMMA FreshLeallas == Fresh(Leallas)
<1>1. Fresh(<<Do("save", "none")>>) /\ Fresh(<<Do("halt", "none")>>)
  BY FreshOne DEF Touching, OpNames
<1>2. Fresh(Each("stop", Order))
  BY FreshEach, PartsAreStrings DEF OpNames
<1>3. Fresh(<<Do("save", "none")>> \o Each("stop", Order) \o Shutdown)
  BY <1>1, <1>2, FreshShutdown, FreshConcat
<1>. QED BY <1>1, <1>3, FreshConcat DEF Leallas

LEMMA FreshHandler == Fresh(Handler)
<1> DEFINE a == <<Do("uptime", "none"), Do("bye", "session"), Do("clear", "none")>>
<1>1. Fresh(a)
  <2>1. Do("uptime", "none") \in Ops /\ Do("bye", "session") \in Ops /\ Do("clear", "none") \in Ops
    BY DEF Do, Ops, OpNames, Parts
  <2>2. a \in Seq(Ops) /\ Len(a) = 3
    BY <2>1
  <2>3. \A i \in 1 .. Len(a) : a[i].op \in {"uptime", "bye", "clear"} /\ a[i].object = 0
    BY <2>2 DEF Do
  <2>. QED BY <2>2, <2>3 DEF Fresh, Good, Touching
<1>2. Fresh(<<Do("abort", "none")>>)
  BY FreshOne DEF Touching, OpNames
<1>. HIDE DEF a
<1>3. Fresh((a \o Leallas) \o <<Do("abort", "none")>>)
  BY <1>1, <1>2, FreshLeallas, FreshConcat
<1>. QED BY <1>3 DEF Handler, a

LEMMA FreshSignals ==
  Fresh(OnSignal) /\ Fresh(OnSignal \o <<Do("die", "none")>>) /\ Fresh(Segfault)
<1>1. Fresh(<<Do("uptime", "none"), Do("clear", "none")>>)
  BY FreshTwo DEF Touching, OpNames
<1>2. Fresh(<<Do("die", "none")>>) /\ Fresh(<<Do("abort", "none")>>)
  BY FreshOne DEF Touching, OpNames
<1>3. Fresh(OnSignal)
  BY <1>1, FreshLeallas, FreshConcat DEF OnSignal
<1>4. Fresh(OnSignal \o <<Do("die", "none")>>)
  BY <1>2, <1>3, FreshConcat
<1>. QED BY <1>2, <1>3, <1>4, FreshHandler DEF Segfault

LEMMA FreshEmpty == Fresh(<<>>)
<1>1. <<>> \in Seq(Ops) /\ Len(<<>>) = 0
  OBVIOUS
<1>. QED BY <1>1 DEF Fresh, Good

LEMMA FreshRun == Fresh(Run)
BY FreshOne DEF Run, Touching, OpNames, Parts

LEMMA FreshReload ==
  ASSUME NEW nev \in Reloads
  PROVE  Fresh(Reload(nev))
<1> DEFINE parts == IF nev = "all" THEN Append(InfoOrder, "console") ELSE <<nev>>
           stop  == IF nev = "all" THEN <<Do("stop", "session")>> ELSE <<>>
<1>1. parts \in Seq(Parts)
  <2>1. Append(InfoOrder, "console") \in Seq(Parts)
    BY PartsAreStrings, AppendProperties DEF Parts
  <2>2. nev # "all" => <<nev>> \in Seq(Parts)
    BY LifecycleAssumption
  <2>. QED BY <2>1, <2>2
<1>2. Fresh(Make(parts)) /\ Fresh(Remove(parts))
  BY <1>1, FreshPairs DEF Make, Remove, OpNames
<1>3. Fresh(stop)
  <2>1. Fresh(<<Do("stop", "session")>>)
    BY FreshOne DEF Touching, OpNames, Parts
  <2>. QED BY <2>1, FreshEmpty
<1>4. Fresh(Remove(parts) \o stop \o Make(parts))
  BY <1>2, <1>3, FreshConcat
<1>5. Reload(nev) = IF nev = "session" THEN <<>> ELSE Remove(parts) \o stop \o Make(parts)
  BY DEF Reload
<1>. QED BY <1>4, <1>5, FreshEmpty

LEMMA FreshLines ==
  ASSUME NEW cmd, NEW s \in ConsoleLine(cmd)
  PROVE  Fresh(s)
<1> DEFINE d == <<Do("disconnect", "session")>>
           c == <<Do("connect", "session")>>
<1>1. Fresh(d) /\ Fresh(c) /\ Fresh(Words)
  BY FreshOne DEF Words, Touching, OpNames, Parts
<1>2. ConsoleLine(cmd) \subseteq
        {c \o Words, d, Words \o d, Words \o d \o (c \o Words), Words \o d \o d}
  BY DEF ConsoleLine, Connects
<1>. HIDE DEF c, d
<1>3. Fresh(c \o Words) /\ Fresh(Words \o d)
  BY <1>1, FreshConcat
<1>4. Fresh(Words \o d \o (c \o Words)) /\ Fresh(Words \o d \o d)
  BY <1>1, <1>3, FreshConcat
<1>. QED BY <1>1, <1>2, <1>3, <1>4

LEMMA FreshCommands ==
  ASSUME NEW t \in {"console", "session"}
  PROVE  /\ Fresh(Kikapcs \o <<Do("loop", t)>>)
         /\ \A nev \in Reloads : Fresh(Reload(nev) \o Answer(t) \o <<Do("loop", t)>>)
         /\ \A cmd \in Lines : \A s \in ConsoleLine(cmd) : Fresh(s \o <<Do("loop", t)>>)
<1>1. Fresh(<<Do("loop", t)>>) /\ Fresh(Words)
  BY FreshOne DEF Words, Touching, OpNames, Parts
<1>2. Fresh(Kikapcs \o <<Do("loop", t)>>)
  BY <1>1, FreshLeallas, FreshConcat DEF Kikapcs
<1>3. Fresh(Answer(t))
  BY <1>1, FreshEmpty DEF Answer
<1>4. ASSUME NEW nev \in Reloads PROVE Fresh(Reload(nev) \o Answer(t) \o <<Do("loop", t)>>)
  <2>1. Fresh(Reload(nev) \o Answer(t))
    BY <1>3, FreshReload, FreshConcat
  <2>. QED BY <1>1, <2>1, FreshConcat
<1>. QED BY <1>1, <1>2, <1>4, FreshLines, FreshConcat

LEMMA FreshMain == Fresh(Vezerlo) /\ Fresh(Teardown)
<1>1. Append(InfoOrder, "console") \in Seq(Parts) /\ <<"session">> \in Seq(Parts)
  BY PartsAreStrings, AppendProperties DEF Parts
<1>2. Fresh(Make(Append(InfoOrder, "console"))) /\ Fresh(Make(<<"session">>))
  BY <1>1, FreshPairs DEF Make, OpNames
<1>3. Fresh(<<Do("start", "console")>>) /\ Fresh(<<Do("start", "session")>>)
  BY FreshOne DEF Touching, OpNames, Parts
<1>4. Fresh(Vezerlo)
  BY <1>2, <1>3, FreshConcat DEF Vezerlo
<1>5. Fresh(<<Do("unhook", "none")>>) /\ Fresh(<<Do("return", "none")>>)
  BY FreshOne DEF Touching, OpNames
<1>6. Fresh(Each("delete", Order))
  BY FreshEach, PartsAreStrings DEF OpNames
<1>. QED BY <1>4, <1>5, <1>6, FreshConcat DEF Teardown

-----------------------------------------------------------------------------
(* What a step does to the lists                                           *)

Lists ==
  /\ todo \in [Threads -> Seq(Ops)]
  /\ \A t \in Threads : Good(todo[t]) /\ Bounded(todo[t], made)

Objects ==
  /\ made \in [Parts -> Nat] /\ ptr \in [Parts -> Nat] /\ mSingleton \in [Parts -> Nat]
  /\ alive \in [Parts -> SUBSET Nat]
  /\ \A p \in Parts : /\ ptr[p] <= made[p] /\ alive[p] \subseteq 1 .. made[p]
                      /\ mSingleton[p] \in alive[p] \cup {0}

Pollers ==
  /\ told \in [Infos -> SUBSET Nat] /\ polling \in [Infos -> SUBSET Nat]
  /\ \A p \in Infos : told[p] \cup polling[p] \subseteq 1 .. made[p]

\* What undefined may come to say, and the steps that make it say so.
Causes == {"startup", "reload", "shutdown", "offline", "torn", "settled"}
Strays == \E c \in Causes : Undefined(c)
Wanders(t) == \E c \in Causes : Astray(t, c)

Rest ==
  /\ faulted \subseteq Threads
  /\ process \in {"running", "ended", "aborted", "killed"}
  /\ undefined \in Causes \cup {"no"}

TypeInv == Objects /\ Pollers /\ Lists /\ Rest

Wires ==
  /\ connected \in BOOLEAN /\ held \in BOOLEAN
  /\ active \subseteq Parts /\ torn \subseteq Threads

Proceeds == \E t \in Threads : todo[t] # <<>> /\ Proceed(t)
Begins == \E t \in Threads : \E s : Fresh(s) /\ todo' = [todo EXCEPT ![t] = s]
ListStep == UNCHANGED todo \/ Proceeds \/ Begins

LEMMA ReadingOps ==
  ASSUME Lists, NEW t \in Threads, todo[t] # <<>>
  PROVE  /\ Head(todo[t]) = todo[t][1] /\ Head(todo[t]) \in Ops /\ Len(todo[t]) \in Nat \ {0}
         /\ Head(todo[t]).op \in Touching => part(t) \in Parts
<1>1. todo[t] \in Seq(Ops) /\ Good(todo[t])
  BY DEF Lists
<1>2. Len(todo[t]) \in Nat /\ Len(todo[t]) # 0
  BY <1>1, LenProperties, EmptySeq
<1>3. Head(todo[t]) = todo[t][1] /\ Head(todo[t]) \in Ops
  BY <1>1, HeadTailProperties
<1>4. 1 \in 1 .. Len(todo[t])
  BY <1>2
<1>. QED BY <1>1, <1>2, <1>3, <1>4 DEF Good, part

LEMMA TailGood ==
  ASSUME NEW s, Good(s), s # <<>>
  PROVE  /\ Good(Tail(s)) /\ Tail(s) \in Seq(Ops) /\ Len(Tail(s)) = Len(s) - 1
         /\ \A i \in 1 .. Len(Tail(s)) : Tail(s)[i] = s[i + 1]
<1>1. s \in Seq(Ops) /\ Len(s) \in Nat /\ Len(s) # 0
  BY LenProperties, EmptySeq DEF Good
<1>2. Tail(s) \in Seq(Ops) /\ Len(Tail(s)) = Len(s) - 1
  BY <1>1, HeadTailProperties
<1>3. \A i \in 1 .. Len(Tail(s)) : Tail(s)[i] = s[i + 1]
  BY <1>1, <1>2, HeadTailProperties
<1>4. ASSUME NEW i \in 1 .. Len(Tail(s))
      PROVE  /\ Tail(s)[i].op \in Touching => Tail(s)[i].part \in Parts
             /\ Tail(s)[i].op = "new" =>
                  /\ i < Len(Tail(s)) /\ Tail(s)[i + 1].part = Tail(s)[i].part
                  /\ Tail(s)[i + 1].op = "assign"
  <2>1. i + 1 \in 1 .. Len(s) /\ Tail(s)[i] = s[i + 1]
    BY <1>1, <1>2, <1>3
  <2>2. i < Len(Tail(s)) => Tail(s)[i + 1] = s[(i + 1) + 1]
    BY <1>1, <1>2, <1>3
  <2>. QED BY <2>1, <2>2, <1>1, <1>2 DEF Good
<1>. QED BY <1>2, <1>3, <1>4 DEF Good

\* However the list of a thread changes, but for `new', the lists stay good.
LEMMA ListsKept ==
  ASSUME Lists, Objects, ListStep, made' \in [Parts -> Nat],
         \A p \in Parts : made[p] <= made'[p]
  PROVE  Lists'
<1> USE DEF Lists
<1>1. \A t \in Threads : \A i \in 1 .. Len(todo[t]) : todo[t][i] \in Ops
  BY LenProperties
<1>2. \A t \in Threads : Bounded(todo[t], made')
  BY <1>1 DEF Bounded, Objects, Ops
<1>3. CASE UNCHANGED todo
  BY <1>2, <1>3
<1>4. CASE Proceeds
  <2>1. PICK t \in Threads : todo[t] # <<>> /\ todo' = [todo EXCEPT ![t] = Tail(todo[t])]
    BY <1>4 DEF Proceeds, Proceed
  <2>2. Good(Tail(todo[t])) /\ Tail(todo[t]) \in Seq(Ops) /\ Len(Tail(todo[t])) = Len(todo[t]) - 1
        /\ \A i \in 1 .. Len(Tail(todo[t])) : Tail(todo[t])[i] = todo[t][i + 1]
    BY <2>1, TailGood
  <2>3. Len(todo[t]) \in Nat
    BY LenProperties
  <2>4. Bounded(Tail(todo[t]), made')
    BY <2>2, <2>3, <1>2 DEF Bounded
  <2>5. \A u \in Threads : todo'[u] = IF u = t THEN Tail(todo[t]) ELSE todo[u]
    BY <2>1
  <2>6. todo' \in [Threads -> Seq(Ops)]
    BY <2>1, <2>2
  <2>. QED BY <2>2, <2>4, <2>5, <2>6, <1>2
<1>5. CASE Begins
  <2>1. PICK t \in Threads : \E s : Fresh(s) /\ todo' = [todo EXCEPT ![t] = s]
    BY <1>5 DEF Begins
  <2>2. PICK s : Fresh(s) /\ todo' = [todo EXCEPT ![t] = s]
    BY <2>1
  <2>3. Good(s) /\ s \in Seq(Ops)
    BY <2>2 DEF Fresh, Good
  <2>4. Bounded(s, made')
    BY <2>2 DEF Fresh, Bounded
  <2>5. \A u \in Threads : todo'[u] = IF u = t THEN s ELSE todo[u]
    BY <2>2
  <2>6. todo' \in [Threads -> Seq(Ops)]
    BY <2>2, <2>3
  <2>. QED BY <2>3, <2>4, <2>5, <2>6, <1>2
<1>. QED BY <1>3, <1>4, <1>5 DEF ListStep

\* The ways an operation ends.
LEMMA Ways ==
  /\ Phase \in Causes /\ (Undefined(Phase) => Strays)
  /\ \A t : Astray(t, Phase) \/ Astray(t, "torn") => Wanders(t)
  /\ \A t, p, o : OnShutdown(t, p, o) => Fine(t) \/ Wanders(t)
<1>1. Phase \in Causes /\ "torn" \in Causes /\ "offline" \in Causes
  BY DEF Phase, Causes
<1>. QED BY <1>1 DEF Strays, Wanders, OnShutdown

\* What the outcome of an operation, a fault and abort() included, may change.
LEMMA OutcomeLists ==
  ASSUME NEW t \in Threads, todo[t] # <<>>,
         Fine(t) \/ Wanders(t) \/ Fault(t) \/ Abort(t) \/ Proceed(t)
  PROVE  ListStep
<1>1. CASE Proceed(t) \/ Fine(t)
  BY <1>1 DEF ListStep, Proceeds, Fine
<1>2. ASSUME Fault(t) PROVE ListStep
  <2>1. UNCHANGED todo \/ todo' = [todo EXCEPT ![t] = Segfault]
    BY <1>2 DEF Fault
  <2>. QED BY <2>1, FreshSignals DEF ListStep, Begins
<1>3. CASE Wanders(t)
  BY <1>2, <1>3 DEF Wanders, Astray, ListStep, Proceeds
<1>4. CASE Abort(t)
  <2>1. UNCHANGED todo \/ todo' = [todo EXCEPT ![t] = OnSignal \o <<Do("die", "none")>>]
    BY <1>4 DEF Abort
  <2>. QED BY <2>1, FreshSignals DEF ListStep, Begins
<1>. QED BY <1>1, <1>2, <1>3, <1>4

LEMMA OutcomeRest ==
  ASSUME Rest, NEW t \in Threads, Fine(t) \/ Wanders(t) \/ Fault(t) \/ Abort(t),
         Strays \/ Fine(t) \/ Wanders(t) \/ UNCHANGED undefined
  PROVE  Rest'
<1>1. Strays \/ UNCHANGED undefined
  BY DEF Fine, Wanders, Strays, Astray
<1>2. \A c \in Causes : Undefined(c) => undefined' \in Causes \cup {"no"}
  BY DEF Undefined, Rest
<1>3. undefined' \in Causes \cup {"no"}
  BY <1>1, <1>2 DEF Strays, Rest
<1>4. Fault(t) \/ Abort(t) \/ UNCHANGED <<process, faulted>>
  BY DEF Fine, Wanders, Astray
<1>5. /\ faulted' \subseteq Threads
      /\ process' \in {"running", "ended", "aborted", "killed"}
  <2>1. CASE Fault(t)
    BY <2>1 DEF Fault, Rest
  <2>2. CASE Abort(t)
    BY <2>2 DEF Abort, Rest
  <2>3. CASE UNCHANGED <<process, faulted>>
    BY <2>3 DEF Rest
  <2>. QED BY <1>4, <2>1, <2>2, <2>3
<1>. QED BY <1>3, <1>5 DEF Rest

LEMMA RestStays ==
  ASSUME Rest, UNCHANGED <<faulted, undefined>>,
         process' \in {process, "ended", "aborted"}
  PROVE  Rest'
BY DEF Rest

LEMMA ObjectsStay ==
  ASSUME Objects, Pollers, UNCHANGED objects
  PROVE  /\ Objects' /\ made' \in [Parts -> Nat] /\ \A p \in Parts : made[p] <= made'[p]
         /\ UNCHANGED <<told, polling>> => Pollers'
<1>1. UNCHANGED <<ptr, mSingleton, made, alive>>
  BY DEF objects
<1>. QED BY <1>1 DEF Objects, Pollers

LEMMA PollersLess ==
  ASSUME Pollers, NEW p \in Infos, NEW o, UNCHANGED <<told, made>>,
         polling' = [polling EXCEPT ![p] = @ \ {o}]
  PROVE  Pollers'
<1>1. polling' \in [Infos -> SUBSET Nat] /\ \A r \in Infos : polling'[r] \subseteq polling[r]
  BY DEF Pollers
<1>. QED BY <1>1 DEF Pollers

-----------------------------------------------------------------------------
(* The operations                                                          *)

Outcome(t) ==
  /\ Fine(t) \/ Wanders(t) \/ Fault(t) \/ Abort(t)
  /\ Strays \/ Fine(t) \/ Wanders(t) \/ UNCHANGED undefined

LEMMA QuietOperation ==
  ASSUME TypeInv, NEW t \in Threads, todo[t] # <<>>, Outcome(t),
         UNCHANGED <<objects, told, polling>>
  PROVE  TypeInv'
<1>1. ListStep /\ Rest'
  BY OutcomeLists, OutcomeRest DEF Outcome, TypeInv
<1>2. Objects' /\ Pollers' /\ Lists'
  BY <1>1, ObjectsStay, ListsKept DEF TypeInv
<1>. QED BY <1>1, <1>2 DEF TypeInv

LEMMA StopKeepsTypes ==
  ASSUME TypeInv, NEW t \in Threads, Stop(t)
  PROVE  TypeInv'
<1>1. todo[t] # <<>> /\ Outcome(t) /\ UNCHANGED <<objects, polling>>
  BY Ways DEF Stop, At, Outcome
<1>2. ListStep /\ Rest' /\ Objects' /\ Lists'
  BY <1>1, OutcomeLists, OutcomeRest, ObjectsStay, ListsKept DEF Outcome, TypeInv
<1>3. part(t) \in Parts
  BY <1>1, ReadingOps DEF Stop, At, Touching, TypeInv
<1>4. ASSUME Usable(t), part(t) \in Infos
      PROVE  target(t) \in 1 .. made[part(t)]
  BY <1>3, <1>4 DEF Usable, TypeInv, Objects
<1>5. told' = told \/ (Usable(t) /\ part(t) \in Infos
                        /\ told' = [told EXCEPT ![part(t)] = @ \cup {target(t)}])
  BY DEF Stop
<1>6. made \in [Parts -> Nat] /\ Infos \subseteq Parts /\ made' = made /\ polling' = polling
  BY <1>1 DEF TypeInv, Objects, Parts, objects
<1>7. Pollers'
  BY <1>4, <1>5, <1>6 DEF TypeInv, Pollers
<1>. QED BY <1>2, <1>7 DEF TypeInv

LEMMA DeleteKeepsTypes ==
  ASSUME TypeInv, NEW t \in Threads, Delete(t)
  PROVE  TypeInv'
<1>1. todo[t] # <<>> /\ Outcome(t) /\ UNCHANGED <<ptr, made, told, polling>>
  BY Ways DEF Delete, At, Outcome
<1>2. ListStep /\ Rest'
  BY <1>1, OutcomeLists, OutcomeRest DEF Outcome, TypeInv
<1>3. made \in [Parts -> Nat] /\ made' = made
  BY <1>1 DEF TypeInv, Objects
<1>4. Lists'
  BY <1>2, <1>3, ListsKept DEF TypeInv
<1>5. /\ alive' = [alive EXCEPT ![part(t)] = @ \ {target(t)}]
      /\ mSingleton' = [mSingleton EXCEPT ![part(t)] = 0]
  BY DEF Delete
<1>6. Objects'
  BY <1>1, <1>5 DEF TypeInv, Objects
<1>7. Pollers'
  BY <1>1 DEF TypeInv, Pollers
<1>. QED BY <1>2, <1>4, <1>6, <1>7 DEF TypeInv

LEMMA AssignKeepsTypes ==
  ASSUME TypeInv, NEW t \in Threads, Assign(t)
  PROVE  TypeInv'
<1>1. todo[t] # <<>> /\ Outcome(t) /\ UNCHANGED <<mSingleton, made, alive, told, polling>>
  BY DEF Assign, At, Outcome
<1>2. ListStep /\ Rest'
  BY <1>1, OutcomeLists, OutcomeRest DEF Outcome, TypeInv
<1>3. made \in [Parts -> Nat] /\ made' = made
  BY <1>1 DEF TypeInv, Objects
<1>4. Lists'
  BY <1>2, <1>3, ListsKept DEF TypeInv
<1>5. /\ part(t) \in Parts /\ Head(todo[t]) = todo[t][1] /\ Head(todo[t]) \in Ops
      /\ 1 \in 1 .. Len(todo[t])
  BY <1>1, ReadingOps DEF Assign, At, Touching, TypeInv
<1>6. Head(todo[t]).object \in Nat /\ Head(todo[t]).object <= made[part(t)]
  BY <1>5 DEF TypeInv, Lists, Bounded, Ops, part
<1>7. ptr' = [ptr EXCEPT ![part(t)] = Head(todo[t]).object]
  BY DEF Assign
<1>8. Objects'
  BY <1>1, <1>5, <1>6, <1>7 DEF TypeInv, Objects
<1>9. Pollers'
  BY <1>1 DEF TypeInv, Pollers
<1>. QED BY <1>2, <1>4, <1>8, <1>9 DEF TypeInv

LEMMA NewKeepsTypes ==
  ASSUME TypeInv, NEW t \in Threads, New(t)
  PROVE  TypeInv'
<1> DEFINE p == part(t)
           n == made[p] + 1
           rest == Tail(todo[t])
           list == [i \in DOMAIN rest |->
                      IF i = 1 THEN [rest[1] EXCEPT !.object = n] ELSE rest[i]]
<1>1. todo[t] # <<>> /\ UNCHANGED <<ptr, told, undefined>> /\ Head(todo[t]).op = "new"
  BY DEF New, At
<1>2. /\ p \in Parts /\ Head(todo[t]) = todo[t][1] /\ Len(todo[t]) \in Nat \ {0}
  BY <1>1, ReadingOps DEF Touching, TypeInv
<1>3. n \in Nat /\ made[p] \in Nat
  BY <1>2 DEF TypeInv, Objects
<1>4. CASE Abort(t) /\ UNCHANGED <<made, alive, mSingleton, polling>>
  <2>1. Outcome(t) /\ UNCHANGED objects
    BY <1>1, <1>4 DEF Outcome, objects
  <2>. QED BY <1>1, <1>4, <2>1, QuietOperation
<1>5. CASE /\ made' = [made EXCEPT ![p] = n]
           /\ alive' = [alive EXCEPT ![p] = @ \cup {n}]
           /\ mSingleton' = [mSingleton EXCEPT ![p] = n]
           /\ polling' = IF p \in Infos THEN [polling EXCEPT ![p] = @ \cup {n}] ELSE polling
           /\ todo' = [todo EXCEPT ![t] = list]
           /\ UNCHANGED <<process, faulted>>
  <2>. HIDE DEF n, p
  <2>1. /\ made' \in [Parts -> Nat] /\ made'[p] = n
        /\ \A r \in Parts : made[r] <= made'[r]
    BY <1>2, <1>3, <1>5 DEF TypeInv, Objects, n
  <2>2. Objects'
    BY <1>1, <1>2, <1>3, <1>5, <2>1 DEF TypeInv, Objects, n
  <2>3. Pollers'
    <3>1. Infos \subseteq Parts
      BY DEF Parts
    <3>2. polling' \in [Infos -> SUBSET Nat]
      BY <1>3, <1>5 DEF TypeInv, Pollers
    <3>3. \A r \in Infos : told[r] \cup polling[r] \subseteq 1 .. made'[r]
      BY <3>1, <2>1 DEF TypeInv, Pollers, Objects
    <3>4. \A r \in Infos : polling'[r] \subseteq polling[r] \cup (IF r = p THEN {n} ELSE {})
      BY <1>5 DEF TypeInv, Pollers
    <3>5. n \in 1 .. made'[p]
      BY <1>2, <1>3, <2>1 DEF TypeInv, Objects, n
    <3>6. \A r \in Infos : told'[r] \cup polling'[r] \subseteq 1 .. made'[r]
      BY <1>1, <3>3, <3>4, <3>5
    <3>. QED BY <1>1, <3>2, <3>6 DEF TypeInv, Pollers
  <2>4. Rest'
    BY <1>1, <1>5 DEF TypeInv, Rest
  <2>5. /\ Good(todo[t]) /\ Good(rest) /\ rest \in Seq(Ops) /\ Len(rest) = Len(todo[t]) - 1
        /\ \A i \in 1 .. Len(rest) : rest[i] = todo[t][i + 1]
    BY <1>1, TailGood DEF TypeInv, Lists
  <2>6. Len(rest) \in Nat /\ DOMAIN rest = 1 .. Len(rest) /\ \A i \in 1 .. Len(rest) : rest[i] \in Ops
    BY <2>5, LenProperties
  <2>7. 1 \in 1 .. Len(rest) /\ rest[1].part = p
    BY <1>1, <1>2, <2>5, <2>6 DEF Good, p, part
  <2>8. [rest[1] EXCEPT !.object = n] \in Ops
    <3>1. ASSUME NEW o \in Ops PROVE [o EXCEPT !.object = n] \in Ops
      BY <1>3 DEF Ops
    <3>. QED BY <2>6, <2>7, <3>1
  <2>9. list \in Seq(Ops) /\ Len(list) = Len(rest)
    <3>1. list \in [1 .. Len(rest) -> Ops]
      BY <2>6, <2>8
    <3>. QED BY <2>6, <3>1, LenProperties
  <2>10. \A i \in 1 .. Len(rest) :
           /\ list[i].op = rest[i].op /\ list[i].part = rest[i].part
           /\ list[i].object = IF i = 1 THEN n ELSE rest[i].object
    <3>1. ASSUME NEW o \in Ops
          PROVE  /\ [o EXCEPT !.object = n].op = o.op /\ [o EXCEPT !.object = n].part = o.part
                 /\ [o EXCEPT !.object = n].object = n
      BY DEF Ops
    <3>2. \A i \in 1 .. Len(rest) :
            list[i] = IF i = 1 THEN [rest[1] EXCEPT !.object = n] ELSE rest[i]
      BY <2>6
    <3>3. [rest[1] EXCEPT !.object = n].op = rest[1].op
          /\ [rest[1] EXCEPT !.object = n].part = rest[1].part
          /\ [rest[1] EXCEPT !.object = n].object = n
      BY <2>6, <2>7, <3>1
    <3>. QED BY <3>2, <3>3
  <2>. HIDE DEF list, rest
  <2>11. Good(list)
    <3>1. \A i \in 1 .. Len(rest) :
            /\ rest[i].op \in Touching => rest[i].part \in Parts
            /\ rest[i].op = "new" =>
                 i < Len(rest) /\ rest[i + 1].part = rest[i].part /\ rest[i + 1].op = "assign"
      BY <2>5 DEF Good
    <3>2. \A i \in 1 .. Len(list) :
            /\ list[i].op \in Touching => list[i].part \in Parts
            /\ list[i].op = "new" =>
                 i < Len(list) /\ list[i + 1].part = list[i].part /\ list[i + 1].op = "assign"
      BY <2>6, <2>9, <2>10, <3>1
    <3>. QED BY <2>9, <3>2 DEF Good
  <2>12. \A u \in Threads : Bounded(todo[u], made')
    <3>1. \A u \in Threads : \A i \in 1 .. Len(todo[u]) : todo[u][i] \in Ops
      BY LenProperties DEF TypeInv, Lists
    <3>2. \A u \in Threads : Bounded(todo[u], made)
      BY DEF TypeInv, Lists
    <3>3. made \in [Parts -> Nat]
      BY DEF TypeInv, Objects
    <3>. QED BY <3>1, <3>2, <3>3, <2>1 DEF Bounded, Ops
  <2>13. Bounded(list, made')
    <3>1. ASSUME NEW i \in 1 .. Len(list), list[i].part \in Parts
          PROVE  list[i].object <= made'[list[i].part]
      <4>1. CASE i = 1
        BY <4>1, <2>1, <2>7, <2>9, <2>10, <1>3
      <4>2. CASE i # 1
        <5>1. list[i].object = rest[i].object /\ list[i].part = rest[i].part
              /\ rest[i] = todo[t][i + 1]
          BY <4>2, <2>5, <2>9, <2>10
        <5>2. i + 1 \in 1 .. Len(todo[t])
          BY <1>2, <2>5, <2>9
        <5>. QED BY <3>1, <5>1, <5>2, <2>12 DEF Bounded
      <4>. QED BY <4>1, <4>2
    <3>. QED BY <3>1 DEF Bounded
  <2>14. todo' \in [Threads -> Seq(Ops)] /\ \A u \in Threads : todo'[u] = IF u = t THEN list ELSE todo[u]
    BY <1>5, <2>9 DEF TypeInv, Lists
  <2>15. Lists'
    BY <2>11, <2>12, <2>13, <2>14 DEF TypeInv, Lists
  <2>. QED BY <2>2, <2>3, <2>4, <2>15 DEF TypeInv
<1>. QED BY <1>4, <1>5 DEF New

LEMMA StepKeepsTypes ==
  ASSUME TypeInv, NEW t \in Threads, Step(t)
  PROVE  TypeInv'
<1>1. ASSUME Uptime(t) \/ Save(t) \/ Clear(t) \/ Halt(t) \/ Start(t) \/ Unhook(t) \/ Empty(t)
             \/ Bye(t) \/ ConnectMade(t) \/ ConnectFailed(t)
      PROVE  TypeInv'
  <2>1. todo[t] # <<>> /\ Fine(t) /\ UNCHANGED <<objects, told, polling>>
    BY <1>1 DEF Uptime, Save, Clear, Halt, Start, Unhook, Empty, Bye, ConnectMade, ConnectFailed, At
  <2>. QED BY <2>1, QuietOperation DEF Outcome
<1>2. ASSUME Say(t) \/ Loop(t) \/ CallAbort(t) \/ Visit(t) \/ Disconnect(t) PROVE TypeInv'
  <2>1. todo[t] # <<>> /\ UNCHANGED <<objects, told, polling>>
    BY <1>2 DEF Say, Loop, CallAbort, Visit, Disconnect, At
  <2>2. Outcome(t)
    BY <1>2, Ways DEF Say, Loop, CallAbort, Visit, Disconnect, Outcome
  <2>. QED BY <2>1, <2>2, QuietOperation
<1>3. ASSUME End(t) PROVE TypeInv'
  <2>1. /\ todo[t] # <<>> /\ Proceed(t) /\ UNCHANGED <<objects, told, polling, faulted, undefined>>
        /\ process' \in {process, "ended", "aborted"}
    BY <1>3 DEF End, At
  <2>2. ListStep /\ Rest'
    BY <2>1, OutcomeLists, RestStays DEF TypeInv
  <2>3. Objects' /\ Pollers' /\ Lists'
    BY <2>1, <2>2, ObjectsStay, ListsKept DEF TypeInv
  <2>. QED BY <2>2, <2>3 DEF TypeInv
<1>. QED BY <1>1, <1>2, <1>3, StopKeepsTypes, DeleteKeepsTypes, NewKeepsTypes, AssignKeepsTypes
        DEF Step

-----------------------------------------------------------------------------
(* What makes a thread begin, and the pollers                              *)

LEMMA BeginningKeepsTypes ==
  ASSUME TypeInv, ListStep, UNCHANGED <<objects, told, polling, faulted, process, undefined>>
  PROVE  TypeInv'
<1>1. Rest'
  BY RestStays DEF TypeInv
<1>2. Objects' /\ Pollers' /\ Lists'
  BY ObjectsStay, ListsKept DEF TypeInv
<1>. QED BY <1>1, <1>2 DEF TypeInv

\* A thread that had nothing to do and meets an object that is gone.
LEMMA IdleFault ==
  ASSUME TypeInv, NEW t \in Threads, Strays, UNCHANGED objects,
         Fault(t) \/ UNCHANGED <<todo, process, faulted>>
  PROVE  Objects' /\ Lists' /\ Rest'
<1>1. ListStep
  <2>1. UNCHANGED todo \/ todo' = [todo EXCEPT ![t] = Segfault]
    BY DEF Fault
  <2>. QED BY <2>1, FreshSignals DEF ListStep, Begins
<1>2. Objects' /\ Lists'
  BY <1>1, ObjectsStay, ListsKept DEF TypeInv
<1>3. CASE Fault(t)
  BY <1>2, <1>3, OutcomeRest DEF TypeInv
<1>4. CASE UNCHANGED <<process, faulted>>
  <2>1. \A c \in Causes : Undefined(c) => undefined' \in Causes \cup {"no"}
    BY DEF TypeInv, Undefined, Rest
  <2>. QED BY <1>2, <1>4, <2>1 DEF TypeInv, Rest, Strays
<1>. QED BY <1>3, <1>4

LEMMA PollerKeepsTypes ==
  ASSUME TypeInv, NEW p \in Infos, NEW o \in polling[p],
         PollerEnds(p, o) \/ PollerAstray(p, o) \/ PollerReports(p, o)
  PROVE  TypeInv'
<1>1. ASSUME PollerEnds(p, o) PROVE TypeInv'
  <2>1. /\ UNCHANGED <<objects, told, todo, process, faulted, undefined>>
        /\ polling' = [polling EXCEPT ![p] = @ \ {o}]
    BY <1>1 DEF PollerEnds
  <2>2. Objects' /\ made' = made /\ Lists' /\ Rest'
    BY <2>1, ObjectsStay, ListsKept, RestStays DEF TypeInv, ListStep, objects
  <2>. QED BY <2>1, <2>2, PollersLess DEF TypeInv
<1>2. ASSUME PollerAstray(p, o) \/ PollerReports(p, o) PROVE TypeInv'
  <2>1. /\ UNCHANGED <<objects, told>> /\ Strays
        /\ Fault("poller") \/ UNCHANGED <<todo, process, faulted>>
        /\ UNCHANGED polling \/ polling' = [polling EXCEPT ![p] = @ \ {o}]
    BY <1>2, Ways DEF PollerAstray, PollerReports
  <2>2. "poller" \in Threads /\ made' = made
    BY <2>1 DEF Threads, objects
  <2>3. Objects' /\ Lists' /\ Rest'
    BY <2>1, <2>2, IdleFault
  <2>4. Pollers'
    <3>1. CASE UNCHANGED polling
      BY <2>1, <3>1, ObjectsStay DEF TypeInv
    <3>2. CASE polling' = [polling EXCEPT ![p] = @ \ {o}]
      BY <2>1, <2>2, <3>2, PollersLess DEF TypeInv
    <3>. QED BY <2>1, <3>1, <3>2
  <2>. QED BY <2>3, <2>4 DEF TypeInv
<1>. QED BY <1>1, <1>2

LEMMA NextKeepsTypes == TypeInv /\ [Next]_vars => TypeInv'
<1> SUFFICES ASSUME TypeInv, [Next]_vars PROVE TypeInv'
  OBVIOUS
<1>1. ASSUME NEW t \in Threads, Step(t) PROVE TypeInv'
  BY <1>1, StepKeepsTypes
<1>2. ASSUME MainWakes PROVE TypeInv'
  <2>1. /\ todo' = [todo EXCEPT !["main"] = Teardown]
        /\ UNCHANGED <<objects, told, polling, faulted, process, undefined>>
    BY <1>2 DEF MainWakes
  <2>2. ListStep
    BY <2>1, FreshMain DEF ListStep, Begins, Threads
  <2>. QED BY <2>1, <2>2, BeginningKeepsTypes
<1>3. ASSUME NEW t \in {"console", "session"}, Command(t) PROVE TypeInv'
  <2>1. UNCHANGED <<objects, told, polling, faulted, process, undefined>>
    BY <1>3 DEF Command
  <2>2. \/ todo' = [todo EXCEPT ![t] = Kikapcs \o <<Do("loop", t)>>]
        \/ \E nev \in Reloads :
             todo' = [todo EXCEPT ![t] = Reload(nev) \o Answer(t) \o <<Do("loop", t)>>]
        \/ \E cmd \in Lines : \E s \in ConsoleLine(cmd) :
             todo' = [todo EXCEPT ![t] = s \o <<Do("loop", t)>>]
    BY <1>3 DEF Command
  <2>3. t \in Threads
    BY DEF Threads
  <2>4. ListStep
    BY <2>2, <2>3, FreshCommands DEF ListStep, Begins
  <2>. QED BY <2>1, <2>4, BeginningKeepsTypes
<1>8. ASSUME NEW t \in {"console", "session"}, EmptyText(t) PROVE TypeInv'
  BY <1>8, BeginningKeepsTypes DEF EmptyText, ListStep
<1>4. ASSUME Round PROVE TypeInv'
  <2>1. /\ Strays /\ UNCHANGED <<objects, told, polling>>
        /\ Fault("session") \/ UNCHANGED <<todo, process, faulted>>
    BY <1>4, Ways DEF Round
  <2>2. Objects' /\ Lists' /\ Rest'
    BY <2>1, IdleFault DEF Threads
  <2>3. Pollers'
    BY <2>1, ObjectsStay DEF TypeInv
  <2>. QED BY <2>2, <2>3 DEF TypeInv
<1>5. ASSUME Signal PROVE TypeInv'
  <2>1. /\ todo' = todo \/ todo' = [todo EXCEPT !["signal"] = OnSignal]
        /\ UNCHANGED <<objects, told, polling, faulted, process, undefined>>
    BY <1>5 DEF Signal
  <2>2. ListStep
    BY <2>1, FreshSignals DEF ListStep, Begins, Threads
  <2>. QED BY <2>1, <2>2, BeginningKeepsTypes
<1>6. ASSUME NEW p \in Infos, NEW o \in polling[p],
             PollerEnds(p, o) \/ PollerAstray(p, o) \/ PollerReports(p, o)
      PROVE  TypeInv'
  BY <1>6, PollerKeepsTypes
<1>7. CASE UNCHANGED vars
  BY <1>7, BeginningKeepsTypes DEF vars, ListStep
<1>. QED BY <1>1, <1>2, <1>3, <1>4, <1>5, <1>6, <1>7, <1>8 DEF Next

\* The session's wires, step by step.
LEMMA NextKeepsWires == TypeInv /\ Wires /\ [Next]_vars => Wires'
<1> SUFFICES ASSUME TypeInv, Wires, [Next]_vars PROVE Wires'
  OBVIOUS
<1>1. ASSUME UNCHANGED wires PROVE Wires'
  BY <1>1 DEF wires, Wires
<1>2. SetChanges => torn' \subseteq Threads
  BY DEF SetChanges, Wires
<1>3. ASSUME NEW t \in Threads, Step(t) PROVE Wires'
  <2>1. CASE Visit(t)
    BY <2>1 DEF Visit, Wires
  <2>2. CASE Empty(t)
    BY <2>2, <1>2 DEF Empty, Wires
  <2>3. CASE Start(t)
    <3>1. part(t) \in Parts
      BY <2>3, ReadingOps DEF Start, At, Touching, TypeInv
    <3>. QED BY <2>3, <3>1, <1>2 DEF Start, Wires
  <2>4. CASE ConnectMade(t)
    BY <2>4, <1>2 DEF ConnectMade, Wires
  <2>5. CASE ConnectFailed(t)
    BY <2>5, <1>2 DEF ConnectFailed, Wires
  <2>6. CASE Uptime(t) \/ Save(t) \/ Clear(t) \/ Stop(t) \/ Halt(t) \/ Delete(t) \/ New(t)
             \/ Assign(t) \/ Disconnect(t) \/ Say(t) \/ Bye(t) \/ Loop(t) \/ Unhook(t)
             \/ CallAbort(t) \/ End(t)
    BY <2>6, <1>1 DEF Uptime, Save, Clear, Stop, Halt, Delete, New, Assign, Disconnect, Say, Bye,
       Loop, Unhook, CallAbort, End
  <2>. QED BY <1>3, <2>1, <2>2, <2>3, <2>4, <2>5, <2>6 DEF Step
<1>4. ASSUME NEW t \in {"console", "session"}, EmptyText(t) PROVE Wires'
  BY <1>4 DEF EmptyText, Wires
<1>5. ASSUME NEW p \in Infos, NEW o \in polling[p], PollerAstray(p, o) PROVE Wires'
  BY <1>5 DEF PollerAstray, Wires
<1>6. ASSUME \/ MainWakes \/ Round \/ Signal \/ UNCHANGED vars
             \/ \E t \in {"console", "session"} : Command(t)
             \/ \E p \in Infos : \E o \in polling[p] : PollerEnds(p, o) \/ PollerReports(p, o)
      PROVE  Wires'
  BY <1>6, <1>1 DEF MainWakes, Round, Signal, vars, Command, PollerEnds, PollerReports
<1>. QED BY <1>3, <1>4, <1>5, <1>6 DEF Next

LEMMA InitKeepsTypes == Init => TypeInv
<1> SUFFICES ASSUME Init PROVE TypeInv
  OBVIOUS
<1>1. Objects /\ Pollers /\ Rest
  BY DEF Init, Objects, Pollers, Rest, Parts
<1>2. Fresh(<<>>) /\ Fresh(Vezerlo) /\ Fresh(Run)
  BY FreshEmpty, FreshMain, FreshRun
<1>3. todo = [t \in Threads |-> IF t = "main" THEN Vezerlo
                               ELSE IF t = "session" THEN Run ELSE <<>>]
  BY DEF Init
<1>4. \A t \in Threads : Fresh(todo[t])
  BY <1>2, <1>3
<1>5. todo \in [Threads -> Seq(Ops)] /\ \A t \in Threads : Good(todo[t])
  BY <1>3, <1>4 DEF Fresh, Good
<1>6. \A t \in Threads : Bounded(todo[t], made)
  BY <1>1, <1>4 DEF Fresh, Bounded, Objects
<1>. QED BY <1>1, <1>5, <1>6 DEF TypeInv, Lists

\* Whatever is deleted while threads use it, once or twice, the singleton of a
\* class is NULL or an object that exists, and what a class's pointer or a
\* thread holds was made (Singleton, Vezerlo).
THEOREM SingletonsExist == Spec => []TypeOK
<1>1. TypeInv /\ Wires => TypeOK
  BY DEF TypeInv, Objects, Pollers, Rest, Causes, Wires, TypeOK
<1>2. Init => Wires
  BY DEF Init, Wires
<1>. QED BY <1>1, <1>2, InitKeepsTypes, NextKeepsTypes, NextKeepsWires, PTL DEF Spec
=============================================================================
