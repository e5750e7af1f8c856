-------------------------- MODULE ConnectionProofs --------------------------
(***************************************************************************)
(* Theorems about Connection, for any number of connections, descriptors,  *)
(* commands and breaks.                                                    *)
(***************************************************************************)
EXTENDS Connection, SequenceTheorems, NaturalsInduction, WellFoundedInduction, TLAPS

-----------------------------------------------------------------------------
(* Least elements, and what the server has taken                           *)

LEMMA LeastOf ==
  ASSUME NEW D, D \subseteq Nat, D # {}
  PROVE  \E i \in D : \A j \in D : i <= j
<1> DEFINE R1 == {ss \in Nat \X Nat : ss[1] < ss[2]}
<1>1. IsWellFoundedOn(R1, Nat)
  BY NatLessThanWellFounded DEF OpToRel
<1>2. \E i \in D : \A j \in D : <<j, i>> \notin R1
  BY <1>1, WFMin, Zenon
<1>3. \A i, j \in Nat : <<j, i>> \notin R1 => i <= j
  OBVIOUS
<1>. HIDE DEF R1
<1>. QED BY <1>2, <1>3

LEMMA TookUnfolds ==
  ASSUME NEW s, NEW lines, Len(lines) \in Nat
  PROVE  /\ ServerTook(s, lines)[0] = s
         /\ \A i \in 1 .. Len(lines) :
              ServerTook(s, lines)[i] = ServerTakes(ServerTook(s, lines)[i - 1], lines[i])
<1> DEFINE Took(g, n) ==
      g = [i \in 0 .. n |-> IF i = 0 THEN s ELSE ServerTakes(g[i - 1], lines[i])]
           bad == {n \in Nat : ~\E g : Took(g, n)}
<1>1. bad = {}
  <2>1. SUFFICES ASSUME bad # {} PROVE FALSE
    OBVIOUS
  <2>2. bad \subseteq Nat
    OBVIOUS
  <2>3. PICK n \in bad : \A m \in bad : n <= m
    <3>. HIDE DEF bad
    <3>. QED BY <2>1, <2>2, LeastOf
  <2>4. n \in Nat /\ ~\E g : Took(g, n)
    OBVIOUS
  <2>5. CASE n = 0
    <3>1. Took([i \in 0 .. 0 |-> s], 0)
      OBVIOUS
    <3>. QED BY <2>4, <2>5, <3>1
  <2>6. CASE n # 0
    <3>1. n - 1 \in Nat /\ n - 1 \notin bad
      <4>1. n - 1 \in Nat /\ ~(n <= n - 1)
        BY <2>4, <2>6
      <4>. HIDE DEF bad
      <4>. QED BY <2>3, <4>1
    <3>2. PICK h : Took(h, n - 1)
      BY <3>1
    <3> DEFINE g == [i \in 0 .. n |-> IF i = n THEN ServerTakes(h[n - 1], lines[n]) ELSE h[i]]
    <3>3. \A i \in 0 .. n - 1 : h[i] = IF i = 0 THEN s ELSE ServerTakes(h[i - 1], lines[i])
      BY <3>2
    <3>4. ASSUME NEW i \in 0 .. n
          PROVE  g[i] = IF i = 0 THEN s ELSE ServerTakes(g[i - 1], lines[i])
      <4>1. CASE i = n
        BY <2>4, <2>6, <4>1
      <4>2. CASE i # n
        <5>1. i \in 0 .. n - 1 /\ g[i] = h[i]
          BY <2>4, <4>2
        <5>2. i # 0 => i - 1 \in 0 .. n /\ i - 1 # n /\ g[i - 1] = h[i - 1]
          BY <2>4, <4>2
        <5>. QED BY <3>3, <5>1, <5>2
      <4>. QED BY <4>1, <4>2
    <3>5. g = [i \in 0 .. n |-> g[i]]
      OBVIOUS
    <3>. HIDE DEF g
    <3>6. Took(g, n)
      BY <3>4, <3>5
    <3>. QED BY <2>4, <3>6
  <2>. QED BY <2>5, <2>6
<1>2. \E g : Took(g, Len(lines))
  BY <1>1
<1>3. ServerTook(s, lines) = CHOOSE g : Took(g, Len(lines))
  BY DEF ServerTook
<1>4. Took(ServerTook(s, lines), Len(lines))
  <2> HIDE DEF Took
  <2>. QED BY <1>2, <1>3
<1>. HIDE DEF bad
<1>5. \A i \in 0 .. Len(lines) : ServerTook(s, lines)[i] =
        IF i = 0 THEN s ELSE ServerTakes(ServerTook(s, lines)[i - 1], lines[i])
  BY <1>4
<1>. QED BY <1>5

\* What holds of the server after some line, and what it keeps with every line
\* that follows, holds after each of these.
LEMMA TookStays ==
  ASSUME NEW s, NEW lines, Len(lines) \in Nat, NEW P, NEW p \in 0 .. Len(lines),
         ServerTook(s, lines)[p] \in P,
         \A i \in p + 1 .. Len(lines) : \A x \in P : ServerTakes(x, lines[i]) \in P
  PROVE  \A i \in p .. Len(lines) : ServerTook(s, lines)[i] \in P
<1> DEFINE bad == {i \in p .. Len(lines) : ServerTook(s, lines)[i] \notin P}
<1>1. CASE bad = {}
  BY <1>1
<1>2. CASE bad # {}
  <2>1. bad \subseteq Nat
    OBVIOUS
  <2>2. PICK n \in bad : \A m \in bad : n <= m
    <3>. HIDE DEF bad
    <3>. QED BY <1>2, <2>1, LeastOf
  <2>3. n \in p .. Len(lines) /\ ServerTook(s, lines)[n] \notin P
    OBVIOUS
  <2>4. n # p
    BY <2>3
  <2>5. n - 1 \in p .. Len(lines) /\ n \in p + 1 .. Len(lines) /\ n \in 1 .. Len(lines)
    BY <2>3, <2>4
  <2>6. ServerTook(s, lines)[n - 1] \in P
    <3>1. ~(n <= n - 1)
      BY <2>3
    <3>. QED BY <2>2, <2>5, <3>1
  <2>7. ServerTook(s, lines)[n] = ServerTakes(ServerTook(s, lines)[n - 1], lines[n])
    BY <2>5, TookUnfolds
  <2>. QED BY <2>3, <2>5, <2>6, <2>7
<1>. QED BY <1>1, <1>2

-----------------------------------------------------------------------------
(* Types                                                                   *)

LEMMA ZeroIsFd == 0 \in Fds /\ MaxFd \in Nat
<1>1. MaxFd \in Nat
  BY ConnectionAssumption
<1>. QED BY <1>1 DEF Fds

LEMMA FunctionIsSeq ==
  ASSUME NEW X, NEW n \in Nat, NEW s \in [1 .. n -> X]
  PROVE  s \in Seq(X) /\ Len(s) = n
OBVIOUS

LEMMA NickFacts ==
  /\ Rotation \in Seq(Nicks) /\ Len(Rotation) = 8
  /\ NickName[1] \in Nicks /\ NoNick \notin Nicks /\ OperNicks \subseteq Nicks
<1> DEFINE X == STRING \cup {FixedNicks[i] : i \in 1 .. 5}
<1>1. NickName \in [1 .. 3 -> STRING] /\ NoNick \notin Nicks
  BY ConnectionAssumption
<1>2. NickName \in [1 .. 3 -> X]
  <2> HIDE DEF X
  <2>1. STRING \subseteq X
    BY DEF X
  <2>. QED BY <1>1, <2>1
<1>3. NickName \in Seq(X) /\ Len(NickName) = 3
  <2> HIDE DEF X
  <2>. QED BY <1>2, FunctionIsSeq
<1>4. FixedNicks \in Seq(X) /\ Len(FixedNicks) = 5
  <2>1. Len(FixedNicks) = 5 /\ FixedNicks = [i \in 1 .. 5 |-> FixedNicks[i]]
    BY DEF FixedNicks
  <2>2. \A i \in 1 .. 5 : FixedNicks[i] \in X
    OBVIOUS
  <2>. HIDE DEF X
  <2>3. FixedNicks \in [1 .. 5 -> X]
    BY <2>1, <2>2
  <2>. QED BY <2>1, <2>3
<1>5. /\ Rotation \in Seq(X) /\ Len(Rotation) = 8
      /\ \A i \in 1 .. 3 : Rotation[i] = NickName[i]
  <2> HIDE DEF X
  <2>1. /\ Rotation \in Seq(X) /\ Len(Rotation) = Len(NickName) + Len(FixedNicks)
        /\ \A i \in 1 .. Len(NickName) + Len(FixedNicks) : Rotation[i] =
             IF i <= Len(NickName) THEN NickName[i] ELSE FixedNicks[i - Len(NickName)]
    BY <1>3, <1>4, ConcatProperties DEF Rotation
  <2>. QED BY <1>3, <1>4, <2>1
<1>. HIDE DEF X
<1>6. DOMAIN Rotation = 1 .. 8 /\ \A i \in 1 .. 8 : Rotation[i] \in Nicks
  BY <1>5, LenProperties DEF Nicks, Range
<1>7. Rotation \in Seq(Nicks)
  <2>1. Rotation \in [1 .. 8 -> X]
    BY <1>5, LenProperties
  <2>2. Rotation \in [1 .. 8 -> Nicks]
    BY <1>6, <2>1
  <2>. QED BY <2>2, FunctionIsSeq
<1>. QED BY <1>1, <1>5, <1>6, <1>7 DEF Nicks

\* The configured nicks and the fixed ones come round.
LEMMA NextNickIsNick == \A nick : NextNick(nick) \in Nicks
<1> SUFFICES ASSUME NEW nick PROVE NextNick(nick) \in Nicks
  OBVIOUS
<1>1. CASE ~\E i \in 1 .. Len(Rotation) : Rotation[i] = nick
  BY <1>1, NickFacts DEF NextNick
<1>2. CASE \E i \in 1 .. Len(Rotation) : Rotation[i] = nick
  <2> DEFINE P(j) == Rotation[j] = nick /\ \A h \in 1 .. j - 1 : Rotation[h] # nick
             D == {i \in 1 .. 8 : Rotation[i] = nick}
  <2>1. D \subseteq Nat /\ D # {}
    BY <1>2, NickFacts
  <2>2. PICK j \in D : \A h \in D : j <= h
    <3>. HIDE DEF D
    <3>. QED BY <2>1, LeastOf
  <2>3. j \in 1 .. 8 /\ P(j)
    BY <2>2
  <2> DEFINE i == CHOOSE x \in 1 .. Len(Rotation) : P(x)
  <2>4. i \in 1 .. Len(Rotation)
    <3>. HIDE DEF P
    <3>. QED BY <2>3, NickFacts
  <2>5. NextNick(nick) = Rotation[(i % Len(Rotation)) + 1]
    BY <1>2 DEF NextNick
  <2>. HIDE DEF i
  <2>6. (i % Len(Rotation)) + 1 \in 1 .. 8
    BY <2>4, NickFacts
  <2>7. Rotation[(i % Len(Rotation)) + 1] \in Nicks
    <3>1. \A k \in 1 .. 8 : Rotation[k] \in Nicks
      BY NickFacts, ElementOfSeq
    <3>. QED BY <3>1, <2>6
  <2>. QED BY <2>5, <2>7
<1>. QED BY <1>1, <1>2

LEMMA ServerTakesSides ==
  ASSUME NEW s \in Sides, NEW line \in BotLines
  PROVE  ServerTakes(s, line) \in Sides
<1>1. /\ Line("433", NoNick) \in ServerLines /\ Line("001", NoNick) \in ServerLines
      /\ Line("432", NoNick) \in ServerLines
  BY DEF Line, ServerLines
<1>2. /\ Append(s.lines, Line("433", NoNick)) \in Seq(ServerLines)
      /\ Append(s.lines, Line("432", NoNick)) \in Seq(ServerLines)
      /\ Append(s.lines, Line("001", NoNick)) \in Seq(ServerLines)
  BY <1>1 DEF Sides
<1>3. Over("closed", s.lines) \in Sides
  BY DEF Over, Sides
<1>4. CASE s.state # "up"
  <2>1. ServerTakes(s, line) = s
    BY <1>4 DEF ServerTakes
  <2>. QED BY <2>1
<1>5. CASE s.state = "up" /\ line.cmd = "NICK"
  BY <1>2, <1>5 DEF ServerTakes, Sides, BotLines
<1>6. CASE s.state = "up" /\ line.cmd = "USER"
  BY <1>2, <1>6 DEF ServerTakes, Sides, BotLines
<1>7. CASE s.state = "up" /\ line.cmd = "QUIT"
  BY <1>3, <1>7 DEF ServerTakes
<1>8. CASE s.state = "up" /\ line.cmd = "PING"
  BY <1>8 DEF ServerTakes
<1>. QED BY <1>4, <1>5, <1>6, <1>7, <1>8 DEF BotLines

LEMMA TookSides ==
  ASSUME NEW s \in Sides, NEW lines \in Seq(BotLines)
  PROVE  \A i \in 0 .. Len(lines) : ServerTook(s, lines)[i] \in Sides
<1>1. Len(lines) \in Nat /\ 0 \in 0 .. Len(lines)
  BY LenProperties
<1>2. ServerTook(s, lines)[0] \in Sides
  BY <1>1, TookUnfolds
<1>3. ASSUME NEW i \in 0 + 1 .. Len(lines), NEW x \in Sides
      PROVE  ServerTakes(x, lines[i]) \in Sides
  <2>1. lines[i] \in BotLines
    BY <1>1
  <2>. QED BY <2>1, ServerTakesSides
<1>. QED BY <1>1, <1>2, <1>3, TookStays

LEMMA TookAllSides ==
  ASSUME NEW s \in Sides, NEW lines \in Seq(BotLines)
  PROVE  ServerTook(s, lines)[Len(lines)] \in Sides
<1>1. Len(lines) \in Nat
  BY LenProperties
<1>2. Len(lines) \in 0 .. Len(lines)
  BY <1>1
<1>. QED BY <1>2, TookSides

\* A line more.
LEMMA OneMore ==
  ASSUME NEW X, NEW s \in Seq(X), NEW x \in X
  PROVE  Append(s, x) \in Seq(X)
BY AppendProperties

LEMMA BotLine ==
  /\ \A nick \in Nicks : Line("NICK", nick) \in BotLines
  /\ \A cmd \in {"NICK", "USER", "PING", "QUIT"} : Line(cmd, NoNick) \in BotLines
BY DEF Line, BotLines

LEMMA InitTypes == Init => TypeOK
<1>. SUFFICES ASSUME Init PROVE TypeOK
  OBVIOUS
<1>1. taken \subseteq Nicks
  BY ConnectionAssumption DEF Init
<1>2. Over("none", <<>>) \in Sides
  <2>1. <<>> \in Seq(ServerLines)
    BY EmptySeq
  <2>. QED BY <2>1 DEF Over, Sides
<1>3. <<>> \in Seq(BotLines) /\ <<>> \in Seq(ServerLines)
  BY EmptySeq
<1>4. srv \in [Conns -> Sides]
  BY <1>2 DEF Init
<1>5. desc \in [Fds -> {Free, Stdin, Made} \cup Conns] /\ m_fd \in Fds
  BY ZeroIsFd DEF Init
<1>6. place \in [Threads -> {"idle", "open", "establish", "close", "remove", "copy", "nick",
                            "user", "loop", "look", "get", "ended"}]
  BY DEF Init
<1>7. copy \in [Threads -> Nicks \cup {NoNick}] /\ mgr \in [Conns -> {"none", "round", "failed"}]
  BY DEF Init
<1>8. /\ command \in Commands \cup {"", "connect"} /\ pSocketMgr \in {0} \cup Conns
      /\ holds \subseteq Conns /\ connState \in {"connected", "registering", "registered"}
      /\ m_NickTarolo \in Nicks /\ crashed \in {"", "wild", "dry"}
      /\ outBuf = <<>> /\ inBuf = <<>>
  BY NickFacts DEF Init
<1>. QED BY <1>1, <1>3, <1>4, <1>5, <1>6, <1>7, <1>8 DEF TypeOK

\* Which descriptor socket() gives.
LEMMA LeastFree ==
  ASSUME TypeOK, {f \in Fds : desc[f] = Free} # {}
  PROVE  LET free == {f \in Fds : desc[f] = Free}
             f == CHOOSE x \in free : \A y \in free : x <= y
         IN f \in Fds /\ desc[f] = Free
<1> DEFINE free == {f \in Fds : desc[f] = Free}
           Q(x) == \A y \in free : x <= y
           f == CHOOSE x \in free : Q(x)
<1>1. free \subseteq Nat
  BY ZeroIsFd DEF Fds
<1>2. \E x \in free : Q(x)
  <2>1. free # {}
    OBVIOUS
  <2>. HIDE DEF free
  <2>. QED BY <1>1, <2>1, LeastOf
<1>3. f \in free
  <2>. HIDE DEF free, Q
  <2>. QED BY <1>2
<1>. QED BY <1>3

LEMMA ConnectTypes ==
  ASSUME TypeOK, NEW t \in Threads, Connect(t)
  PROVE  TypeOK'
<1>. USE DEF TypeOK, Threads, At
<1>1. CASE ConnectOpen(t)
  <2>1. /\ m_fd' \in {-1} \cup Fds /\ desc' \in [Fds -> {Free, Stdin, Made} \cup Conns]
    <3>1. CASE m_fd # 0
      BY <1>1, <3>1 DEF ConnectOpen
    <3>2. CASE m_fd = 0 /\ {f \in Fds : desc[f] = Free} = {}
      BY <1>1, <3>2 DEF ConnectOpen
    <3>3. CASE m_fd = 0 /\ {f \in Fds : desc[f] = Free} # {}
      <4>1. PICK f \in Fds : m_fd' = f /\ desc' = [desc EXCEPT ![f] = Made]
        BY <1>1, <3>3, LeastFree DEF ConnectOpen
      <4>. QED BY <4>1
    <3>. QED BY <3>1, <3>2, <3>3
  <2>2. place' \in [Threads -> {"idle", "open", "establish", "close", "remove", "copy", "nick",
                                "user", "loop", "look", "get", "ended"}]
    BY <1>1 DEF ConnectOpen, Failed
  <2>. QED BY <1>1, <2>1, <2>2 DEF ConnectOpen, sessVars, bufVars, histVars
<1>2. CASE ConnectRefused(t)
  <2>1. 0 \in Fds
    BY ZeroIsFd
  <2>. QED BY <1>2, <2>1 DEF ConnectRefused, Failed, sessVars, bufVars
<1>3. CASE Establish(t)
  <2>1. PICK k \in Conns :
          /\ srv' = [srv EXCEPT ![k].state = "up"]
          /\ desc' = [desc EXCEPT ![m_fd] = k]
          /\ mgr' = [mgr EXCEPT ![k] = "round"]
          /\ holds' = holds \cup {k}
          /\ pSocketMgr' = k
    BY <1>3 DEF Establish
  <2>2. srv' \in [Conns -> Sides]
    <3>1. srv[k] \in Sides
      OBVIOUS
    <3>2. [srv[k] EXCEPT !.state = "up"] \in Sides
      BY <3>1 DEF Sides
    <3>3. srv' = [srv EXCEPT ![k] = [srv[k] EXCEPT !.state = "up"]]
      BY <2>1
    <3>. QED BY <3>2, <3>3
  <2>3. place' \in [Threads -> {"idle", "open", "establish", "close", "remove", "copy", "nick",
                                "user", "loop", "look", "get", "ended"}]
    <3>1. At(t, "loop") \/ At(t, "copy")
      BY <1>3, Zenon DEF Establish
    <3>. QED BY <3>1
  <2>4. /\ desc' \in [Fds -> {Free, Stdin, Made} \cup Conns] /\ holds' \subseteq Conns
        /\ mgr' \in [Conns -> {"none", "round", "failed"}] /\ pSocketMgr' \in Conns
    BY <2>1
  <2>5. connState' \in {"connected", "registering", "registered"}
    BY <1>3 DEF Establish
  <2>. QED BY <1>3, <2>2, <2>3, <2>4, <2>5 DEF Establish, bufVars
<1>. QED BY <1>1, <1>2, <1>3 DEF Connect

LEMMA DisconnectTypes ==
  ASSUME TypeOK, NEW t \in Threads, Disconnect(t)
  PROVE  TypeOK'
<1>. USE DEF TypeOK, Threads, At
<1>1. CASE DisconnectClose(t)
  <2>1. 0 \in Fds
    BY ZeroIsFd
  <2>2. srv' \in [Conns -> Sides]
    <3>1. Over("closed", <<>>) \in Sides
      BY EmptySeq DEF Over, Sides
    <3>. QED BY <1>1, <3>1 DEF DisconnectClose
  <2>3. desc' \in [Fds -> {Free, Stdin, Made} \cup Conns]
    BY <1>1 DEF DisconnectClose
  <2>. QED BY <1>1, <2>1, <2>2, <2>3 DEF DisconnectClose, sessVars, bufVars
<1>2. CASE DisconnectRemove(t)
  BY <1>2 DEF DisconnectRemove, sessVars, bufVars
<1>. QED BY <1>1, <1>2 DEF Disconnect

LEMMA RegisterTypes ==
  ASSUME TypeOK, NEW t \in Threads, Register(t) \/ (t = S /\ (Greet \/ Ping))
  PROVE  TypeOK'
<1>. USE DEF TypeOK, Threads, At
<1>1. \A nick \in Nicks \cup {NoNick}, cmd \in {"NICK", "USER", "PING", "QUIT"} :
        Append(outBuf, Line(cmd, nick)) \in Seq(BotLines)
  <2>. SUFFICES ASSUME NEW nick \in Nicks \cup {NoNick},
                       NEW cmd \in {"NICK", "USER", "PING", "QUIT"}
                PROVE  Append(outBuf, Line(cmd, nick)) \in Seq(BotLines)
    OBVIOUS
  <2>1. Line(cmd, nick) \in BotLines
    BY DEF Line, BotLines
  <2>. QED BY <2>1, OneMore
<1>2. CASE Greet \/ GreetLater(t)
  <2>1. copy' \in [Threads -> Nicks \cup {NoNick}]
    BY <1>2 DEF Greet, GreetLater, S
  <2>2. place' \in [Threads -> {"idle", "open", "establish", "close", "remove", "copy", "nick",
                                "user", "loop", "look", "get", "ended"}]
    BY <1>2 DEF Greet, GreetLater
  <2>. QED BY <1>2, <2>1, <2>2 DEF Greet, GreetLater, sockVars, sessVars, bufVars
<1>3. CASE WriteNick(t)
  <2>1. outBuf' \in Seq(BotLines)
    BY <1>1, <1>3 DEF WriteNick
  <2>. QED BY <1>3, <2>1 DEF WriteNick, sockVars, sessVars
<1>4. CASE WriteUser(t)
  <2>1. outBuf' \in Seq(BotLines)
    BY <1>1, <1>4 DEF WriteUser
  <2>. QED BY <1>4, <2>1 DEF WriteUser, sockVars, S, R, C
<1>5. CASE Ping
  <2>1. outBuf' \in Seq(BotLines)
    BY <1>1, <1>5 DEF Ping
  <2>. QED BY <1>5, <2>1 DEF Ping, threadVars, sockVars, sessVars
<1>. QED BY <1>2, <1>3, <1>4, <1>5 DEF Register

LEMMA LineTypes ==
  ASSUME TypeOK, NEW t \in {S, R}, HasLine(t) \/ GetLine(t) \/ ReConnect
  PROVE  TypeOK'
<1>. USE DEF TypeOK, Threads, At, S, R, C
<1>1. CASE HasLine(t)
  BY <1>1 DEF HasLine, sockVars, sessVars, bufVars
<1>2. CASE GetLine(t)
  <2>1. CASE inBuf = <<>>
    BY <1>2, <2>1 DEF GetLine, sockVars, sessVars
  <2>2. CASE inBuf # <<>>
    <3>1. Head(inBuf) \in ServerLines /\ Tail(inBuf) \in Seq(ServerLines)
      BY <2>2, HeadTailProperties
    <3>2. /\ inBuf' = Tail(inBuf) /\ UNCHANGED crashed
          /\ \/ Head(inBuf).cmd = "433" /\ HandleNickError
             \/ Head(inBuf).cmd = "001" /\ HandleSuccessfulAuth
             \/ Head(inBuf).cmd = "432" /\ HandleUnknown
             \/ Head(inBuf).cmd = "nick" /\ HandleNick(Head(inBuf).nick)
      BY <1>2, <2>2, <3>1 DEF GetLine, ServerLines
    <3>3. Head(inBuf).cmd = "nick" =>
            /\ Head(inBuf).nick \in Nicks
            /\ Append(outBuf, Line("NICK", Head(inBuf).nick)) \in Seq(BotLines)
      <4>1. ASSUME Head(inBuf).cmd = "nick" PROVE Head(inBuf).nick \in Nicks
        BY <3>1, <4>1, NickFacts DEF ServerLines
      <4>2. ASSUME NEW nick \in Nicks PROVE Append(outBuf, Line("NICK", nick)) \in Seq(BotLines)
        BY BotLine, OneMore
      <4>. QED BY <4>1, <4>2
    <3>4. /\ outBuf' \in Seq(BotLines) /\ m_NickTarolo' \in Nicks
          /\ connState' \in {"connected", "registering", "registered"}
      BY <3>2, <3>3, NextNickIsNick DEF HandleNickError, HandleSuccessfulAuth, HandleUnknown,
                                         HandleNick, sessVars
    <3>. QED BY <1>2, <3>1, <3>2, <3>4 DEF GetLine, sockVars
  <2>. QED BY <2>1, <2>2
<1>3. CASE ReConnect
  BY <1>3 DEF ReConnect, sockVars, sessVars, bufVars
<1>. QED BY <1>1, <1>2, <1>3

LEMMA MgrTypes ==
  ASSUME TypeOK, NEW k \in Conns, SocketMgrStep(k)
  PROVE  TypeOK'
<1>. USE DEF TypeOK
<1>0. Current \in Conns \cup {0} /\ (Current # 0 => srv[Current] \in Sides)
  BY DEF Current
<1>1. CASE Write(k)
  <2>1. CASE Up(Current)
    <3>1. Current \in Conns /\ srv[Current] \in Sides
      BY <2>1 DEF Up
    <3>2. ServerTook(srv[Current], outBuf)[Len(outBuf)] \in Sides
      <4>1. outBuf \in Seq(BotLines)
        OBVIOUS
      <4>. QED BY <3>1, <4>1, TookAllSides
    <3>3. <<>> \in Seq(BotLines)
      BY EmptySeq
    <3>. QED BY <1>1, <2>1, <3>1, <3>2, <3>3 DEF Write, threadVars, sessVars
  <2>2. CASE ~Up(Current)
    BY <1>1, <2>2 DEF Write, threadVars, sessVars
  <2>. QED BY <2>1, <2>2
<1>2. CASE Read(k)
  <2>1. CASE Readable
    <3>1. Current \in Conns /\ srv[Current] \in Sides
      BY <1>0, <2>1 DEF Readable
    <3>2. srv[Current].lines \in Seq(ServerLines)
      BY <3>1 DEF Sides
    <3>3. inBuf \o srv[Current].lines \in Seq(ServerLines)
      BY <3>2, ConcatProperties
    <3>4. [srv[Current] EXCEPT !.lines = <<>>] \in Sides
      <4>1. <<>> \in Seq(ServerLines)
        BY EmptySeq
      <4>. QED BY <3>1, <4>1 DEF Sides
    <3>. QED BY <1>2, <2>1, <3>1, <3>3, <3>4 DEF Read, threadVars, sessVars
  <2>2. CASE ~Readable
    BY <1>2, <2>2 DEF Read, threadVars, sessVars
  <2>. QED BY <2>1, <2>2
<1>3. CASE Drop(k)
  <2>1. 0 \in Fds
    BY ZeroIsFd
  <2>. QED BY <1>3, <2>1 DEF Drop, threadVars, sessVars, bufVars
<1>. QED BY <1>1, <1>2, <1>3 DEF SocketMgrStep

LEMMA WorldTypes ==
  ASSUME TypeOK,
         \/ Eat
         \/ \E cmd \in Commands : Type(cmd)
         \/ \E k \in Conns, nick \in OperNicks : OperatorSays(k, nick)
         \/ \E k \in Conns, state \in {"closed", "lost"} : Break(k, state)
  PROVE  TypeOK'
<1>. USE DEF TypeOK
<1>1. CASE Eat
  <2>1. PICK k \in Conns : srv[k].lines # <<>> /\ srv' = [srv EXCEPT ![k].lines = Tail(@)]
    BY <1>1 DEF Eat
  <2>2. Tail(srv[k].lines) \in Seq(ServerLines)
    BY <2>1, HeadTailProperties DEF Sides
  <2>3. [srv[k] EXCEPT !.lines = Tail(@)] \in Sides
    BY <2>2 DEF Sides
  <2>4. srv' = [srv EXCEPT ![k] = [srv[k] EXCEPT !.lines = Tail(@)]]
    BY <2>1
  <2>5. srv' \in [Conns -> Sides]
    BY <2>3, <2>4
  <2>. QED BY <1>1, <2>5 DEF Eat, threadVars, sockVars, sessVars, bufVars
<1>2. CASE \E cmd \in Commands : Type(cmd)
  <2>1. PICK cmd \in Commands : Type(cmd)
    BY <1>2
  <2>2. Append(outBuf, Line("QUIT", NoNick)) \in Seq(BotLines)
    BY BotLine, OneMore
  <2>3. outBuf' \in Seq(BotLines) /\ place' \in [Threads -> {"idle", "open", "establish", "close",
          "remove", "copy", "nick", "user", "loop", "look", "get", "ended"}]
    BY <2>1, <2>2 DEF Type, At
  <2>. QED BY <2>1, <2>3 DEF Type, sockVars, sessVars
<1>3. CASE \E k \in Conns, nick \in OperNicks : OperatorSays(k, nick)
  <2>1. PICK k \in Conns, nick \in OperNicks : OperatorSays(k, nick)
    BY <1>3
  <2>2. Append(srv[k].lines, Line("nick", nick)) \in Seq(ServerLines)
    <3>1. srv[k].lines \in Seq(ServerLines)
      BY DEF Sides
    <3>2. Line("nick", nick) \in ServerLines
      BY DEF Line, ServerLines
    <3>. QED BY <3>1, <3>2, OneMore
  <2>3. [srv[k] EXCEPT !.lines = Append(@, Line("nick", nick))] \in Sides
    BY <2>2 DEF Sides
  <2>4. srv' = [srv EXCEPT ![k] = [srv[k] EXCEPT !.lines = Append(@, Line("nick", nick))]]
    BY <2>1 DEF OperatorSays
  <2>5. srv' \in [Conns -> Sides]
    BY <2>3, <2>4
  <2>. QED BY <2>1, <2>5 DEF OperatorSays, threadVars, sockVars, sessVars, bufVars
<1>4. CASE \E k \in Conns, state \in {"closed", "lost"} : Break(k, state)
  <2>1. PICK k \in Conns, state \in {"closed", "lost"} : Break(k, state)
    BY <1>4
  <2>2. Over(state, IF state = "lost" THEN <<>> ELSE srv[k].lines) \in Sides
    <3>1. <<>> \in Seq(ServerLines) /\ srv[k].lines \in Seq(ServerLines)
      BY EmptySeq DEF Sides
    <3>. QED BY <3>1 DEF Over, Sides
  <2>3. srv' \in [Conns -> Sides]
    BY <2>1, <2>2 DEF Break
  <2>. QED BY <2>1, <2>3 DEF Break, threadVars, sockVars, sessVars, bufVars
<1>. QED BY <1>1, <1>2, <1>3, <1>4

LEMMA NextTypes == TypeOK /\ [Next]_vars => TypeOK'
<1>. SUFFICES ASSUME TypeOK, [Next]_vars PROVE TypeOK'
  OBVIOUS
<1>1. CASE UNCHANGED vars
  BY <1>1 DEF vars, threadVars, sockVars, sessVars, bufVars, TypeOK
<1>2. ASSUME NEW t \in Threads, ThreadStep(t) PROVE TypeOK'
  BY <1>2, ConnectTypes, DisconnectTypes, RegisterTypes, LineTypes DEF ThreadStep, Run, ReConnectStep
<1>. QED BY <1>1, <1>2, MgrTypes, WorldTypes DEF Next

\* Every variable keeps its type; in particular the rotation of nicks never
\* leaves the configured and the fixed ones (HandleNickError), however often the
\* server refuses one, and whatever descriptors are closed and given again.
THEOREM TypeCorrect == Spec => []TypeOK
BY InitTypes, NextTypes, PTL DEF Spec

-----------------------------------------------------------------------------
(* Who serves the socket                                                   *)

LEMMA ServedSteps == TypeOK /\ Served /\ [Next]_vars => Served'
<1>. SUFFICES ASSUME TypeOK, Served, [Next]_vars,
                     m_fd' # 0, Current' # 0, ~crossed'
              PROVE  Current' \in holds'
  BY DEF Served
<1>1. CASE UNCHANGED <<m_fd, desc, holds, crossed>>
  BY <1>1 DEF Served, Current
<1>2. ~crossed \/ UNCHANGED vars
  BY DEF Next, Going
<1>3. ASSUME ~crossed, NEW t \in Threads, ConnectOpen(t)
      PROVE  Current' \in holds'
  <2>1. CASE m_fd # 0
    BY <1>1, <1>3, <2>1 DEF ConnectOpen, Failed, histVars
  <2>2. CASE m_fd = 0 /\ {f \in Fds : desc[f] = Free} = {}
    <3>1. m_fd' = -1
      BY <1>3, <2>2 DEF ConnectOpen
    <3>. QED BY <3>1 DEF Current, Fds
  <2>3. CASE m_fd = 0 /\ {f \in Fds : desc[f] = Free} # {}
    <3>1. PICK f \in Fds : m_fd' = f /\ desc' = [desc EXCEPT ![f] = Made]
      BY <1>3, <2>3, LeastFree DEF ConnectOpen
    <3>2. desc'[m_fd'] = Made
      BY <3>1 DEF TypeOK
    <3>. QED BY <3>2 DEF Current, Made, Conns
  <2>. QED BY <2>1, <2>2, <2>3
<1>4. ASSUME NEW t \in Threads, ConnectRefused(t) PROVE FALSE
  BY <1>4 DEF ConnectRefused
<1>5. ASSUME NEW t \in Threads, Establish(t) PROVE Current' \in holds'
  <2>1. PICK k \in Conns : desc' = [desc EXCEPT ![m_fd] = k] /\ holds' = holds \cup {k}
    BY <1>5 DEF Establish
  <2>2. m_fd' = m_fd /\ m_fd \in Fds
    BY <1>5 DEF Establish
  <2>3. desc'[m_fd'] = k
    BY <2>1, <2>2 DEF TypeOK
  <2>. QED BY <2>1, <2>2, <2>3 DEF Current
<1>6. ASSUME NEW t \in Threads, DisconnectClose(t) PROVE FALSE
  BY <1>6 DEF DisconnectClose
<1>7. ASSUME ~crossed, NEW t \in Threads, DisconnectRemove(t)
      PROVE  Current' \in holds'
  <2>1. m_fd' = m_fd /\ desc' = desc
    BY <1>7 DEF DisconnectRemove
  <2>2. Current' = Current
    BY <2>1 DEF Current
  <2>3. CASE pSocketMgr = 0
    BY <1>1, <1>7, <2>1, <2>3 DEF DisconnectRemove
  <2>4. CASE pSocketMgr # 0
    BY <1>7, <2>2, <2>4 DEF DisconnectRemove
  <2>. QED BY <2>3, <2>4
<1>8. ASSUME NEW t \in Threads,
             \/ Register(t) \/ Greet \/ Ping \/ ReConnect
             \/ HasLine(t) \/ GetLine(t)
      PROVE  UNCHANGED <<m_fd, desc, holds, crossed>>
  BY <1>8 DEF Register, GreetLater, WriteNick, WriteUser, Greet, Ping, ReConnect, HasLine, GetLine,
              sockVars, histVars
<1>9. ASSUME NEW k \in Conns, Write(k) \/ Read(k)
      PROVE  UNCHANGED <<m_fd, desc, holds, crossed>>
  BY <1>9 DEF Write, Read, histVars
<1>10. ASSUME NEW k \in Conns, Drop(k) PROVE FALSE
  BY <1>10 DEF Drop
<1>11. ASSUME \/ Eat
              \/ \E cmd \in Commands : Type(cmd)
              \/ \E k \in Conns, nick \in OperNicks : OperatorSays(k, nick)
              \/ \E k \in Conns, state \in {"closed", "lost"} : Break(k, state)
       PROVE  UNCHANGED <<m_fd, desc, holds, crossed>>
  BY <1>11 DEF Eat, Type, OperatorSays, Break, sockVars, histVars
<1>12. CASE UNCHANGED vars
  BY <1>1, <1>12 DEF vars, sockVars, histVars
<1>13. CASE Next
  <2>1. ~crossed
    BY <1>13 DEF Next, Going
  <2>2. ASSUME NEW t \in Threads, ThreadStep(t) PROVE Current' \in holds'
    <3>1. \/ ConnectOpen(t) \/ ConnectRefused(t) \/ Establish(t)
          \/ DisconnectClose(t) \/ DisconnectRemove(t)
          \/ Register(t) \/ Greet \/ Ping \/ ReConnect \/ HasLine(t) \/ GetLine(t)
      BY <2>2 DEF ThreadStep, Connect, Disconnect, Run, ReConnectStep
    <3>. QED BY <1>1, <1>3, <1>4, <1>5, <1>6, <1>7, <1>8, <2>1, <3>1
  <2>3. ASSUME NEW k \in Conns, SocketMgrStep(k) PROVE Current' \in holds'
    BY <1>1, <1>9, <1>10, <2>3 DEF SocketMgrStep
  <2>. QED BY <1>1, <1>11, <1>13, <2>2, <2>3 DEF Next
<1>. QED BY <1>12, <1>13

\* The connection of the socket is in the m_sockets of the SocketMgr started for
\* it, however the three threads connect and disconnect, as long as no
\* Disconnect has met the Connect of another thread: only Connect makes a
\* descriptor the socket's, with the SocketMgr, and only a RemoveSocket between
\* the two could take it away again, which is what `crossed' records.
THEOREM SocketIsServed == Spec => []Served
<1>1. Init => Served
  BY DEF Init, Served
<1>. QED BY <1>1, InitTypes, NextTypes, ServedSteps, PTL DEF Spec

-----------------------------------------------------------------------------
(* The nick                                                                *)

\* A line that makes the bot send a nick (again).
Asked(lines) == \E i \in 1 .. Len(lines) : lines[i].cmd \in {"433", "nick"}

LastNick(lines, nick) ==
  \E i \in 1 .. Len(lines) :
    /\ lines[i] = Line("NICK", nick)
    /\ \A j \in i + 1 .. Len(lines) : lines[j].cmd # "NICK"
NoNickIn(lines) == \A i \in 1 .. Len(lines) : lines[i].cmd # "NICK"

\* While server and bot may take the bot for another: somebody has to write NICK
\* yet, or a line will make the session do so, or the right NICK is the last one
\* on its way.  A nick that no server takes stays noted.
UnderWay ==
  \/ place[S] \notin {"loop", "get", "nick", "user"}
  \/ place[S] = "nick" \/ (place[S] = "loop" /\ connState = "connected")
  \/ place[C] \in {"copy", "nick"}
  \/ overtaken
  \/ Asked(inBuf) \/ Asked(srv[Current].lines)
  \/ LastNick(outBuf, m_NickTarolo)
  \/ NoNickIn(outBuf) /\ srv[Current].nick = m_NickTarolo
  \/ m_NickTarolo \in Erroneous

\* Out of descriptors.  Only descriptor 0 can be had again, which the code
\* takes for none.
Exhausted == m_fd \in {0, -1} /\ \A f \in Fds \ {0} : desc[f] # Free

\* A connection has one descriptor.
DescInv ==
  /\ \A f \in Fds : desc[f] \in Conns => srv[desc[f]].state # "none"
  /\ \A f, g \in Fds : desc[f] \in Conns /\ desc[f] = desc[g] => f = g

NickMain ==
  /\ place[R] = "idle" /\ m_fd # -1
  /\ place[S] \in {"open", "establish"} => connState = "connected"
  /\ m_fd # 0 /\ Up(Current) => UnderWay

NickInv == Exhausted \/ NickMain

LEMMA AskedAppend ==
  ASSUME NEW X, NEW q \in Seq(X), NEW x \in X, Asked(q) \/ x.cmd \in {"433", "nick"}
  PROVE  Asked(Append(q, x))
<1>1. /\ Len(q) \in Nat /\ Len(Append(q, x)) = Len(q) + 1 /\ Append(q, x)[Len(q) + 1] = x
      /\ \A i \in 1 .. Len(q) : Append(q, x)[i] = q[i]
  BY AppendProperties, LenProperties
<1>. QED BY <1>1 DEF Asked

LEMMA AskedConcat ==
  ASSUME NEW X, NEW q \in Seq(X), NEW r \in Seq(X), Asked(q) \/ Asked(r)
  PROVE  Asked(q \o r)
<1>1. /\ Len(q) \in Nat /\ Len(r) \in Nat /\ Len(q \o r) = Len(q) + Len(r)
      /\ \A i \in 1 .. Len(q) + Len(r) :
           (q \o r)[i] = IF i <= Len(q) THEN q[i] ELSE r[i - Len(q)]
  BY ConcatProperties, LenProperties
<1>2. CASE Asked(q)
  <2>1. PICK i \in 1 .. Len(q) : q[i].cmd \in {"433", "nick"}
    BY <1>2 DEF Asked
  <2>. QED BY <1>1, <2>1 DEF Asked
<1>3. CASE Asked(r)
  <2>1. PICK i \in 1 .. Len(r) : r[i].cmd \in {"433", "nick"}
    BY <1>3 DEF Asked
  <2>2. /\ i + Len(q) \in 1 .. Len(q) + Len(r) /\ ~(i + Len(q) <= Len(q))
        /\ (i + Len(q)) - Len(q) = i
    BY <1>1, <2>1
  <2>. QED BY <1>1, <2>1, <2>2 DEF Asked
<1>. QED BY <1>2, <1>3

LEMMA AskedTail ==
  ASSUME NEW X, NEW q \in Seq(X), q # <<>>, Asked(q), Head(q).cmd \notin {"433", "nick"}
  PROVE  Asked(Tail(q))
<1>1. /\ Len(q) \in Nat /\ Len(q) > 0 /\ Head(q) = q[1] /\ Len(Tail(q)) = Len(q) - 1
      /\ \A i \in 1 .. Len(q) - 1 : Tail(q)[i] = q[i + 1]
  BY HeadTailProperties, LenProperties, EmptySeq
<1>2. PICK i \in 1 .. Len(q) : q[i].cmd \in {"433", "nick"}
  BY DEF Asked
<1>3. i # 1
  BY <1>1, <1>2
<1>4. i - 1 \in 1 .. Len(q) - 1 /\ (i - 1) + 1 = i
  BY <1>1, <1>3
<1>. QED BY <1>1, <1>2, <1>4 DEF Asked

LEMMA NickAppend ==
  ASSUME NEW X, NEW q \in Seq(X), NEW x \in X
  PROVE  /\ \A nick : x.cmd # "NICK" /\ LastNick(q, nick) => LastNick(Append(q, x), nick)
         /\ x.cmd # "NICK" /\ NoNickIn(q) => NoNickIn(Append(q, x))
         /\ \A nick : x = Line("NICK", nick) => LastNick(Append(q, x), nick)
<1>1. /\ Len(q) \in Nat /\ Len(Append(q, x)) = Len(q) + 1 /\ Append(q, x)[Len(q) + 1] = x
      /\ \A i \in 1 .. Len(q) : Append(q, x)[i] = q[i]
  BY AppendProperties, LenProperties
<1>2. ASSUME NEW nick, x.cmd # "NICK", LastNick(q, nick) PROVE LastNick(Append(q, x), nick)
  <2>1. PICK i \in 1 .. Len(q) : /\ q[i] = Line("NICK", nick)
                                 /\ \A j \in i + 1 .. Len(q) : q[j].cmd # "NICK"
    BY <1>2 DEF LastNick
  <2>2. i \in 1 .. Len(q) + 1 /\ Append(q, x)[i] = Line("NICK", nick)
    BY <1>1, <2>1
  <2>3. ASSUME NEW j \in i + 1 .. Len(q) + 1 PROVE Append(q, x)[j].cmd # "NICK"
    <3>1. CASE j = Len(q) + 1
      BY <1>1, <1>2, <3>1
    <3>2. CASE j # Len(q) + 1
      <4>1. j \in i + 1 .. Len(q) /\ j \in 1 .. Len(q)
        BY <1>1, <3>2
      <4>. QED BY <1>1, <2>1, <4>1
    <3>. QED BY <3>1, <3>2
  <2>. QED BY <1>1, <2>2, <2>3 DEF LastNick
<1>3. ASSUME x.cmd # "NICK", NoNickIn(q) PROVE NoNickIn(Append(q, x))
  <2>1. ASSUME NEW j \in 1 .. Len(q) + 1 PROVE Append(q, x)[j].cmd # "NICK"
    <3>1. CASE j = Len(q) + 1
      BY <1>1, <1>3, <3>1
    <3>2. CASE j # Len(q) + 1
      <4>1. j \in 1 .. Len(q)
        BY <1>1, <3>2
      <4>. QED BY <1>1, <1>3, <4>1 DEF NoNickIn
    <3>. QED BY <3>1, <3>2
  <2>. QED BY <1>1, <2>1 DEF NoNickIn
<1>4. ASSUME NEW nick, x = Line("NICK", nick) PROVE LastNick(Append(q, x), nick)
  <2>1. \A j \in (Len(q) + 1) + 1 .. Len(q) + 1 : FALSE
    BY <1>1
  <2>2. Len(q) + 1 \in 1 .. Len(q) + 1
    BY <1>1
  <2>. QED BY <1>1, <1>4, <2>1, <2>2 DEF LastNick
<1>. QED BY <1>2, <1>3, <1>4

-----------------------------------------------------------------------------
(* A send, and the nick                                                    *)

MadeSides == {s \in Sides : s.state # "none"}
AskedSides == {s \in Sides : Asked(s.lines)}
RightSides(nick) ==
  {s \in Sides : nick \in Erroneous \/ s.state # "up" \/ s.nick = nick \/ Asked(s.lines)}

LEMMA TakesMade ==
  ASSUME NEW s \in MadeSides, NEW line \in BotLines
  PROVE  ServerTakes(s, line) \in MadeSides
<1>1. s \in Sides /\ s.state # "none" /\ ServerTakes(s, line) \in Sides
  BY ServerTakesSides DEF MadeSides
<1>2. CASE s.state # "up"
  BY <1>1, <1>2 DEF ServerTakes, MadeSides
<1>3. CASE s.state = "up" /\ line.cmd = "NICK"
  BY <1>1, <1>3 DEF ServerTakes, MadeSides, Sides
<1>4. CASE s.state = "up" /\ line.cmd = "USER"
  BY <1>1, <1>4 DEF ServerTakes, MadeSides, Sides
<1>5. CASE s.state = "up" /\ line.cmd = "QUIT"
  BY <1>1, <1>5 DEF ServerTakes, MadeSides, Over
<1>6. CASE s.state = "up" /\ line.cmd = "PING"
  BY <1>1, <1>6 DEF ServerTakes, MadeSides
<1>. QED BY <1>2, <1>3, <1>4, <1>5, <1>6 DEF BotLines

\* The server's answers stay to be read.
LEMMA TakesAsked ==
  ASSUME NEW s \in AskedSides, NEW line \in BotLines
  PROVE  ServerTakes(s, line) \in AskedSides
<1>1. s \in Sides /\ Asked(s.lines) /\ ServerTakes(s, line) \in Sides
  BY ServerTakesSides DEF AskedSides
<1>2. /\ Line("433", NoNick) \in ServerLines /\ Line("001", NoNick) \in ServerLines
      /\ Line("432", NoNick) \in ServerLines
  BY DEF Line, ServerLines
<1>3. /\ Asked(Append(s.lines, Line("433", NoNick)))
      /\ Asked(Append(s.lines, Line("432", NoNick)))
      /\ Asked(Append(s.lines, Line("001", NoNick)))
  <2>1. s.lines \in Seq(ServerLines)
    BY <1>1 DEF Sides
  <2>. QED BY <1>1, <1>2, <2>1, AskedAppend
<1>4. CASE s.state # "up"
  BY <1>1, <1>4 DEF ServerTakes, AskedSides
<1>5. CASE s.state = "up" /\ line.cmd = "NICK"
  BY <1>1, <1>3, <1>5 DEF ServerTakes, AskedSides, Sides
<1>6. CASE s.state = "up" /\ line.cmd = "USER"
  BY <1>1, <1>3, <1>6 DEF ServerTakes, AskedSides, Sides
<1>7. CASE s.state = "up" /\ line.cmd = "QUIT"
  BY <1>1, <1>7 DEF ServerTakes, AskedSides, Over
<1>8. CASE s.state = "up" /\ line.cmd = "PING"
  BY <1>1, <1>8 DEF ServerTakes, AskedSides
<1>. QED BY <1>4, <1>5, <1>6, <1>7, <1>8 DEF BotLines

\* A NICK is accepted or refused, and other lines change nothing of that.
LEMMA TakesRight ==
  ASSUME NEW nick, NEW s \in Sides, NEW line \in BotLines,
         line = Line("NICK", nick) \/ (line.cmd # "NICK" /\ s \in RightSides(nick))
  PROVE  ServerTakes(s, line) \in RightSides(nick)
<1>1. ServerTakes(s, line) \in Sides /\ s.lines \in Seq(ServerLines)
  BY ServerTakesSides DEF Sides
<1>2. CASE Asked(s.lines)
  BY <1>2, TakesAsked DEF AskedSides, RightSides
<1>3. CASE s.state # "up"
  BY <1>1, <1>3 DEF ServerTakes, RightSides
<1>4. CASE s.state = "up" /\ line = Line("NICK", nick)
  <2>1. line.cmd = "NICK" /\ line.nick = nick
    BY <1>4 DEF Line
  <2>2. Line("433", NoNick) \in ServerLines /\ Line("433", NoNick).cmd = "433"
    BY DEF Line, ServerLines
  <2>3. Asked(Append(s.lines, Line("433", NoNick)))
    BY <1>1, <2>2, AskedAppend
  <2>4. CASE nick \in taken
    BY <1>1, <1>4, <2>1, <2>3, <2>4 DEF ServerTakes, RightSides, Sides
  <2>5. CASE nick \notin taken
    BY <1>1, <1>4, <2>1, <2>5 DEF ServerTakes, RightSides, Sides
  <2>. QED BY <2>4, <2>5
<1>6. CASE nick \in Erroneous
  BY <1>1, <1>6 DEF RightSides
<1>5. CASE s.state = "up" /\ line.cmd # "NICK" /\ s.nick = nick
  <2>1. CASE line.cmd = "USER"
    BY <1>1, <1>5, <2>1 DEF ServerTakes, RightSides, Sides
  <2>2. CASE line.cmd = "QUIT"
    BY <1>1, <1>5, <2>2 DEF ServerTakes, RightSides, Over
  <2>3. CASE line.cmd = "PING"
    BY <1>1, <1>5, <2>3 DEF ServerTakes, RightSides
  <2>. QED BY <1>5, <2>1, <2>2, <2>3 DEF BotLines
<1>. QED BY <1>2, <1>3, <1>4, <1>5, <1>6 DEF RightSides

\* After a send whose last NICK is the right one, or without a NICK if the server
\* had the right one, the server has it or has refused it.
LEMMA SendTellsNick ==
  ASSUME NEW s \in Sides, NEW lines \in Seq(BotLines)
  PROVE  LET last == ServerTook(s, lines)[Len(lines)] IN
         /\ s.state # "none" => last.state # "none"
         /\ Asked(s.lines) => Asked(last.lines)
         /\ \A nick : LastNick(lines, nick) \/ (NoNickIn(lines) /\ s.nick = nick)
                        => last \in RightSides(nick)
<1> DEFINE last == ServerTook(s, lines)[Len(lines)]
<1>1. Len(lines) \in Nat /\ 0 \in 0 .. Len(lines) /\ ServerTook(s, lines)[0] = s
  BY LenProperties, TookUnfolds
<1>2. \A i \in 1 .. Len(lines) : lines[i] \in BotLines
  OBVIOUS
<1>3. ASSUME s.state # "none" PROVE last.state # "none"
  <2>1. ServerTook(s, lines)[0] \in MadeSides
    BY <1>1, <1>3 DEF MadeSides
  <2>2. \A i \in 0 + 1 .. Len(lines) : \A x \in MadeSides : ServerTakes(x, lines[i]) \in MadeSides
    BY <1>2, TakesMade
  <2>3. last \in MadeSides
    BY <1>1, <2>1, <2>2, TookStays
  <2>. QED BY <2>3 DEF MadeSides
<1>4. ASSUME Asked(s.lines) PROVE Asked(last.lines)
  <2>1. ServerTook(s, lines)[0] \in AskedSides
    BY <1>1, <1>4 DEF AskedSides
  <2>2. \A i \in 0 + 1 .. Len(lines) : \A x \in AskedSides : ServerTakes(x, lines[i]) \in AskedSides
    BY <1>2, TakesAsked
  <2>3. last \in AskedSides
    BY <1>1, <2>1, <2>2, TookStays
  <2>. QED BY <2>3 DEF AskedSides
<1>5. ASSUME NEW nick, NEW p \in 0 .. Len(lines), ServerTook(s, lines)[p] \in RightSides(nick),
             \A i \in p + 1 .. Len(lines) : lines[i].cmd # "NICK"
      PROVE  last \in RightSides(nick)
  <2>1. ASSUME NEW i \in p + 1 .. Len(lines), NEW x \in RightSides(nick)
        PROVE  ServerTakes(x, lines[i]) \in RightSides(nick)
    <3>1. i \in 1 .. Len(lines)
      BY <1>1
    <3>2. lines[i] \in BotLines /\ lines[i].cmd # "NICK" /\ x \in Sides
      BY <1>2, <1>5, <3>1 DEF RightSides
    <3>. QED BY <3>2, TakesRight
  <2>. QED BY <1>1, <1>5, <2>1, TookStays
<1>6. ASSUME NEW nick, NoNickIn(lines), s.nick = nick PROVE last \in RightSides(nick)
  <2>1. ServerTook(s, lines)[0] \in RightSides(nick)
    BY <1>1, <1>6 DEF RightSides
  <2>2. \A i \in 0 + 1 .. Len(lines) : lines[i].cmd # "NICK"
    BY <1>6 DEF NoNickIn
  <2>. HIDE DEF last
  <2>. QED BY <1>1, <1>5, <2>1, <2>2
<1>7. ASSUME NEW nick, LastNick(lines, nick) PROVE last \in RightSides(nick)
  <2>1. PICK i \in 1 .. Len(lines) : /\ lines[i] = Line("NICK", nick)
                                     /\ \A j \in i + 1 .. Len(lines) : lines[j].cmd # "NICK"
    BY <1>7 DEF LastNick
  <2>2. ServerTook(s, lines)[i] = ServerTakes(ServerTook(s, lines)[i - 1], lines[i])
    BY <1>1, TookUnfolds
  <2>3. ServerTook(s, lines)[i - 1] \in Sides
    <3> DEFINE lim == i - 1
    <3>1. lim \in 0 .. Len(lines)
      BY <1>1
    <3>. QED BY <3>1, TookSides
  <2>4. ServerTook(s, lines)[i] \in RightSides(nick)
    BY <1>2, <2>1, <2>2, <2>3, TakesRight
  <2>5. i \in 0 .. Len(lines)
    BY <1>1
  <2>. HIDE DEF last
  <2>. QED BY <1>5, <2>1, <2>4, <2>5
<1>. HIDE DEF last
<1>8. /\ s.state # "none" => last.state # "none"
      /\ Asked(s.lines) => Asked(last.lines)
      /\ \A nick : LastNick(lines, nick) \/ (NoNickIn(lines) /\ s.nick = nick)
                        => last \in RightSides(nick)
  BY <1>3, <1>4, <1>6, <1>7
<1>. QED BY <1>8 DEF last

-----------------------------------------------------------------------------
(* Descriptors                                                             *)

LEMMA SameDesc ==
  ASSUME TypeOK, DescInv, desc' = desc,
         \A k \in Conns : srv[k].state # "none" => srv'[k].state # "none"
  PROVE  DescInv'
BY DEF DescInv

LEMMA SideSet ==
  ASSUME TypeOK, NEW k \in Conns, NEW x, srv' = [srv EXCEPT ![k] = x],
         srv[k].state # "none" => x.state # "none"
  PROVE  \A j \in Conns : srv[j].state # "none" => srv'[j].state # "none"
<1>1. srv \in [Conns -> Sides]
  BY DEF TypeOK
<1>. QED BY <1>1

LEMMA CurrentFacts ==
  ASSUME TypeOK, Current # 0
  PROVE  m_fd \in Fds /\ Current = desc[m_fd] /\ Current \in Conns /\ srv[Current] \in Sides
BY DEF TypeOK, Current

LEMMA DescSteps == TypeOK /\ DescInv /\ [Next]_vars => DescInv'
<1>. SUFFICES ASSUME TypeOK, DescInv, [Next]_vars PROVE DescInv'
  OBVIOUS
<1>1. ASSUME UNCHANGED <<desc, srv>> PROVE DescInv'
  BY <1>1, SameDesc
<1>2. ASSUME NEW t \in Threads, ConnectOpen(t) PROVE DescInv'
  <2>1. CASE desc' = desc
    BY <1>1, <1>2, <2>1 DEF ConnectOpen
  <2>2. CASE desc' # desc
    <3>1. {f \in Fds : desc[f] = Free} # {}
      BY <1>2, <2>2 DEF ConnectOpen
    <3>2. PICK f \in Fds : desc' = [desc EXCEPT ![f] = Made]
      BY <1>2, <2>2, <3>1, LeastFree DEF ConnectOpen
    <3>3. srv' = srv /\ Made \notin Conns
      BY <1>2 DEF ConnectOpen, Made, Conns
    <3>4. \A g \in Fds : desc'[g] \in Conns => g # f /\ desc'[g] = desc[g]
      BY <3>2, <3>3 DEF TypeOK
    <3>. QED BY <3>3, <3>4 DEF DescInv
  <2>. QED BY <2>1, <2>2
<1>3. ASSUME NEW t \in Threads, Establish(t) PROVE DescInv'
  <2>1. PICK k \in Conns :
          /\ srv[k].state = "none" /\ desc' = [desc EXCEPT ![m_fd] = k]
          /\ srv' = [srv EXCEPT ![k].state = "up"]
    BY <1>3 DEF Establish
  <2>2. m_fd \in Fds /\ \A f \in Fds : desc[f] # k
    BY <1>3, <2>1 DEF Establish, DescInv
  <2>3. desc'[m_fd] = k /\ \A f \in Fds : f # m_fd => desc'[f] = desc[f]
    BY <2>1, <2>2 DEF TypeOK
  <2>4. srv'[k].state = "up" /\ \A j \in Conns : j # k => srv'[j] = srv[j]
    <3>1. srv' = [srv EXCEPT ![k] = [srv[k] EXCEPT !.state = "up"]]
      BY <2>1
    <3>2. srv[k] \in Sides /\ srv \in [Conns -> Sides]
      BY DEF TypeOK
    <3>3. [srv[k] EXCEPT !.state = "up"].state = "up"
      BY <3>2 DEF Sides
    <3>. QED BY <3>1, <3>2, <3>3
  <2>. QED BY <2>2, <2>3, <2>4 DEF DescInv
<1>4. ASSUME NEW t \in Threads, DisconnectClose(t) PROVE DescInv'
  <2>1. CASE m_fd \in Fds
    <3>1. desc' = [desc EXCEPT ![m_fd] = Free] /\ Free \notin Conns
      BY <1>4, <2>1 DEF DisconnectClose, Free, Conns
    <3>2. \A g \in Fds : desc'[g] \in Conns => desc'[g] = desc[g] /\ g # m_fd
      BY <2>1, <3>1 DEF TypeOK
    <3>3. \A k \in Conns : srv[k].state # "none" => srv'[k].state # "none"
      <4>1. CASE Current = 0
        BY <1>4, <2>1, <4>1 DEF DisconnectClose
      <4>2. CASE Current # 0
        <5>1. srv' = [srv EXCEPT ![Current] = Over("closed", <<>>)] /\ Current \in Conns
          BY <1>4, <2>1, <4>2, CurrentFacts DEF DisconnectClose
        <5>2. Over("closed", <<>>).state # "none"
          BY DEF Over
        <5>. QED BY <5>1, <5>2, SideSet
      <4>. QED BY <4>1, <4>2
    <3>. QED BY <3>2, <3>3 DEF DescInv
  <2>2. CASE m_fd \notin Fds
    BY <1>1, <1>4, <2>2 DEF DisconnectClose
  <2>. QED BY <2>1, <2>2
<1>5. ASSUME NEW t \in Threads,
             \/ ConnectRefused(t) \/ DisconnectRemove(t) \/ Register(t) \/ Greet \/ Ping
             \/ ReConnect \/ HasLine(t) \/ GetLine(t)
      PROVE  UNCHANGED <<desc, srv>>
  BY <1>5 DEF ConnectRefused, DisconnectRemove, Register, GreetLater, WriteNick, WriteUser, Greet,
              Ping, ReConnect, HasLine, GetLine, sockVars
<1>6. ASSUME NEW k \in Conns, Write(k) PROVE DescInv'
  <2>1. CASE Up(Current)
    <3> DEFINE x == ServerTook(srv[Current], outBuf)[Len(outBuf)]
    <3>1. Current \in Conns /\ srv[Current] \in Sides /\ outBuf \in Seq(BotLines)
      BY <2>1 DEF Up, TypeOK
    <3>2. srv' = [srv EXCEPT ![Current] = x] /\ desc' = desc
      BY <1>6, <2>1 DEF Write
    <3>3. srv[Current].state # "none" => x.state # "none"
      BY <3>1, SendTellsNick
    <3>. HIDE DEF x
    <3>. QED BY <3>1, <3>2, <3>3, SideSet, SameDesc
  <2>2. CASE ~Up(Current)
    BY <1>1, <1>6, <2>2 DEF Write
  <2>. QED BY <2>1, <2>2
<1>7. ASSUME NEW k \in Conns, Read(k) PROVE DescInv'
  <2>1. CASE Readable
    <3>1. Current \in Conns /\ srv[Current] \in Sides
      BY <2>1, CurrentFacts DEF Readable
    <3>2. srv' = [srv EXCEPT ![Current] = [srv[Current] EXCEPT !.lines = <<>>]] /\ desc' = desc
      BY <1>7, <2>1 DEF Read
    <3>3. [srv[Current] EXCEPT !.lines = <<>>].state = srv[Current].state
      BY <3>1 DEF Sides
    <3>. QED BY <3>1, <3>2, <3>3, SideSet, SameDesc
  <2>2. CASE ~Readable
    BY <1>1, <1>7, <2>2 DEF Read
  <2>. QED BY <2>1, <2>2
<1>8. ASSUME NEW k \in Conns, Drop(k) PROVE UNCHANGED <<desc, srv>>
  BY <1>8 DEF Drop
<1>9. CASE Eat
  <2>1. PICK k \in Conns : k = desc[0]
    BY <1>9 DEF Eat
  <2>2. srv' = [srv EXCEPT ![k] = [srv[k] EXCEPT !.lines = Tail(@)]] /\ desc' = desc
    BY <1>9, <2>1 DEF Eat, sockVars
  <2>3. [srv[k] EXCEPT !.lines = Tail(@)].state = srv[k].state
    BY DEF TypeOK, Sides
  <2>. QED BY <2>2, <2>3, SideSet, SameDesc
<1>10. ASSUME NEW cmd \in Commands, Type(cmd) PROVE UNCHANGED <<desc, srv>>
  BY <1>10 DEF Type, sockVars
<1>11. ASSUME NEW k \in Conns, NEW nick \in OperNicks, OperatorSays(k, nick) PROVE DescInv'
  <2>1. srv' = [srv EXCEPT ![k] = [srv[k] EXCEPT !.lines = Append(@, Line("nick", nick))]]
    BY <1>11 DEF OperatorSays
  <2>2. desc' = desc
    BY <1>11 DEF OperatorSays, sockVars
  <2>3. [srv[k] EXCEPT !.lines = Append(@, Line("nick", nick))].state = srv[k].state
    BY DEF TypeOK, Sides
  <2>. QED BY <2>1, <2>2, <2>3, SideSet, SameDesc
<1>12. ASSUME NEW k \in Conns, NEW state \in {"closed", "lost"}, Break(k, state) PROVE DescInv'
  <2>1. PICK x : srv' = [srv EXCEPT ![k] = x] /\ x.state = state
    <3>1. srv' = [srv EXCEPT ![k] = Over(state, IF state = "lost" THEN <<>> ELSE srv[k].lines)]
      BY <1>12 DEF Break
    <3>2. Over(state, IF state = "lost" THEN <<>> ELSE srv[k].lines).state = state
      BY DEF Over
    <3>. QED BY <3>1, <3>2
  <2>2. desc' = desc
    BY <1>12 DEF Break, sockVars
  <2>. QED BY <2>1, <2>2, SideSet, SameDesc
<1>13. CASE UNCHANGED vars
  BY <1>1, <1>13 DEF vars, sockVars
<1>14. CASE Next
  <2>1. ASSUME NEW t \in Threads, ThreadStep(t) PROVE DescInv'
    <3>1. \/ ConnectOpen(t) \/ ConnectRefused(t) \/ Establish(t)
          \/ DisconnectClose(t) \/ DisconnectRemove(t)
          \/ Register(t) \/ Greet \/ Ping \/ ReConnect \/ HasLine(t) \/ GetLine(t)
      BY <2>1 DEF ThreadStep, Connect, Disconnect, Run, ReConnectStep
    <3>. QED BY <1>1, <1>2, <1>3, <1>4, <1>5, <3>1
  <2>2. ASSUME NEW k \in Conns, SocketMgrStep(k) PROVE DescInv'
    BY <1>1, <1>6, <1>7, <1>8, <2>2 DEF SocketMgrStep
  <2>. QED BY <1>1, <1>9, <1>10, <1>11, <1>12, <1>14, <2>1, <2>2 DEF Next
<1>. QED BY <1>13, <1>14

\* Once there is no descriptor left but 0, it stays so.
LEMMA ExhaustedStays == TypeOK /\ Exhausted /\ [Next]_vars => Exhausted'
<1>. SUFFICES ASSUME TypeOK, Exhausted, [Next]_vars PROVE Exhausted'
  OBVIOUS
<1>1. ASSUME UNCHANGED desc, m_fd' = m_fd \/ m_fd' = 0 PROVE Exhausted'
  BY <1>1 DEF Exhausted
<1>2. ASSUME NEW t \in Threads, ConnectOpen(t) PROVE Exhausted'
  <2>1. CASE m_fd # 0
    BY <1>1, <1>2, <2>1 DEF ConnectOpen
  <2>2. CASE m_fd = 0 /\ {f \in Fds : desc[f] = Free} = {}
    BY <1>2, <2>2 DEF ConnectOpen, Exhausted
  <2>3. CASE m_fd = 0 /\ {f \in Fds : desc[f] = Free} # {}
    <3>1. PICK f \in Fds : m_fd' = f /\ desc[f] = Free /\ desc' = [desc EXCEPT ![f] = Made]
      BY <1>2, <2>3, LeastFree DEF ConnectOpen
    <3>2. f = 0
      BY <3>1 DEF Exhausted
    <3>. QED BY <3>1, <3>2 DEF Exhausted, TypeOK
  <2>. QED BY <2>1, <2>2, <2>3
<1>3. ASSUME NEW t \in Threads, Establish(t) PROVE Exhausted'
  <2>1. PICK k \in Conns : desc' = [desc EXCEPT ![m_fd] = k]
    BY <1>3 DEF Establish
  <2>2. m_fd' = m_fd /\ m_fd = 0
    BY <1>3 DEF Establish, Exhausted, Fds
  <2>. QED BY <2>1, <2>2 DEF Exhausted, TypeOK
<1>4. ASSUME NEW t \in Threads, DisconnectClose(t) PROVE Exhausted'
  <2>1. m_fd' = 0
    BY <1>4 DEF DisconnectClose
  <2>2. CASE m_fd \in Fds
    <3>1. m_fd = 0 /\ desc' = [desc EXCEPT ![m_fd] = Free]
      BY <1>4, <2>2 DEF DisconnectClose, Exhausted, Fds
    <3>. QED BY <2>1, <3>1 DEF Exhausted, TypeOK
  <2>3. CASE m_fd \notin Fds
    BY <1>1, <1>4, <2>1, <2>3 DEF DisconnectClose
  <2>. QED BY <2>2, <2>3
<1>5. ASSUME NEW t \in Threads,
             \/ ConnectRefused(t) \/ DisconnectRemove(t) \/ Register(t) \/ Greet \/ Ping
             \/ ReConnect \/ HasLine(t) \/ GetLine(t)
      PROVE  UNCHANGED desc /\ (m_fd' = m_fd \/ m_fd' = 0)
  BY <1>5 DEF ConnectRefused, DisconnectRemove, Register, GreetLater, WriteNick, WriteUser, Greet,
              Ping, ReConnect, HasLine, GetLine, sockVars
<1>6. ASSUME NEW k \in Conns, SocketMgrStep(k)
      PROVE  UNCHANGED desc /\ (m_fd' = m_fd \/ m_fd' = 0)
  BY <1>6 DEF SocketMgrStep, Write, Read, Drop
<1>7. ASSUME \/ Eat
             \/ \E cmd \in Commands : Type(cmd)
             \/ \E k \in Conns, nick \in OperNicks : OperatorSays(k, nick)
             \/ \E k \in Conns, state \in {"closed", "lost"} : Break(k, state)
      PROVE  UNCHANGED <<m_fd, desc>>
  BY <1>7 DEF Eat, Type, OperatorSays, Break, sockVars
<1>8. CASE UNCHANGED vars
  BY <1>1, <1>8 DEF vars, sockVars
<1>9. CASE Next
  <2>1. ASSUME NEW t \in Threads, ThreadStep(t) PROVE Exhausted'
    <3>1. \/ ConnectOpen(t) \/ ConnectRefused(t) \/ Establish(t)
          \/ DisconnectClose(t) \/ DisconnectRemove(t)
          \/ Register(t) \/ Greet \/ Ping \/ ReConnect \/ HasLine(t) \/ GetLine(t)
      BY <2>1 DEF ThreadStep, Connect, Disconnect, Run, ReConnectStep
    <3>. QED BY <1>1, <1>2, <1>3, <1>4, <1>5, <3>1
  <2>. QED BY <1>1, <1>6, <1>7, <1>9, <2>1 DEF Next
<1>. QED BY <1>8, <1>9

-----------------------------------------------------------------------------
(* The nick, step by step                                                  *)

LEMMA SameSocket ==
  ASSUME TypeOK, NickMain, m_fd' = m_fd, desc' = desc,
         place'[R] = "idle", place'[S] \in {"open", "establish"} => connState' = "connected",
         m_fd # 0 /\ Current # 0 /\ Up(Current)' /\ Up(Current) /\ UnderWay => UnderWay',
         Current # 0 /\ srv'[Current].state = "up" => srv[Current].state = "up"
  PROVE  NickMain'
<1>1. Current' = Current
  BY DEF Current
<1>2. ASSUME m_fd # 0, Up(Current)' PROVE UnderWay'
  <2>1. Current # 0 /\ srv'[Current].state = "up" /\ Current \in Conns
    BY <1>1, <1>2 DEF Up, Conns
  <2>2. Up(Current)
    BY <2>1 DEF Up
  <2>. QED BY <1>2, <2>1, <2>2 DEF NickMain
<1>. QED BY <1>1, <1>2 DEF NickMain

LEMMA NoSocket ==
  ASSUME NickMain, m_fd' = 0,
         place'[R] = "idle", place'[S] \in {"open", "establish"} => connState' = "connected"
  PROVE  NickMain'
BY DEF NickMain

\* In NickMain the reconnect thread does nothing.
LEMMA NotR ==
  ASSUME NickMain
  PROVE  /\ ~ReConnect
         /\ \A t \in Threads :
              ConnectOpen(t) \/ ConnectRefused(t) \/ Establish(t) \/ Disconnect(t) \/ Register(t)
                => t # R
         /\ ~HasLine(R) /\ ~GetLine(R)
BY DEF NickMain, ReConnect, IsConnected, ConnectOpen, ConnectRefused, Establish, Disconnect,
       DisconnectClose, DisconnectRemove, Register, GreetLater, WriteNick, WriteUser, HasLine,
       GetLine, R, S

LEMMA NickConnect ==
  ASSUME TypeOK, NickMain, NEW t \in Threads, Connect(t)
  PROVE  NickInv'
<1>. USE DEF Threads, S, C, R
<1>0. t \in {S, C}
  BY NotR DEF Connect
<1>1. place \in [Threads -> {"idle", "open", "establish", "close", "remove", "copy", "nick",
                            "user", "loop", "look", "get", "ended"}]
  BY DEF TypeOK
<1>2. CASE ConnectOpen(t)
  <2>1. connState' = connState /\ srv' = srv
    BY <1>2 DEF ConnectOpen, sessVars
  <2>2. /\ place' = [place EXCEPT ![t] = "establish"] \/ place' = [place EXCEPT ![t] = "ended"]
           \/ place' = [place EXCEPT ![t] = "close"]
        /\ place[t] = "open"
    BY <1>2 DEF ConnectOpen, Failed, At
  <2>3. place'[R] = "idle" /\ (place'[S] \in {"open", "establish"} => connState' = "connected")
    BY <1>0, <1>1, <2>1, <2>2 DEF NickMain
  <2>4. CASE m_fd # 0
    <3>1. m_fd' = m_fd /\ desc' = desc /\ place' = [place EXCEPT ![t] = IF t = S THEN "ended" ELSE "close"]
      BY <1>2, <2>4 DEF ConnectOpen, Failed, At
    <3>2. UnderWay => UnderWay'
      <4>1. CASE t = S
        BY <1>1, <3>1, <4>1 DEF UnderWay
      <4>2. CASE t = C
        <5>1. place'[S] = place[S] /\ place[C] = "open"
          BY <1>1, <2>2, <3>1, <4>2
        <5>2. /\ overtaken' = overtaken /\ inBuf' = inBuf /\ outBuf' = outBuf
              /\ m_NickTarolo' = m_NickTarolo /\ srv'[Current'] = srv[Current]
          BY <1>2, <2>1, <3>1 DEF ConnectOpen, Current, histVars, bufVars, sessVars
        <5>. QED BY <2>1, <5>1, <5>2 DEF UnderWay
      <4>. QED BY <1>0, <4>1, <4>2
    <3>3. NickMain'
      BY <2>1, <2>3, <3>1, <3>2, SameSocket
    <3>. QED BY <3>3 DEF NickInv
  <2>5. CASE m_fd = 0 /\ {f \in Fds : desc[f] = Free} = {}
    BY <1>2, <2>5 DEF ConnectOpen, Exhausted, NickInv
  <2>6. CASE m_fd = 0 /\ {f \in Fds : desc[f] = Free} # {}
    <3>1. PICK f \in Fds : m_fd' = f /\ desc' = [desc EXCEPT ![f] = Made]
      BY <1>2, <2>6, LeastFree DEF ConnectOpen
    <3>2. desc'[m_fd'] = Made /\ m_fd' # -1
      <4>1. desc'[f] = Made
        BY <3>1 DEF TypeOK
      <4>2. f # -1
        BY ZeroIsFd DEF Fds
      <4>. QED BY <3>1, <4>1, <4>2
    <3>3. ~Up(Current)'
      BY <3>2 DEF Up, Current, Made, Conns
    <3>. QED BY <2>3, <3>2, <3>3 DEF NickMain, NickInv
  <2>. QED BY <2>4, <2>5, <2>6
<1>3. CASE ConnectRefused(t)
  <2>1. /\ m_fd' = 0 /\ connState' = connState
        /\ place' = [place EXCEPT ![t] = IF t = S THEN "ended" ELSE "close"]
    BY <1>3 DEF ConnectRefused, Failed, At, sessVars
  <2>2. place'[R] = "idle" /\ (place'[S] \in {"open", "establish"} => connState' = "connected")
    BY <1>0, <1>1, <2>1 DEF NickMain
  <2>. QED BY <2>1, <2>2, NoSocket DEF NickInv
<1>4. CASE Establish(t)
  <2>1. m_fd' = m_fd /\ place[t] = "establish"
    BY <1>4 DEF Establish
  <2>2. CASE t = S
    <3>1. place' = [place EXCEPT ![S] = "loop"] /\ connState' = connState
      BY <1>4, <2>2, Zenon DEF Establish, At
    <3>2. place'[S] = "loop" /\ connState' = "connected" /\ place'[R] = "idle"
      BY <1>1, <2>1, <2>2, <3>1 DEF NickMain
    <3>3. UnderWay'
      BY <3>2 DEF UnderWay
    <3>. QED BY <2>1, <3>2, <3>3 DEF NickMain, NickInv
  <2>3. CASE t = C
    <3>1. place' = [place EXCEPT ![C] = "copy"] /\ connState' = "connected"
      <4>1. t # S
        BY <2>3
      <4>. QED BY <1>4, <2>3, <4>1, Zenon DEF Establish, At
    <3>2. place'[C] = "copy" /\ place'[R] = "idle"
      BY <1>1, <3>1 DEF NickMain
    <3>3. UnderWay'
      BY <3>2 DEF UnderWay
    <3>. QED BY <2>1, <3>1, <3>2, <3>3 DEF NickMain, NickInv
  <2>. QED BY <1>0, <2>2, <2>3
<1>. QED BY <1>2, <1>3, <1>4 DEF Connect

LEMMA NickDisconnect ==
  ASSUME TypeOK, NickMain, NEW t \in Threads, Disconnect(t)
  PROVE  NickMain'
<1>. USE DEF Threads, S, C, R
<1>0. t \in {S, C}
  BY NotR
<1>1. place \in [Threads -> {"idle", "open", "establish", "close", "remove", "copy", "nick",
                            "user", "loop", "look", "get", "ended"}]
  BY DEF TypeOK
<1>2. CASE DisconnectClose(t)
  <2>1. m_fd' = 0 /\ connState' = connState /\ place' = [place EXCEPT ![t] = "remove"]
    BY <1>2 DEF DisconnectClose, At, sessVars
  <2>2. place'[R] = "idle" /\ (place'[S] \in {"open", "establish"} => connState' = "connected")
    BY <1>0, <1>1, <2>1 DEF NickMain
  <2>. QED BY <2>1, <2>2, NoSocket
<1>3. CASE DisconnectRemove(t)
  <2>1. /\ connState' = connState /\ srv' = srv /\ m_fd' = m_fd /\ desc' = desc
        /\ overtaken' = overtaken /\ inBuf' = inBuf /\ outBuf' = outBuf
        /\ m_NickTarolo' = m_NickTarolo /\ place[t] = "remove"
    BY <1>3 DEF DisconnectRemove, sessVars, bufVars
  <2>2. /\ place' = [place EXCEPT ![t] = "open"] \/ place' = [place EXCEPT ![t] = "idle"]
        /\ t = S => place' = [place EXCEPT ![t] = "idle"]
    BY <1>3 DEF DisconnectRemove, At
  <2>3. place'[R] = "idle" /\ (place'[S] \in {"open", "establish"} => connState' = "connected")
    BY <1>0, <1>1, <2>1, <2>2 DEF NickMain
  <2>4. UnderWay => UnderWay'
    <3>1. CASE t = S
      BY <1>1, <2>2, <3>1 DEF UnderWay
    <3>2. CASE t = C
      <4>1. place'[S] = place[S] /\ place[C] = "remove"
        BY <1>1, <2>1, <2>2, <3>2
      <4>2. srv'[Current'] = srv[Current]
        BY <2>1 DEF Current
      <4>. QED BY <2>1, <4>1, <4>2 DEF UnderWay
    <3>. QED BY <1>0, <3>1, <3>2
  <2>. QED BY <2>1, <2>3, <2>4, SameSocket
<1>. QED BY <1>2, <1>3 DEF Disconnect

LEMMA NickRegister ==
  ASSUME TypeOK, NickMain, NEW t \in Threads, Register(t) \/ (t = S /\ (Greet \/ Ping))
  PROVE  NickMain'
<1>. USE DEF Threads, S, C, R
<1>0. t \in {S, C}
  BY NotR
<1>1. place \in [Threads -> {"idle", "open", "establish", "close", "remove", "copy", "nick",
                            "user", "loop", "look", "get", "ended"}]
  BY DEF TypeOK
<1>2. outBuf \in Seq(BotLines)
  BY DEF TypeOK
<1>3. /\ m_fd' = m_fd /\ desc' = desc /\ srv' = srv /\ inBuf' = inBuf
      /\ m_NickTarolo' = m_NickTarolo
  BY DEF Register, GreetLater, WriteNick, WriteUser, Greet, Ping, sockVars, bufVars, sessVars
<1>4. srv'[Current'] = srv[Current]
  BY <1>3 DEF Current
<1>5. CASE GreetLater(t) \/ (t = S /\ Greet)
  <2>1. place' = [place EXCEPT ![t] = "nick"] /\ connState' = connState
    BY <1>5 DEF Greet, GreetLater, At, sessVars
  <2>2. place'[R] = "idle" /\ (place'[S] \in {"open", "establish"} => connState' = "connected")
    BY <1>0, <1>1, <2>1 DEF NickMain
  <2>3. UnderWay'
    BY <1>0, <1>1, <2>1 DEF UnderWay
  <2>. QED BY <1>3, <2>2, <2>3, SameSocket
<1>6. CASE WriteNick(t)
  <2>1. /\ place' = [place EXCEPT ![t] = "user"] /\ connState' = connState
        /\ outBuf' = Append(outBuf, Line("NICK", copy[t]))
    BY <1>6 DEF WriteNick, At, sessVars
  <2>2. place'[R] = "idle" /\ (place'[S] \in {"open", "establish"} => connState' = "connected")
    BY <1>0, <1>1, <2>1 DEF NickMain
  <2>3. UnderWay'
    <3>1. CASE copy[t] # m_NickTarolo
      <4>1. overtaken'
        BY <1>6, <3>1, Zenon DEF WriteNick
      <4>. QED BY <4>1, Zenon DEF UnderWay
    <3>2. CASE copy[t] = m_NickTarolo
      <4>1. Line("NICK", copy[t]) \in BotLines
        BY DEF Line, BotLines, TypeOK
      <4>2. LastNick(outBuf', m_NickTarolo')
        BY <1>2, <1>3, <2>1, <3>2, <4>1, NickAppend
      <4>. QED BY <4>2 DEF UnderWay
    <3>. QED BY <3>1, <3>2
  <2>. QED BY <1>3, <2>2, <2>3, SameSocket
<1>7. CASE WriteUser(t)
  <2>1. /\ place[t] = "user" /\ outBuf' = Append(outBuf, Line("USER", NoNick))
        /\ overtaken' = overtaken
        /\ t = S => connState' = "registering" /\ place' = [place EXCEPT ![t] = "loop"]
        /\ t = C => connState' = connState /\ place' = [place EXCEPT ![t] = "idle"]
    BY <1>7 DEF WriteUser, At, histVars
  <2>2. place'[R] = "idle" /\ (place'[S] \in {"open", "establish"} => connState' = "connected")
    BY <1>0, <1>1, <2>1 DEF NickMain
  <2>3. /\ LastNick(outBuf, m_NickTarolo) => LastNick(outBuf', m_NickTarolo)
        /\ NoNickIn(outBuf) => NoNickIn(outBuf')
    <3>1. Line("USER", NoNick) \in BotLines /\ Line("USER", NoNick).cmd # "NICK"
      BY DEF Line, BotLines
    <3>. QED BY <1>2, <2>1, <3>1, NickAppend
  <2>4. UnderWay => UnderWay'
    <3>1. CASE t = S
      <4>1. place[S] = "user" /\ place'[C] = place[C]
        BY <1>1, <2>1, <3>1
      <4>. QED BY <1>3, <1>4, <2>1, <2>3, <4>1 DEF UnderWay
    <3>2. CASE t = C
      <4>1. place[C] = "user" /\ place'[S] = place[S] /\ connState' = connState
        BY <1>1, <2>1, <3>2
      <4>. QED BY <1>3, <1>4, <2>1, <2>3, <4>1 DEF UnderWay
    <3>. QED BY <1>0, <3>1, <3>2
  <2>. QED BY <1>3, <2>2, <2>4, SameSocket
<1>8. CASE Ping
  <2>1. /\ place' = place /\ connState' = connState /\ overtaken' = overtaken
        /\ outBuf' = Append(outBuf, Line("PING", NoNick))
    BY <1>8 DEF Ping, threadVars, sessVars, histVars
  <2>2. /\ LastNick(outBuf, m_NickTarolo) => LastNick(outBuf', m_NickTarolo)
        /\ NoNickIn(outBuf) => NoNickIn(outBuf')
    <3>1. Line("PING", NoNick) \in BotLines /\ Line("PING", NoNick).cmd # "NICK"
      BY DEF Line, BotLines
    <3>. QED BY <1>2, <2>1, <3>1, NickAppend
  <2>3. UnderWay => UnderWay'
    BY <1>3, <1>4, <2>1, <2>2 DEF UnderWay
  <2>. QED BY <1>3, <2>1, <2>3, SameSocket DEF NickMain
<1>. QED BY <1>5, <1>6, <1>7, <1>8 DEF Register

LEMMA NickLines ==
  ASSUME TypeOK, NickMain, HasLine(S) \/ GetLine(S)
  PROVE  NickMain'
<1>. USE DEF Threads, S, C, R
<1>1. place \in [Threads -> {"idle", "open", "establish", "close", "remove", "copy", "nick",
                            "user", "loop", "look", "get", "ended"}]
  BY DEF TypeOK
<1>2. m_fd' = m_fd /\ desc' = desc /\ srv' = srv /\ srv'[Current'] = srv[Current]
  BY DEF HasLine, GetLine, sockVars, Current
<1>3. CASE HasLine(S)
  <2>1. /\ place[S] = "loop" /\ connState # "connected" /\ place' = [place EXCEPT ![S] = "get"]
        /\ inBuf' = inBuf /\ outBuf' = outBuf /\ overtaken' = overtaken
        /\ m_NickTarolo' = m_NickTarolo
    BY <1>3 DEF HasLine, At, sessVars, bufVars, histVars
  <2>2. place'[S] = "get" /\ place'[C] = place[C] /\ place'[R] = "idle"
    BY <1>1, <2>1 DEF NickMain
  <2>3. UnderWay => UnderWay'
    BY <1>2, <2>1, <2>2 DEF UnderWay
  <2>. QED BY <1>2, <2>2, <2>3, SameSocket
<1>4. CASE GetLine(S)
  <2>1. place[S] = "get" /\ place' = [place EXCEPT ![S] = "loop"]
    BY <1>4 DEF GetLine, At
  <2>2. place'[S] = "loop" /\ place'[C] = place[C] /\ place'[R] = "idle"
    BY <1>1, <2>1 DEF NickMain
  <2>3. UnderWay => UnderWay'
    <3>1. CASE inBuf = <<>>
      <4>1. /\ inBuf' = inBuf /\ outBuf' = outBuf /\ overtaken' = overtaken
            /\ m_NickTarolo' = m_NickTarolo /\ connState' = connState
        BY <1>4, <3>1 DEF GetLine, sessVars
      <4>. QED BY <1>2, <2>1, <2>2, <4>1 DEF UnderWay
    <3>2. CASE inBuf # <<>>
      <4>1. inBuf \in Seq(ServerLines) /\ Head(inBuf) \in ServerLines /\ inBuf' = Tail(inBuf)
        BY <1>4, <3>2, HeadTailProperties DEF GetLine, TypeOK
      <4>2. \/ Head(inBuf).cmd = "433" /\ HandleNickError
            \/ Head(inBuf).cmd = "001" /\ HandleSuccessfulAuth
            \/ Head(inBuf).cmd = "432" /\ HandleUnknown
            \/ Head(inBuf).cmd = "nick" /\ HandleNick(Head(inBuf).nick)
        BY <1>4, <3>2, <4>1 DEF GetLine, ServerLines
      <4>3. CASE Head(inBuf).cmd = "433" /\ HandleNickError
        <5>1. connState' = "connected"
          BY <4>3 DEF HandleNickError
        <5>. QED BY <2>2, <5>1 DEF UnderWay
      <4>4. CASE Head(inBuf).cmd = "001" /\ HandleSuccessfulAuth
        <5>1. outBuf' = outBuf /\ overtaken' = overtaken /\ m_NickTarolo' = m_NickTarolo
          BY <4>4 DEF HandleSuccessfulAuth
        <5>2. Asked(inBuf) => Asked(inBuf')
          BY <3>2, <4>1, <4>4, AskedTail
        <5>. QED BY <1>2, <2>1, <2>2, <5>1, <5>2 DEF UnderWay
      <4>5. CASE Head(inBuf).cmd = "nick" /\ HandleNick(Head(inBuf).nick)
        <5>1. /\ m_NickTarolo' = Head(inBuf).nick
              /\ outBuf' = Append(outBuf, Line("NICK", Head(inBuf).nick))
          BY <4>5 DEF HandleNick
        <5>2. Head(inBuf).nick \in Nicks
          BY <4>1, <4>5, NickFacts DEF ServerLines
        <5>3. Line("NICK", Head(inBuf).nick) \in BotLines /\ outBuf \in Seq(BotLines)
          BY <5>2, BotLine DEF TypeOK
        <5>4. LastNick(outBuf', m_NickTarolo')
          BY <5>1, <5>3, NickAppend
        <5>. QED BY <5>4 DEF UnderWay
      <4>6. CASE Head(inBuf).cmd = "432" /\ HandleUnknown
        <5>1. /\ outBuf' = outBuf /\ overtaken' = overtaken /\ m_NickTarolo' = m_NickTarolo
              /\ connState' = connState
          BY <4>6 DEF HandleUnknown, sessVars
        <5>2. Asked(inBuf) => Asked(inBuf')
          BY <3>2, <4>1, <4>6, AskedTail
        <5>. QED BY <1>2, <2>1, <2>2, <5>1, <5>2 DEF UnderWay
      <4>. QED BY <4>2, <4>3, <4>4, <4>5, <4>6
    <3>. QED BY <3>1, <3>2
  <2>. QED BY <1>2, <2>2, <2>3, SameSocket
<1>. QED BY <1>3, <1>4

LEMMA NickMgr ==
  ASSUME TypeOK, NickMain, NEW k \in Conns, SocketMgrStep(k)
  PROVE  NickMain'
<1>1. place' = place /\ connState' = connState /\ m_NickTarolo' = m_NickTarolo /\ desc' = desc
  BY DEF SocketMgrStep, Write, Read, Drop, threadVars, sessVars
<1>2. place'[R] = "idle" /\ (place'[S] \in {"open", "establish"} => connState' = "connected")
  BY <1>1 DEF NickMain
<1>3. srv \in [Conns -> Sides] /\ outBuf \in Seq(BotLines) /\ inBuf \in Seq(ServerLines)
  BY DEF TypeOK
<1>4. CASE Write(k)
  <2>1. m_fd' = m_fd /\ inBuf' = inBuf /\ overtaken' = overtaken /\ Current' = Current
    BY <1>1, <1>4 DEF Write, histVars, Current
  <2>2. CASE Up(Current)
    <3> DEFINE last == ServerTook(srv[Current], outBuf)[Len(outBuf)]
    <3>1. Current \in Conns /\ srv[Current] \in Sides /\ srv[Current].state = "up"
      BY <1>3, <2>2 DEF Up
    <3>2. outBuf' = <<>> /\ srv' = [srv EXCEPT ![Current] = last]
      BY <1>4, <2>2 DEF Write
    <3>3. /\ Asked(srv[Current].lines) => Asked(last.lines)
          /\ LastNick(outBuf, m_NickTarolo)
               \/ (NoNickIn(outBuf) /\ srv[Current].nick = m_NickTarolo)
             => last \in RightSides(m_NickTarolo)
      BY <1>3, <3>1, SendTellsNick
    <3>. HIDE DEF last
    <3>4. srv'[Current'] = last
      BY <1>3, <2>1, <3>1, <3>2
    <3>5. NoNickIn(outBuf')
      BY <3>2 DEF NoNickIn
    <3>6. last.state = "up" /\ UnderWay => UnderWay'
      BY <1>1, <2>1, <3>3, <3>4, <3>5 DEF UnderWay, RightSides
    <3>7. Up(Current)' => last.state = "up"
      BY <2>1, <3>4 DEF Up
    <3>. QED BY <1>1, <1>2, <2>1, <3>1, <3>6, <3>7, SameSocket
  <2>3. CASE ~Up(Current)
    <3>1. srv' = srv
      BY <1>4, <2>3 DEF Write
    <3>. QED BY <1>1, <1>2, <2>1, <2>3, <3>1, SameSocket
  <2>. QED BY <2>2, <2>3
<1>5. CASE Read(k)
  <2>1. m_fd' = m_fd /\ outBuf' = outBuf /\ overtaken' = overtaken /\ Current' = Current
    BY <1>1, <1>5 DEF Read, histVars, Current
  <2>2. CASE Readable
    <3> DEFINE x == [srv[Current] EXCEPT !.lines = <<>>]
    <3>1. Current \in Conns /\ srv[Current] \in Sides /\ srv[Current].lines \in Seq(ServerLines)
      BY <2>2, CurrentFacts DEF Readable, Sides
    <3>2. inBuf' = inBuf \o srv[Current].lines /\ srv' = [srv EXCEPT ![Current] = x]
      BY <1>5, <2>2 DEF Read
    <3>3. x.state = srv[Current].state /\ x.nick = srv[Current].nick
      BY <3>1 DEF Sides
    <3>. HIDE DEF x
    <3>4. srv'[Current] = x /\ srv'[Current'] = x
      BY <1>3, <2>1, <3>1, <3>2
    <3>5. Asked(inBuf) \/ Asked(srv[Current].lines) => Asked(inBuf')
      BY <1>3, <3>1, <3>2, AskedConcat
    <3>6. UnderWay => UnderWay'
      BY <1>1, <2>1, <3>3, <3>4, <3>5 DEF UnderWay
    <3>. QED BY <1>1, <1>2, <2>1, <3>3, <3>4, <3>6, SameSocket
  <2>3. CASE ~Readable
    <3>1. srv' = srv /\ inBuf' = inBuf
      BY <1>5, <2>3 DEF Read
    <3>2. UnderWay => UnderWay'
      BY <1>1, <2>1, <3>1 DEF UnderWay
    <3>. QED BY <1>1, <1>2, <2>1, <3>1, <3>2, SameSocket
  <2>. QED BY <2>2, <2>3
<1>6. CASE Drop(k)
  BY <1>2, <1>6, NoSocket DEF Drop
<1>. QED BY <1>4, <1>5, <1>6 DEF SocketMgrStep

LEMMA NickWorld ==
  ASSUME TypeOK, DescInv, NickMain,
         \/ Eat
         \/ \E cmd \in Commands : Type(cmd)
         \/ \E k \in Conns, nick \in OperNicks : OperatorSays(k, nick)
         \/ \E k \in Conns, state \in {"closed", "lost"} : Break(k, state)
  PROVE  NickMain'
<1>1. srv \in [Conns -> Sides] /\ outBuf \in Seq(BotLines) /\ place \in [Threads ->
        {"idle", "open", "establish", "close", "remove", "copy", "nick", "user", "loop", "look",
         "get", "ended"}]
  BY DEF TypeOK
<1>2. /\ m_fd' = m_fd /\ desc' = desc /\ Current' = Current /\ connState' = connState
      /\ inBuf' = inBuf /\ m_NickTarolo' = m_NickTarolo /\ overtaken' = overtaken
  BY DEF Eat, Type, OperatorSays, Break, sockVars, sessVars, bufVars, histVars, Current
<1>3. ASSUME place' = place, outBuf' = outBuf, NEW k \in Conns, NEW x, srv' = [srv EXCEPT ![k] = x],
             m_fd # 0 /\ Current = k
               => \/ x.state # "up"
                  \/ /\ x.state = srv[k].state /\ x.nick = srv[k].nick
                     /\ Asked(srv[k].lines) => Asked(x.lines)
      PROVE  NickMain'
  <2>1. ASSUME m_fd # 0, Current # 0, Up(Current)', Up(Current), UnderWay PROVE UnderWay'
    <3>1. CASE Current = k
      <4>1. srv'[Current'] = x
        BY <1>1, <1>2, <1>3, <3>1
      <4>2. x.state = "up"
        BY <1>2, <2>1, <4>1 DEF Up
      <4>. QED BY <1>2, <1>3, <2>1, <3>1, <4>1, <4>2 DEF UnderWay
    <3>2. CASE Current # k
      <4>1. srv'[Current'] = srv[Current]
        BY <1>1, <1>2, <1>3, <3>2, CurrentFacts, <2>1
      <4>. QED BY <1>2, <1>3, <2>1, <4>1 DEF UnderWay
    <3>. QED BY <3>1, <3>2
  <2>2. m_fd # 0 /\ Current # 0 /\ srv'[Current].state = "up" => srv[Current].state = "up"
    BY <1>1, <1>3, CurrentFacts
  <2>3. CASE m_fd = 0
    BY <1>2, <1>3, <2>3, NoSocket DEF NickMain
  <2>4. CASE m_fd # 0
    BY <1>2, <1>3, <2>1, <2>2, <2>4, SameSocket DEF NickMain
  <2>. QED BY <2>3, <2>4
<1>4. CASE Eat
  <2>1. PICK k \in Conns : k = desc[0]
    BY <1>4 DEF Eat
  <2>2. srv' = [srv EXCEPT ![k] = [srv[k] EXCEPT !.lines = Tail(@)]] /\ place' = place
        /\ outBuf' = outBuf
    BY <1>4, <2>1 DEF Eat, threadVars, bufVars
  <2>3. m_fd # 0 => Current # k
    <3>1. ASSUME m_fd # 0, Current = k PROVE FALSE
      <4>1. m_fd \in Fds /\ desc[m_fd] = desc[0] /\ desc[m_fd] \in Conns
        BY <2>1, <3>1, CurrentFacts DEF Conns
      <4>. QED BY <3>1, <4>1, ZeroIsFd DEF DescInv
    <3>. QED BY <3>1
  <2>. QED BY <1>3, <2>2, <2>3
<1>5. CASE \E cmd \in Commands : Type(cmd)
  <2>1. PICK cmd \in Commands : Type(cmd)
    BY <1>5
  <2>2. /\ srv' = srv /\ place[C] = "idle" /\ srv'[Current'] = srv[Current]
        /\ place' = [place EXCEPT ![C] = IF cmd = "connect" THEN "open" ELSE "close"]
    BY <1>2, <2>1 DEF Type, At
  <2>3. place'[S] = place[S] /\ place'[R] = "idle"
    BY <1>1, <2>2 DEF Threads, S, C, R, NickMain
  <2>4. /\ LastNick(outBuf, m_NickTarolo) => LastNick(outBuf', m_NickTarolo)
        /\ NoNickIn(outBuf) => NoNickIn(outBuf')
    <3>1. outBuf' = outBuf \/ outBuf' = Append(outBuf, Line("QUIT", NoNick))
      BY <2>1 DEF Type
    <3>2. Line("QUIT", NoNick) \in BotLines /\ Line("QUIT", NoNick).cmd # "NICK"
      BY DEF Line, BotLines
    <3>. QED BY <1>1, <3>1, <3>2, NickAppend
  <2>5. UnderWay => UnderWay'
    BY <1>2, <2>2, <2>3, <2>4 DEF UnderWay
  <2>. QED BY <1>2, <2>2, <2>3, <2>5, SameSocket DEF NickMain
<1>6. CASE \E k \in Conns, nick \in OperNicks : OperatorSays(k, nick)
  <2>1. PICK k \in Conns, nick \in OperNicks : OperatorSays(k, nick)
    BY <1>6
  <2> DEFINE x == [srv[k] EXCEPT !.lines = Append(@, Line("nick", nick))]
  <2>2. srv' = [srv EXCEPT ![k] = x] /\ place' = place /\ outBuf' = outBuf
    BY <2>1 DEF OperatorSays, threadVars, bufVars
  <2>3. srv[k] \in Sides /\ srv[k].lines \in Seq(ServerLines)
    BY <1>1 DEF Sides
  <2>4. /\ x.state = srv[k].state /\ x.nick = srv[k].nick
        /\ x.lines = Append(srv[k].lines, Line("nick", nick))
    BY <2>3 DEF Sides
  <2>5. Asked(x.lines)
    <3>1. Line("nick", nick) \in ServerLines /\ Line("nick", nick).cmd = "nick"
      BY DEF Line, ServerLines
    <3>. HIDE DEF x
    <3>. QED BY <2>3, <2>4, <3>1, AskedAppend
  <2>. HIDE DEF x
  <2>. QED BY <1>3, <2>2, <2>4, <2>5
<1>7. CASE \E k \in Conns, state \in {"closed", "lost"} : Break(k, state)
  <2>1. PICK k \in Conns, state \in {"closed", "lost"} : Break(k, state)
    BY <1>7
  <2>2. PICK x : srv' = [srv EXCEPT ![k] = x] /\ x.state = state
    <3>1. srv' = [srv EXCEPT ![k] = Over(state, IF state = "lost" THEN <<>> ELSE srv[k].lines)]
      BY <2>1 DEF Break
    <3>2. Over(state, IF state = "lost" THEN <<>> ELSE srv[k].lines).state = state
      BY DEF Over
    <3>. QED BY <3>1, <3>2
  <2>3. place' = place /\ outBuf' = outBuf
    BY <2>1 DEF Break, threadVars, bufVars
  <2>. QED BY <1>3, <2>2, <2>3
<1>. QED BY <1>4, <1>5, <1>6, <1>7

LEMMA NickSteps == TypeOK /\ DescInv /\ NickInv /\ [Next]_vars => NickInv'
<1>. SUFFICES ASSUME TypeOK, DescInv, NickInv, [Next]_vars PROVE NickInv'
  OBVIOUS
<1>1. CASE Exhausted
  BY <1>1, ExhaustedStays DEF NickInv
<1>2. CASE NickMain
  <2>1. CASE UNCHANGED vars
    BY <1>2, <2>1 DEF vars, threadVars, sockVars, sessVars, bufVars, histVars, NickMain, NickInv,
                      UnderWay, Up, Current
  <2>2. CASE Next
    <3>1. ASSUME NEW t \in Threads, ThreadStep(t) PROVE NickInv'
      <4>1. \/ Connect(t) \/ Disconnect(t)
            \/ Register(t) \/ (t = S /\ (Greet \/ Ping))
            \/ HasLine(S) \/ GetLine(S)
        BY <1>2, <3>1, NotR DEF ThreadStep, Run, ReConnectStep
      <4>. QED BY <1>2, <4>1, NickConnect, NickDisconnect, NickRegister, NickLines DEF NickInv
    <3>2. ASSUME NEW k \in Conns, SocketMgrStep(k) PROVE NickInv'
      BY <1>2, <3>2, NickMgr DEF NickInv
    <3>3. CASE \/ Eat
               \/ \E cmd \in Commands : Type(cmd)
               \/ \E k \in Conns, nick \in OperNicks : OperatorSays(k, nick)
               \/ \E k \in Conns, state \in {"closed", "lost"} : Break(k, state)
      BY <1>2, <3>3, NickWorld DEF NickInv
    <3>. QED BY <2>2, <3>1, <3>2, <3>3 DEF Next
  <2>. QED BY <2>1, <2>2
<1>. QED BY <1>1, <1>2 DEF NickInv

LEMMA NickFollows == TypeOK /\ NickInv => NickAgrees
<1>. SUFFICES ASSUME TypeOK, NickInv, Settled, ~overtaken, m_fd # 0
              PROVE  m_NickTarolo = srv[Current].nick \/ m_NickTarolo \in Erroneous
  BY DEF NickAgrees
<1>1. /\ place[S] = "loop" /\ place[C] = "idle" /\ connState # "connected" /\ Up(Current)
      /\ NoNickIn(outBuf) /\ inBuf = <<>> /\ srv[Current].lines = <<>>
  BY DEF Settled, NoNickIn
<1>2. NickMain
  <2>1. CASE Exhausted
    BY <1>1, <2>1 DEF Exhausted, Up, Current, Fds, Conns
  <2>. QED BY <2>1 DEF NickInv
<1>3. UnderWay
  BY <1>1, <1>2 DEF NickMain
<1>4. ~Asked(inBuf) /\ ~Asked(srv[Current].lines)
  BY <1>1 DEF Asked
<1>5. ~LastNick(outBuf, m_NickTarolo)
  <2>1. ASSUME NEW i \in 1 .. Len(outBuf), outBuf[i] = Line("NICK", m_NickTarolo) PROVE FALSE
    BY <1>1, <2>1 DEF NoNickIn, Line
  <2>. QED BY <2>1 DEF LastNick
<1>. QED BY <1>1, <1>3, <1>4, <1>5 DEF UnderWay, S, C

\* Whatever nicks are refused with 433, connections made anew and nicks asked for
\* by the operator: once everything is answered the bot takes itself for what the
\* server calls it, unless a NICK was read before another nick was noted and
\* written after it (`overtaken'), or the nick noted last is one that the server
\* refuses with 432.  Until then one of the reasons of UnderWay is there.
THEOREM NickIsTheServers == Spec => []NickAgrees
<1>1. Init => DescInv /\ NickInv
  <2>. SUFFICES ASSUME Init PROVE DescInv /\ NickInv
    OBVIOUS
  <2>1. \A f \in Fds : desc[f] \notin Conns
    <3>1. \A f \in Fds : desc[f] = Stdin \/ desc[f] = Free
      BY DEF Init
    <3>2. Stdin \notin Conns /\ Free \notin Conns
      BY DEF Free, Stdin, Conns
    <3>. QED BY <3>1, <3>2
  <2>2. place[R] = "idle" /\ m_fd = 0 /\ connState = "connected"
    BY DEF Init, Threads, R, S
  <2>. QED BY <2>1, <2>2 DEF DescInv, NickInv, NickMain
<1>. QED BY <1>1, InitTypes, NextTypes, DescSteps, NickSteps, NickFollows, PTL DEF Spec
=============================================================================
