----------------------------- MODULE Connection -----------------------------
(***************************************************************************)
(* The connection to the IRC server: the one Socket of the session, the    *)
(* SocketMgr threads that serve it, and the three threads that connect and *)
(* disconnect it: the session (IRCSession::Run), the console (connect,     *)
(* disconnect, reconnect) and the reconnect thread (IRCSession::ReConnect).*)
(* On top of it the registration: NICK, USER, and the nicks that are tried *)
(* one after the other when the server refuses one.                        *)
(*                                                                         *)
(* Descriptors are numbers as in the kernel, for the code takes 0 for "no  *)
(* descriptor": 0 is standard input until somebody closes it.  `outBuf' is *)
(* m_outBuf with the queue behind it (module SendQueue tells them apart).  *)
(***************************************************************************)
EXTENDS Integers, Sequences, FiniteSets, Functions

CONSTANTS
  NickName,    \* m_NickName: the three nicks of the configuration
  TakenSets,   \* the nicks others have on the server: one of these sets
  OperNicks,   \* the nicks an operator may give the bot
  Erroneous,   \* the nicks the server refuses with 432, which has no handler
  MaxFd,       \* the descriptors of the process are 0 .. MaxFd
  Commands,    \* what the operator of the console may type
  Unreachable, \* the host may be unknown, or refuse a connection
  MaxConn,     \* bound of the model: connections ever made
  MaxEvents,   \* bound of the model: commands, of the console or an operator
  MaxBreaks    \* bound of the model: connections that break

NoNick == ""
FixedNicks == <<"_Schumix", "__Schumix", "_Schumix_", "__Schumix_", "__Schumix__">>
Rotation == NickName \o FixedNicks
Nicks == Range(Rotation) \cup OperNicks

ASSUME ConnectionAssumption ==
  /\ NickName \in [1 .. 3 -> STRING] /\ NoNick \notin Nicks
  /\ \A T \in TakenSets : T \subseteq Nicks
  /\ Commands \subseteq {"connect", "disconnect", "reconnect"}
  /\ MaxFd \in Nat /\ MaxConn \in Nat /\ MaxEvents \in Nat /\ MaxBreaks \in Nat
  /\ Unreachable \in BOOLEAN

\* The threads that use the Socket: session, console, reconnect thread.
S == "session"   C == "console"   R == "reconnect"
Threads == {S, C, R}
Conns == 1 .. MaxConn   \* connections, and the SocketMgr started for each
Fds == 0 .. MaxFd
Free == 0   Stdin == -1   Made == -2   \* a descriptor without a connection

VARIABLES
  place,       \* where each thread is
  command,     \* the command the console is at
  copy,        \* the nick a thread has read for its next NICK
  m_fd, pSocketMgr,
  desc,        \* the descriptors: Free, Stdin, Made or a connection
  mgr,         \* where each SocketMgr is: "none", "round", "failed"
  holds,       \* the SocketMgrs with the socket in m_sockets
  outBuf, inBuf,
  connState, m_NickTarolo,
  srv,         \* the server's side of each connection
  taken,
  crashed,     \* "wild": pSocketMgr used unset, "dry": GetLine without a line
  crossed,     \* history: a Disconnect removed a later connection's socket
  clobbered,   \* history: a late failure erased a later descriptor
  overtaken,   \* history: the last NICK carried an outdated copy
  events, breaks

threadVars == <<place, command, copy>>
sockVars == <<m_fd, pSocketMgr, desc, mgr, holds>>
sessVars == <<connState, m_NickTarolo>>
bufVars == <<outBuf, inBuf>>
histVars == <<crossed, clobbered, overtaken>>
countVars == <<events, breaks>>
vars == <<threadVars, sockVars, sessVars, bufVars, srv, taken, crashed, histVars,
                 countVars>>

Line(cmd, nick) == [cmd |-> cmd, nick |-> nick]
Event == events < MaxEvents /\ events' = events + 1 /\ UNCHANGED breaks
At(t, p) == place' = [place EXCEPT ![t] = p]

\* The connection the Socket has now, 0 for none.
Current == IF m_fd \in Fds /\ desc[m_fd] \in Conns THEN desc[m_fd] ELSE 0

\* The server's side of a connection that is over, with what is still to read.
Over(state, lines) ==
  [state |-> state, nick |-> NoNick, user |-> FALSE, reg |-> FALSE, lines |-> lines]

Up(k) == k \in Conns /\ srv[k].state = "up"

Init ==
  /\ place = [t \in Threads |-> IF t = S THEN "open" ELSE "idle"]
  /\ command = "" /\ copy = [t \in Threads |-> NoNick]
  /\ m_fd = 0 /\ pSocketMgr = 0
  /\ desc = [f \in Fds |-> IF f = 0 THEN Stdin ELSE Free]
  /\ mgr = [k \in Conns |-> "none"] /\ holds = {}
  /\ outBuf = <<>> /\ inBuf = <<>>
  /\ connState = "connected" /\ m_NickTarolo = NickName[1]
  /\ srv = [k \in Conns |-> Over("none", <<>>)]
  /\ taken \in TakenSets
  /\ crashed = "" /\ crossed = FALSE /\ clobbered = FALSE
  /\ overtaken = FALSE
  /\ events = 0 /\ breaks = 0

-----------------------------------------------------------------------------
(* Socket::Connect, for any thread.  A failure ends the session's Run; the *)
(* other two answer it with a Disconnect.                                  *)

Failed(t) == At(t, IF t = S THEN "ended" ELSE "close")

\* An existing socket is refused.  socket() gives the least free descriptor,
\* or -1; then gethostbyname, which leaves m_fd as it is when it fails.
ConnectOpen(t) ==
  /\ place[t] = "open"
  /\ IF m_fd # 0
       THEN Failed(t) /\ UNCHANGED <<m_fd, desc>>
       ELSE /\ LET free == {f \in Fds : desc[f] = Free} IN
                 IF free = {} THEN m_fd' = -1 /\ UNCHANGED desc
                 ELSE LET f == CHOOSE x \in free : \A y \in free : x <= y IN
                        m_fd' = f /\ desc' = [desc EXCEPT ![f] = Made]
            /\ \/ At(t, "establish")
               \/ Unreachable /\ Failed(t)
  /\ UNCHANGED <<command, copy, pSocketMgr, mgr, holds, sessVars, bufVars, srv, taken, crashed,
                 histVars, countVars>>

\* connect() fails: the descriptor is forgotten, not closed.
ConnectRefused(t) ==
  /\ place[t] = "establish"
  /\ \/ Unreachable
     \/ m_fd \notin Fds
     \/ m_fd \in Fds /\ desc[m_fd] # Made
  /\ m_fd' = 0
  /\ Failed(t)
  /\ UNCHANGED <<command, copy, pSocketMgr, desc, mgr, holds, sessVars, bufVars, srv, taken,
                 crashed, histVars, countVars>>

\* Faulty: only the first connection gets a SocketMgr (Served).
EstablishOneMgr(t) ==
  /\ place[t] = "establish"
  /\ m_fd \in Fds /\ desc[m_fd] = Made
  /\ \E k \in Conns :
       /\ srv[k].state = "none" /\ \A j \in 1 .. k - 1 : srv[j].state # "none"
       /\ srv' = [srv EXCEPT ![k].state = "up"]
       /\ desc' = [desc EXCEPT ![m_fd] = k]
       /\ IF pSocketMgr = 0
            THEN pSocketMgr' = k /\ mgr' = [mgr EXCEPT ![k] = "round"] /\ holds' = {k}
            ELSE UNCHANGED <<pSocketMgr, mgr, holds>>
  /\ IF t = S THEN At(t, "loop") /\ UNCHANGED connState
              ELSE At(t, "copy") /\ connState' = "connected"
  /\ UNCHANGED <<command, copy, m_fd, m_NickTarolo, bufVars, taken, crashed, histVars, countVars>>

\* connect() succeeds: a new SocketMgr gets the socket; console and reconnect
\* thread also have m_ConnState set.
Establish(t) ==
  /\ place[t] = "establish"
  /\ m_fd \in Fds /\ desc[m_fd] = Made
  /\ \E k \in Conns :
       /\ srv[k].state = "none" /\ \A j \in 1 .. k - 1 : srv[j].state # "none"
       /\ srv' = [srv EXCEPT ![k].state = "up"]
       /\ desc' = [desc EXCEPT ![m_fd] = k]
       /\ mgr' = [mgr EXCEPT ![k] = "round"]
       /\ holds' = holds \cup {k}
       /\ pSocketMgr' = k
  /\ IF t = S THEN At(t, "loop") /\ UNCHANGED connState
              ELSE At(t, "copy") /\ connState' = "connected"
  /\ UNCHANGED <<command, copy, m_fd, m_NickTarolo, bufVars, taken, crashed, histVars, countVars>>

-----------------------------------------------------------------------------
(* Socket::Disconnect                                                      *)

\* CloseSocket(m_fd), whatever m_fd is: 0 is standard input.
DisconnectClose(t) ==
  /\ place[t] = "close"
  /\ IF m_fd \in Fds
       THEN /\ desc' = [desc EXCEPT ![m_fd] = Free]
            /\ srv' = IF Current # 0 THEN [srv EXCEPT ![Current] = Over("closed", <<>>)] ELSE srv
       ELSE UNCHANGED <<desc, srv>>
  /\ m_fd' = 0
  /\ At(t, "remove")
  /\ UNCHANGED <<command, copy, pSocketMgr, mgr, holds, sessVars, bufVars, taken, crashed, histVars,
                 countVars>>

\* RemoveSocket on what pSocketMgr points to by now.
DisconnectRemove(t) ==
  /\ place[t] = "remove"
  /\ IF pSocketMgr = 0
       THEN crashed' = "wild" /\ UNCHANGED <<holds, crossed>>
       ELSE /\ holds' = holds \ {pSocketMgr}
            /\ crossed' = (Current # 0)
            /\ UNCHANGED crashed
  /\ IF t = C /\ command = "reconnect"
       THEN At(t, "open") /\ command' = "connect"
       ELSE At(t, "idle") /\ command' = IF t = C THEN "" ELSE command
  /\ UNCHANGED <<copy, m_fd, pSocketMgr, desc, mgr, sessVars, bufVars, srv, taken, clobbered,
                 overtaken, countVars>>

-----------------------------------------------------------------------------
(* A SocketMgr.  It writes while there is something to write, and reads    *)
(* otherwise; it never ends.                                               *)

\* The server takes a line; after a QUIT it listens no more.
ServerTakes(s, line) ==
  IF s.state # "up" THEN s
  ELSE CASE line.cmd = "NICK" ->
              IF line.nick \in Erroneous
                THEN [s EXCEPT !.lines = Append(@, Line("432", NoNick))]
              ELSE IF line.nick \in taken
                THEN [s EXCEPT !.lines = Append(@, Line("433", NoNick))]
                ELSE IF s.user /\ ~s.reg
                  THEN [s EXCEPT !.nick = line.nick, !.reg = TRUE,
                                !.lines = Append(@, Line("001", NoNick))]
                  ELSE [s EXCEPT !.nick = line.nick]
         [] line.cmd = "USER" ->
              IF s.nick # NoNick /\ ~s.reg
                THEN [s EXCEPT !.user = TRUE, !.reg = TRUE,
                              !.lines = Append(@, Line("001", NoNick))]
                ELSE [s EXCEPT !.user = TRUE]
         [] line.cmd = "QUIT" -> Over("closed", s.lines)
         [] OTHER -> s

\* The server after each of the first lines.
ServerTook(s, lines) ==
  LET took[i \in 0 .. Len(lines)] == IF i = 0 THEN s ELSE ServerTakes(took[i - 1], lines[i])
  IN took

\* send() of all that is to be sent: the socket is blocking.
Write(k) ==
  /\ k \in holds /\ mgr[k] = "round" /\ m_fd \in Fds
  /\ outBuf # <<>>
  /\ IF Up(Current)
       THEN /\ outBuf' = <<>>
            /\ srv' = [srv EXCEPT ![Current] = ServerTook(@, outBuf)[Len(outBuf)]]
            /\ UNCHANGED mgr
       ELSE /\ mgr' = [mgr EXCEPT ![k] = "failed"]
            /\ UNCHANGED <<outBuf, srv>>
  /\ UNCHANGED <<threadVars, m_fd, pSocketMgr, desc, holds, sessVars, inBuf, taken, crashed,
                 histVars, countVars>>

Readable == Current # 0 /\ srv[Current].state # "lost" /\ srv[Current].lines # <<>>

\* recv(): lines, or the failure of a connection that the server has closed
\* or of a descriptor that is none.  A lost connection says nothing.
Read(k) ==
  /\ k \in holds /\ mgr[k] = "round" /\ m_fd \in Fds
  /\ outBuf = <<>>
  /\ \/ /\ Readable
        /\ inBuf' = inBuf \o srv[Current].lines
        /\ srv' = [srv EXCEPT ![Current].lines = <<>>]
        /\ UNCHANGED mgr
     \/ /\ ~Readable
        /\ Current # 0 => srv[Current].state = "closed"
        /\ mgr' = [mgr EXCEPT ![k] = "failed"]
        /\ UNCHANGED <<inBuf, srv>>
  /\ UNCHANGED <<threadVars, m_fd, pSocketMgr, desc, holds, sessVars, outBuf, taken, crashed,
                 histVars, countVars>>

\* s->m_fd = NULL, some instructions after the failure.
Drop(k) ==
  /\ mgr[k] = "failed"
  /\ mgr' = [mgr EXCEPT ![k] = "round"]
  /\ clobbered' = (m_fd # 0 /\ (Up(Current) \/ Current = 0))
  /\ m_fd' = 0
  /\ UNCHANGED <<threadVars, pSocketMgr, desc, holds, sessVars, bufVars, srv, taken, crashed,
                 crossed, overtaken, countVars>>

-----------------------------------------------------------------------------
(* NICK and USER: the session when m_ConnState is CONN_CONNECTED, console  *)
(* and reconnect thread one second after they have connected.              *)

Greet ==
  /\ place[S] = "loop" /\ connState = "connected"
  /\ copy' = [copy EXCEPT ![S] = m_NickTarolo]
  /\ At(S, "nick")
  /\ UNCHANGED <<command, sockVars, sessVars, bufVars, srv, taken, crashed, histVars,
                 countVars>>

GreetLater(t) ==
  /\ place[t] = "copy"
  /\ copy' = [copy EXCEPT ![t] = m_NickTarolo]
  /\ At(t, "nick")
  /\ UNCHANGED <<command, sockVars, sessVars, bufVars, srv, taken, crashed, histVars,
                 countVars>>

WriteNick(t) ==
  /\ place[t] = "nick"
  /\ outBuf' = Append(outBuf, Line("NICK", copy[t]))
  /\ overtaken' = (copy[t] # m_NickTarolo)
  /\ copy' = [copy EXCEPT ![t] = NoNick]
  /\ At(t, "user")
  /\ UNCHANGED <<command, sockVars, sessVars, inBuf, srv, taken, crashed, crossed, clobbered,
                 countVars>>

\* Afterwards the session notes CONN_REGISTERING, the reconnect thread looks
\* for a line, the console is done.
WriteUser(t) ==
  /\ place[t] = "user"
  /\ outBuf' = Append(outBuf, Line("USER", NoNick))
  /\ connState' = IF t = S THEN "registering" ELSE connState
  /\ At(t, CASE t = S -> "loop" [] t = R -> "look" [] t = C -> "idle")
  /\ command' = IF t = C THEN "" ELSE command
  /\ UNCHANGED <<copy, sockVars, m_NickTarolo, inBuf, srv, taken, crashed, histVars, countVars>>

-----------------------------------------------------------------------------
(* Lines of the server                                                     *)

\* Faulty: lines are looked at before NICK and USER are written (NickAgrees).
HasLineFirst(t) ==
  /\ place[t] = IF t = S THEN "loop" ELSE "look"
  /\ t = S => inBuf # <<>>
  /\ At(t, IF inBuf # <<>> THEN "get" ELSE "idle")
  /\ UNCHANGED <<command, copy, sockVars, sessVars, bufVars, srv, taken, crashed, histVars,
                 countVars>>

HasLine(t) ==
  /\ place[t] = IF t = S THEN "loop" ELSE "look"
  /\ t = S => connState # "connected" /\ inBuf # <<>>
  /\ At(t, IF inBuf # <<>> THEN "get" ELSE "idle")
  /\ UNCHANGED <<command, copy, sockVars, sessVars, bufVars, srv, taken, crashed, histVars,
                 countVars>>

\* Faulty: the configured nicks have no successor (TypeOK).
NextNickFixedOnly(nick) ==
  IF nick \in Range(FixedNicks)
    THEN LET i == CHOOSE j \in 1 .. Len(Rotation) : j > 3 /\ Rotation[j] = nick
         IN Rotation[(i % Len(Rotation)) + 1]
    ELSE NoNick

\* The nick after one the server refused.
NextNick(nick) ==
  IF \E i \in 1 .. Len(Rotation) : Rotation[i] = nick
    THEN LET i == CHOOSE j \in 1 .. Len(Rotation) :
                    Rotation[j] = nick /\ \A h \in 1 .. j - 1 : Rotation[h] # nick
         IN Rotation[(i % Len(Rotation)) + 1]
    ELSE NickName[1]

\* Faulty: the next nick is noted but not sent (Registers).
HandleNickErrorSilent ==
  /\ m_NickTarolo' = NextNick(m_NickTarolo)
  /\ UNCHANGED <<connState, outBuf, overtaken>>

\* 433
HandleNickError ==
  /\ m_NickTarolo' = NextNick(m_NickTarolo)
  /\ connState' = "connected"
  /\ UNCHANGED <<outBuf, overtaken>>

\* A numeric without a handler.
HandleUnknown == UNCHANGED <<sessVars, outBuf, overtaken>>

\* 001; what it says to NickServ and the channels is module Channels'.
HandleSuccessfulAuth ==
  /\ connState' = "registered"
  /\ UNCHANGED <<m_NickTarolo, outBuf, overtaken>>

\* The operator's command nick: the nick is noted before the server answers.
HandleNick(nick) ==
  /\ m_NickTarolo' = nick
  /\ outBuf' = Append(outBuf, Line("NICK", nick))
  /\ overtaken' = FALSE
  /\ UNCHANGED connState

GetLine(t) ==
  /\ place[t] = "get"
  /\ IF inBuf = <<>>
       THEN crashed' = "dry" /\ UNCHANGED <<inBuf, outBuf, sessVars, overtaken>>
       ELSE /\ inBuf' = Tail(inBuf)
            /\ CASE Head(inBuf).cmd = "433" -> HandleNickError
                 [] Head(inBuf).cmd = "432" -> HandleUnknown
                 [] Head(inBuf).cmd = "001" -> HandleSuccessfulAuth
                 [] Head(inBuf).cmd = "nick" -> HandleNick(Head(inBuf).nick)
            /\ UNCHANGED crashed
  /\ At(t, IF t = S THEN "loop" ELSE "idle")
  /\ UNCHANGED <<command, copy, sockVars, srv, taken, crossed, clobbered, countVars>>

\* Faulty: PING only once the bot is registered (BreakIsNoticed).
PingRegistered ==
  /\ place[S] = "loop" /\ connState = "registered"
  /\ Current # 0 /\ srv[Current].state = "lost"
  /\ \A i \in 1 .. Len(outBuf) : outBuf[i].cmd # "PING"
  /\ outBuf' = Append(outBuf, Line("PING", NoNick))
  /\ UNCHANGED <<threadVars, sockVars, sessVars, inBuf, srv, taken, crashed, histVars, countVars>>

\* The session's PING, every fifteen seconds.  It is left out where it changes
\* nothing: while the server answers, and behind a PING not yet sent.
Ping ==
  /\ place[S] = "loop"
  /\ Current # 0 /\ srv[Current].state = "lost"
  /\ \A i \in 1 .. Len(outBuf) : outBuf[i].cmd # "PING"
  /\ outBuf' = Append(outBuf, Line("PING", NoNick))
  /\ UNCHANGED <<threadVars, sockVars, sessVars, inBuf, srv, taken, crashed, histVars, countVars>>

-----------------------------------------------------------------------------
(* The console, which reads descriptor 0, and the reconnect thread         *)

\* A command is typed.  Disconnect and reconnect write QUIT and wait a second.
Type(cmd) ==
  /\ place[C] = "idle" /\ desc[0] = Stdin
  /\ Event
  /\ command' = cmd
  /\ IF cmd = "connect"
       THEN At(C, "open") /\ UNCHANGED outBuf
       ELSE At(C, "close") /\ outBuf' = Append(outBuf, Line("QUIT", NoNick))
  /\ UNCHANGED <<copy, sockVars, sessVars, inBuf, srv, taken, crashed, histVars>>

\* With a socket as descriptor 0 the console reads what the server sends.
Eat ==
  /\ place[C] = "idle" /\ desc[0] \in Conns
  /\ srv[desc[0]].state # "lost" /\ srv[desc[0]].lines # <<>>
  /\ srv' = [srv EXCEPT ![desc[0]].lines = Tail(@)]
  /\ UNCHANGED <<threadVars, sockVars, sessVars, bufVars, taken, crashed, histVars, countVars>>

IsConnected == m_fd # -1

\* The reconnect thread, with the function reconnect on.
ReConnect ==
  /\ place[R] = "idle" /\ ~IsConnected
  /\ At(R, "open")
  /\ UNCHANGED <<command, copy, sockVars, sessVars, bufVars, srv, taken, crashed, histVars,
                 countVars>>

-----------------------------------------------------------------------------
(* The server and the network                                              *)

OperatorSays(k, nick) ==
  /\ Up(k) /\ srv[k].reg
  /\ Event
  /\ srv' = [srv EXCEPT ![k].lines = Append(@, Line("nick", nick))]
  /\ UNCHANGED <<threadVars, sockVars, sessVars, bufVars, taken, crashed, histVars>>

\* The server closes a connection, or it is lost without a word.
Break(k, state) ==
  /\ Up(k)
  /\ breaks < MaxBreaks /\ breaks' = breaks + 1 /\ UNCHANGED events
  /\ srv' = [srv EXCEPT ![k] = Over(state, IF state = "lost" THEN <<>> ELSE @.lines)]
  /\ UNCHANGED <<threadVars, sockVars, sessVars, bufVars, taken, crashed, histVars>>

Connect(t) == ConnectOpen(t) \/ ConnectRefused(t) \/ Establish(t)
Disconnect(t) == DisconnectClose(t) \/ DisconnectRemove(t)
Register(t) == GreetLater(t) \/ WriteNick(t) \/ WriteUser(t)
Run == Greet \/ Ping \/ HasLine(S) \/ GetLine(S)
ReConnectStep == ReConnect \/ HasLine(R) \/ GetLine(R)
ThreadStep(t) ==
  \/ Connect(t) \/ Disconnect(t) \/ Register(t)
  \/ t = S /\ Run
  \/ t = R /\ ReConnectStep
SocketMgrStep(k) == Write(k) \/ Read(k) \/ Drop(k)

\* The model ends with a crash, and where a race has taken the socket from its
\* SocketMgr: nothing is claimed of what follows.
Going == crashed = "" /\ ~crossed /\ ~clobbered

Next ==
  /\ Going
  /\ \/ \E t \in Threads : ThreadStep(t)
     \/ \E k \in Conns : SocketMgrStep(k)
     \/ Eat
     \/ \E cmd \in Commands : Type(cmd)
     \/ \E k \in Conns, nick \in OperNicks : OperatorSays(k, nick)
     \/ \E k \in Conns, state \in {"closed", "lost"} : Break(k, state)

Spec == Init /\ [][Next]_vars

\* The system runs every thread.  Nothing is assumed of the operator, of the
\* network and of the server's wish to close.
Fairness ==
  /\ \A t \in Threads : WF_vars(Going /\ ThreadStep(t))
  /\ \A k \in Conns : WF_vars(Going /\ SocketMgrStep(k))

FairSpec == Spec /\ Fairness

-----------------------------------------------------------------------------
(* Properties                                                              *)

\* What bot and server write, and the server's side of a connection.
BotLines == [cmd : {"NICK", "USER", "PING", "QUIT"}, nick : Nicks \cup {NoNick}]
ServerLines == [cmd : {"001", "432", "433"}, nick : {NoNick}] \cup [cmd : {"nick"}, nick : OperNicks]
Sides == [state : {"none", "up", "closed", "lost"}, nick : Nicks \cup {NoNick},
          user : BOOLEAN, reg : BOOLEAN, lines : Seq(ServerLines)]

\* Types of the variables of the socket, the session and the server.
TypeOK ==
  /\ place \in [Threads -> {"idle", "open", "establish", "close", "remove", "copy", "nick",
                            "user", "loop", "look", "get", "ended"}]
  /\ command \in Commands \cup {"", "connect"} /\ copy \in [Threads -> Nicks \cup {NoNick}]
  /\ m_fd \in {-1} \cup Fds /\ pSocketMgr \in {0} \cup Conns
  /\ desc \in [Fds -> {Free, Stdin, Made} \cup Conns]
  /\ mgr \in [Conns -> {"none", "round", "failed"}] /\ holds \subseteq Conns
  /\ outBuf \in Seq(BotLines) /\ inBuf \in Seq(ServerLines)
  /\ connState \in {"connected", "registering", "registered"} /\ m_NickTarolo \in Nicks
  /\ srv \in [Conns -> Sides] /\ taken \subseteq Nicks
  /\ crashed \in {"", "wild", "dry"}

\* The connection of the socket is in the m_sockets of the SocketMgr that was
\* started for it (otherwise its lines are neither sent nor read, and its end is
\* never noticed), unless the Disconnect of one thread has met the Connect of
\* another. With descriptor 0, which the code takes for none, the socket can
\* have a connection again that was given up before.
Served == m_fd # 0 /\ Current # 0 /\ ~crossed => Current \in holds

\* Nothing under way that could change the nick.
Settled ==
  /\ place[S] = "loop" /\ place[C] = "idle" /\ place[R] = "idle" /\ connState # "connected"
  /\ Up(Current) /\ srv[Current].reg
  /\ \A i \in 1 .. Len(outBuf) : outBuf[i].cmd # "NICK"
  /\ inBuf = <<>> /\ srv[Current].lines = <<>>

\* Once everything is answered the bot knows its own nick (by which it tells
\* its own joins and kicks from those of others), whatever was refused with 433,
\* unless the console wrote a NICK it had read before the session took another.
\* After a refusal with 432 it takes itself for the nick that was refused, for
\* good: HandleNick has noted it, and nothing handles the answer.
NickAgrees ==
  Settled /\ ~overtaken /\ m_fd # 0
    => m_NickTarolo = srv[Current].nick \/ m_NickTarolo \in Erroneous

\* The end of a connection is noticed, even one that nobody announces.
BreakIsNoticed ==
  (Current # 0 /\ ~Up(Current) /\ place[S] = "loop")
    ~> (Current = 0 \/ ~Going \/ Current = desc[0])

\* A connection that stays up gets the bot registered, whatever nicks are
\* taken, as long as one of the rotation is free; unless the bot was told to
\* take a nick that is refused with 432, which it then repeats to no answer.
Registers ==
  (Up(Current) /\ place[S] = "loop")
    ~> \/ ~Up(Current) \/ srv[Current].reg
       \/ m_NickTarolo \in Erroneous
       \/ ~Going \/ Current = desc[0]

\* With the function reconnect on, a connection that ends is made again.
Reconnects == (\E k \in Conns : srv[k].state \in {"closed", "lost"}) ~> Up(Current)
=============================================================================
