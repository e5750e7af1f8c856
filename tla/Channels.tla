------------------------------ MODULE Channels ------------------------------
(***************************************************************************)
(* The channels the bot keeps: the table channel, its two copies in the    *)
(* session (m_ChannelLista, m_ChannelFunkcio), what the server thinks the  *)
(* bot has joined, and everything that changes them: the registration, the *)
(* answers to JOIN and PART, a kick, the commands channel, funkcio, join,  *)
(* left and nick.  All of it runs in the session's thread, one message     *)
(* after the other.                                                        *)
(*                                                                         *)
(* A line of the server is taken at the moment the session handles it, so  *)
(* `joined' and `called' are the server's view at that place of its        *)
(* stream, and the lines of the bot it has not answered by then are `out'. *)
(* connState is the server's view too: a 433 in the middle of a session    *)
(* sets m_ConnState back (module Connection), which nothing here looks at. *)
(***************************************************************************)
EXTENDS Integers, Sequences

CONSTANTS
  Names,       \* spellings of channel names
  Fold,        \* the channel a spelling names, for the server and for `WHERE szoba ='
  Keys, NoKey, \* the passwords of channels; no password
  ServerKey,   \* the password each channel really has
  Funkciok,    \* names of channel functions
  Alap,        \* the functions a new row gets
  Op,          \* the nick of the operator, where a private command is answered
  Nicks,       \* the nicks of the configuration and of the command nick
  NickName,    \* m_NickName[0]
  Nevek,       \* the sets of functions a command names
  FirstRows,   \* rows of the table before the start
  MaxId,       \* bound of the model: rows ever inserted
  MaxFlight,   \* bound of the model: bursts of lines the server has not answered
  MaxEvents    \* bound of the model: commands, kicks, 404s, 433s, breaks

Status == {"be", "ki"}
Chans == {Fold[n] : n \in Names}
NoPlace == ""
NoList == [f \in {} |-> "ki"]
Lists == [Funkciok -> Status] \cup {NoList}
Rows == [szoba : Names, jelszo : Keys, funkciok : Lists,
         aktivitas : {"", "aktiv", "nem aktiv"}, error : {"", "channel ban", "hibas channel jelszo"}]

ASSUME ChannelsAssumption ==
  /\ Fold \in [Names -> Chans] /\ ServerKey \in [Chans -> Keys]
  /\ NoKey \in Keys /\ Op \notin Names
  /\ {"parancsok", "rejoin"} \subseteq Funkciok /\ Alap \in [Funkciok -> Status]
  /\ Nevek \subseteq SUBSET Funkciok
  /\ FirstRows \in Seq(Rows) /\ Len(FirstRows) <= MaxId
  /\ MaxId \in Nat /\ MaxFlight \in Nat \ {0} /\ MaxEvents \in Nat

ASSUME NicksAssumption ==
  /\ NickName \in Nicks /\ NoPlace \notin Names \cup {Op}
  /\ \A n \in Nicks : n \notin Names \cup {Op}

VARIABLES
  channel,     \* the table channel: id (auto_increment) to row
  nextId,
  schumix,     \* funkcio_status of the table schumix
  lista,       \* m_ChannelLista: name to password
  cache,       \* m_ChannelFunkcio: name to functions
  connState, hAktivitas,
  useHostServ, \* m_UseHostServ, of the configuration
  privmsg,     \* m_ChannelPrivmsg: who is told that a JOIN was refused
  nick,        \* m_NickTarolo: set at once by every change
  out,         \* lines the server has not answered, in bursts
  joined,      \* the channels the bot is in
  called,      \* the nick the server knows the bot by
  away,        \* history: why the bot is out of a channel
  asked,       \* history: channels an operator asked for with join
  asks,        \* history: requests of each place not yet reported to it
  had,         \* history: what m_NickTarolo has been
  events

tableVars == <<channel, nextId>>
sessVars == <<connState, hAktivitas, useHostServ>>
nickVars == <<nick, called, had>>
histVars == <<away, asked, asks>>
vars == <<tableVars, schumix, lista, cache, sessVars, nickVars, privmsg, out, joined, histVars,
          events>>

-----------------------------------------------------------------------------
(* The table and its copies                                                *)

Least(S) == CHOOSE i \in S : \A j \in S : i <= j

\* WHERE szoba = 'n'
RowsOf(t, n) == {id \in DOMAIN t : n \in Names /\ Fold[t[id].szoba] = Fold[n]}

\* SELECT funkciok FROM channel WHERE szoba = 'n': the first row answered.
SelectFunkciok(t, n) == t[Least(RowsOf(t, n))].funkciok

\* UPDATE channel SET funkciok = 'f' WHERE szoba = 'n', for n in ns
UpdateFunkciok(t, ns, f) ==
  [id \in DOMAIN t |-> IF \E n \in ns : id \in RowsOf(t, n)
                         THEN [t[id] EXCEPT !.funkciok = f] ELSE t[id]]

\* UPDATE channel SET aktivitas = 'a', error = 'e' WHERE szoba = 'n', for n in ns
UpdateAktivitas(t, ns, a, e) ==
  [id \in DOMAIN t |-> IF \E n \in ns : id \in RowsOf(t, n)
                         THEN [t[id] EXCEPT !.aktivitas = a, !.error = e] ELSE t[id]]

\* map::insert keeps the first password of a name.
ChannelListaReload(t) ==
  [n \in {t[id].szoba : id \in DOMAIN t} |->
     t[Least({id \in DOMAIN t : t[id].szoba = n})].jelszo]

ChannelFunkcioReload(t, l) ==
  [n \in {m \in DOMAIN l : RowsOf(t, m) # {}} |-> SelectFunkciok(t, n)]

\* The names are compared with ==: another spelling is not found.
Cached(n) == IF n \in DOMAIN cache THEN cache[n] ELSE NoList

FSelect(nev) == schumix[nev]
FSelectChannel(nev, n) == IF nev \in DOMAIN Cached(n) THEN Cached(n)[nev] ELSE ""

\* Faulty: the list is built from the named functions only (TypeOK).
ChannelFunkciokOnlyNamed(nevek, status, n) ==
  [f \in DOMAIN Cached(n) \cap nevek |-> status]

\* The list of n with the functions nevek set: of the cache, not of the table.
ChannelFunkciok(nevek, status, n) ==
  [f \in DOMAIN Cached(n) |-> IF f \in nevek THEN status ELSE Cached(n)[f]]

-----------------------------------------------------------------------------
(* Lines to the server.  The JOINs of one loop are one burst, answered in  *)
(* any order; bursts are answered in the order they were sent.             *)

Line(n, k) == [szoba |-> n, jelszo |-> k]

\* Faulty: a channel with a password is not joined again (NoneForgotten).
ListedLinesOpen(l) == {Line(n, l[n]) : n \in {m \in DOMAIN l : l[m] = NoKey}}

ListedLines(l) == {Line(n, l[n]) : n \in DOMAIN l}

Send(cmd, lines) ==
  /\ Len(out) < MaxFlight
  /\ IF lines = {} THEN UNCHANGED out
                   ELSE out' = Append(out, [cmd |-> cmd, lines |-> lines])

\* The head line of the stream is answered.
Answered(cmd, line) ==
  /\ out # <<>> /\ Head(out).cmd = cmd /\ line \in Head(out).lines
  /\ out' = IF Head(out).lines = {line} THEN Tail(out)
            ELSE [out EXCEPT ![1].lines = @ \ {line}]

Event == events < MaxEvents /\ events' = events + 1

-----------------------------------------------------------------------------
(* Registration                                                            *)

Init ==
  /\ channel = FirstRows /\ nextId = Len(FirstRows) + 1
  /\ schumix = [f \in Funkciok |-> "be"]
  /\ lista = ChannelListaReload(FirstRows) \* RehashConfig
  /\ cache = NoList
  /\ connState = "connected" /\ hAktivitas = FALSE /\ useHostServ \in BOOLEAN
  /\ nick = NickName /\ called = NickName /\ had = {NickName}
  /\ privmsg = NoPlace /\ out = <<>> /\ joined = {}
  /\ away = [c \in Chans |-> ""] /\ asked = {}
  /\ asks = [s \in Names \cup {Op} |-> 0]
  /\ events = 0

\* The loop over m_ChannelLista: join, clear aktivitas and error, fill the
\* cache, and (aktivitas is '' by now) record the channel as active.
JoinListed ==
  /\ Send("JOIN", ListedLines(lista))
  /\ channel' = UpdateAktivitas(channel, DOMAIN lista, "aktiv", "")
  /\ cache' = ChannelFunkcioReload(channel, lista)
  /\ privmsg' = nick
  /\ UNCHANGED <<nextId, schumix, lista, joined, nick, had, histVars, events>>

\* 001, under m_NickTarolo or (Connection's overtaken) what it was before.
HandleSuccessfulAuth ==
  /\ connState = "connected" /\ connState' = "registered"
  /\ called' \in had
  /\ IF useHostServ
       THEN /\ hAktivitas' = TRUE
            /\ UNCHANGED <<tableVars, schumix, lista, cache, privmsg, out, joined, nick, had,
                           histVars, events>>
       ELSE JoinListed /\ UNCHANGED hAktivitas
  /\ UNCHANGED useHostServ

\* NOTICE of HostServ: "Your vhost of ... is now activated"
HandleNotice ==
  /\ connState = "registered" /\ useHostServ /\ hAktivitas
  /\ hAktivitas' = FALSE
  /\ JoinListed /\ UNCHANGED <<connState, useHostServ, called>>

\* The connection breaks and the console connects again: what is on its way
\* is lost, what is still queued is not.
Reconnect ==
  /\ connState = "registered" /\ connState' = "connected"
  /\ Event
  /\ joined' = {} /\ away' = [c \in Chans |-> ""]
  /\ \E k \in 0..Len(out) : out' = SubSeq(out, k + 1, Len(out))
  /\ UNCHANGED <<tableVars, schumix, lista, cache, hAktivitas, useHostServ, nickVars, privmsg,
                 asked, asks>>

\* A queued line reaches the server before the bot is registered.
Dropped(line) ==
  /\ connState = "connected"
  /\ \E cmd \in {"JOIN", "PART", "NICK"} : Answered(cmd, line)
  /\ UNCHANGED <<tableVars, schumix, lista, cache, sessVars, nickVars, privmsg, joined, histVars,
                 events>>

-----------------------------------------------------------------------------
(* Answers of the server                                                   *)

Enters(line) == Fold[line.szoba] \notin joined
KeyFits(line) == ServerKey[Fold[line.szoba]] \in {NoKey, line.jelszo}

\* The bot's own JOIN (HandleJoin returns at once), or none when it is in.
JoinAccepted(line) ==
  /\ connState = "registered" /\ Answered("JOIN", line)
  /\ Enters(line) => KeyFits(line)
  /\ joined' = joined \cup {Fold[line.szoba]}
  /\ away' = [away EXCEPT ![Fold[line.szoba]] = ""]
  /\ UNCHANGED <<tableVars, schumix, lista, cache, sessVars, nickVars, privmsg, asked, asks,
                 events>>

\* Faulty: m_ChannelPrivmsg is not set back (ReportsAreAsked).
RefusalStoredKeepsSlot(line, why, hiba) ==
  /\ connState = "registered" /\ Answered("JOIN", line) /\ Enters(line)
  /\ channel' = UpdateAktivitas(channel, {line.szoba}, "nem aktiv", hiba)
  /\ asks' = IF privmsg \in DOMAIN asks THEN [asks EXCEPT ![privmsg] = @ - 1] ELSE asks
  /\ away' = [away EXCEPT ![Fold[line.szoba]] = why]
  /\ UNCHANGED <<nextId, schumix, lista, cache, sessVars, nickVars, privmsg, joined, asked, events>>

\* The common part of the handlers of 474 and 475.
RefusalStored(line, why, hiba) ==
  /\ connState = "registered" /\ Answered("JOIN", line) /\ Enters(line)
  /\ channel' = UpdateAktivitas(channel, {line.szoba}, "nem aktiv", hiba)
  /\ asks' = IF privmsg \in DOMAIN asks THEN [asks EXCEPT ![privmsg] = @ - 1] ELSE asks
  /\ privmsg' = nick
  /\ away' = [away EXCEPT ![Fold[line.szoba]] = why]
  /\ UNCHANGED <<nextId, schumix, lista, cache, sessVars, nickVars, joined, asked, events>>

\* 475
HandleNoChannelJelszo(line) ==
  ~KeyFits(line) /\ RefusalStored(line, "475", "hibas channel jelszo")

\* 474
HandleChannelBan(line) == RefusalStored(line, "474", "channel ban")

\* 471 (full) and 473 (invite only) have no handler.
JoinRefused(line) ==
  /\ connState = "registered" /\ Answered("JOIN", line) /\ Enters(line)
  /\ away' = [away EXCEPT ![Fold[line.szoba]] = "471"]
  /\ UNCHANGED <<tableVars, schumix, lista, cache, sessVars, nickVars, privmsg, joined, asked, asks,
                 events>>

Parted(line) ==
  /\ connState = "registered" /\ Answered("PART", line)
  /\ joined' = joined \ {Fold[line.szoba]}
  /\ away' = [away EXCEPT ![Fold[line.szoba]] = "left"]
  /\ UNCHANGED <<tableVars, schumix, lista, cache, sessVars, nickVars, privmsg, asked, asks,
                 events>>

\* The kick of who out of n: one of m_NickTarolo has all channels joined again,
\* or none.  The bot may be kicked as `called', another as m_NickTarolo.
HandleKick(n, who) ==
  /\ connState = "registered" /\ Fold[n] \in joined /\ Event
  /\ who \in {nick, called}
  /\ joined' = IF who = called THEN joined \ {Fold[n]} ELSE joined
  /\ IF who = nick /\ FSelect("rejoin") = "be" /\ FSelectChannel("rejoin", n) = "be"
       THEN Send("JOIN", ListedLines(lista)) /\ UNCHANGED away
       ELSE /\ away' = IF who # called THEN away
                       ELSE [away EXCEPT ![Fold[n]] = IF who = nick THEN "kicked" ELSE "unseen"]
            /\ UNCHANGED out
  /\ UNCHANGED <<tableVars, schumix, lista, cache, sessVars, nickVars, privmsg, asked, asks>>

\* 404, the answer to a message the bot may not send to a channel.
HandleReJoin ==
  /\ connState = "registered" /\ Event
  /\ FSelect("rejoin") = "be"
  /\ Send("JOIN", {line \in ListedLines(lista) : FSelectChannel("rejoin", line.szoba) = "be"})
  /\ UNCHANGED <<tableVars, schumix, lista, cache, sessVars, nickVars, privmsg, joined, histVars>>

\* The server takes a new nick (the handler of NICK prints it) ...
NickAccepted(n) ==
  /\ connState = "registered" /\ Answered("NICK", Line(n, NoKey))
  /\ called' = n
  /\ UNCHANGED <<tableVars, schumix, lista, cache, sessVars, nick, had, privmsg, joined, histVars,
                 events>>

\* ... or refuses it with an answer that has no handler, 432 ...
NickRefused(n) ==
  /\ connState = "registered" /\ Answered("NICK", Line(n, NoKey))
  /\ UNCHANGED <<tableVars, schumix, lista, cache, sessVars, nickVars, privmsg, joined, histVars,
                 events>>

\* ... or with 433: another (Connection says which) is noted, and sent.
HandleNickError(n, next) ==
  /\ Event
  /\ nick' = next /\ had' = had \cup {next}
  /\ \/ connState = "connected" /\ UNCHANGED out
     \/ /\ connState = "registered"
        /\ out # <<>> /\ Head(out) = [cmd |-> "NICK", lines |-> {Line(n, NoKey)}]
        /\ out' = Append(Tail(out), [cmd |-> "NICK", lines |-> {Line(next, NoKey)}])
  /\ UNCHANGED <<tableVars, schumix, lista, cache, sessVars, called, privmsg, joined, histVars>>

-----------------------------------------------------------------------------
(* Commands.  src is where an operator gave it: a channel, or Op (CNick)   *)

HandlePrivmsg(src) ==
  /\ connState = "registered" /\ Event
  /\ FSelect("parancsok") = "be"
  /\ src \in Names => Fold[src] \in joined /\ FSelectChannel("parancsok", src) = "be"

\* Faulty: funkcio does not reload the cache (EditKeepsOthers).
EditFunkciokStale(n, status, nevek) ==
  /\ channel' = UpdateFunkciok(channel, {n}, ChannelFunkciok(nevek, status, n))
  /\ UNCHANGED <<cache, schumix>>

\* funkcio be|ki <functions>, and funkcio channel <n> be|ki <functions>
EditFunkciok(n, status, nevek) ==
  /\ channel' = UpdateFunkciok(channel, {n}, ChannelFunkciok(nevek, status, n))
  /\ cache' = ChannelFunkcioReload(channel', lista)
  /\ UNCHANGED schumix

\* funkcio update [<n> | all]
ResetFunkciok(ns) ==
  /\ channel' = UpdateFunkciok(channel, ns, Alap)
  /\ cache' = ChannelFunkcioReload(channel', lista)
  /\ UNCHANGED schumix

\* funkcio all be|ki <functions>
SwitchAll(status, nevek) ==
  /\ schumix' = [f \in Funkciok |-> IF f \in nevek THEN status ELSE schumix[f]]
  /\ UNCHANGED <<channel, cache>>

HandleFunkciok(src) ==
  /\ HandlePrivmsg(src)
  /\ \/ \E n \in Names \cup {src}, status \in Status, nevek \in Nevek :
          EditFunkciok(n, status, nevek)
     \/ \E n \in Names \cup {src} : ResetFunkciok({n})
     \/ ResetFunkciok(DOMAIN lista)
     \/ \E status \in Status, nevek \in Nevek : SwitchAll(status, nevek)
  /\ UNCHANGED <<nextId, lista, sessVars, nickVars, privmsg, out, joined, histVars>>

\* The console switches functions off and on for all channels, too.
ConsoleFunkcio ==
  /\ Event
  /\ \E status \in Status, nev \in Funkciok : SwitchAll(status, {nev})
  /\ UNCHANGED <<nextId, lista, sessVars, nickVars, privmsg, out, joined, histVars>>

\* Faulty: the functions are not read again (CopiesMatchTable).
ReloadListaOnly ==
  /\ lista' = ChannelListaReload(channel')
  /\ UNCHANGED cache

ReloadBoth ==
  /\ lista' = ChannelListaReload(channel')
  /\ cache' = ChannelFunkcioReload(channel', lista')

Asks(src) ==
  /\ privmsg' = src
  /\ asks' = [asks EXCEPT ![src] = @ + 1]

\* channel add <n> [<password>]
HandleChannelAdd(src, n, k) ==
  /\ HandlePrivmsg(src) /\ nextId <= MaxId
  /\ Send("JOIN", {Line(n, k)})
  /\ LET row == [szoba |-> n, jelszo |-> k, funkciok |-> Alap, aktivitas |-> "", error |-> ""]
         t == [id \in DOMAIN channel \cup {nextId} |-> IF id = nextId THEN row ELSE channel[id]]
     IN channel' = [id \in DOMAIN t |-> IF id \in RowsOf(t, n)
                                          THEN [t[id] EXCEPT !.aktivitas = "aktiv"] ELSE t[id]]
  /\ nextId' = nextId + 1
  /\ Asks(src) /\ ReloadBoth
  /\ UNCHANGED <<schumix, sessVars, nickVars, joined, away, asked>>

\* Faulty: channel del reloads the list before it deletes the row (NoStrayMember).
HandleChannelDelEarly(src, n) ==
  /\ HandlePrivmsg(src)
  /\ Send("PART", {Line(n, NoKey)})
  /\ channel' = [id \in DOMAIN channel \ RowsOf(channel, n) |-> channel[id]]
  /\ asked' = asked \ {Fold[n]}
  /\ lista' = ChannelListaReload(channel) /\ cache' = ChannelFunkcioReload(channel', lista')
  /\ UNCHANGED <<nextId, schumix, sessVars, nickVars, privmsg, joined, away, asks>>

\* channel del <n>
HandleChannelDel(src, n) ==
  /\ HandlePrivmsg(src)
  /\ Send("PART", {Line(n, NoKey)})
  /\ channel' = [id \in DOMAIN channel \ RowsOf(channel, n) |-> channel[id]]
  /\ asked' = asked \ {Fold[n]}
  /\ ReloadBoth
  /\ UNCHANGED <<nextId, schumix, sessVars, nickVars, privmsg, joined, away, asks>>

\* channel update
HandleChannelUpdate(src) ==
  /\ HandlePrivmsg(src)
  /\ UNCHANGED channel /\ ReloadBoth
  /\ UNCHANGED <<nextId, schumix, sessVars, nickVars, privmsg, out, joined, histVars>>

\* join <n> [<password>]
HandleJoin(src, n, k) ==
  /\ HandlePrivmsg(src)
  /\ Send("JOIN", {Line(n, k)})
  /\ Asks(src)
  /\ asked' = asked \cup {Fold[n]}
  /\ UNCHANGED <<tableVars, schumix, lista, cache, sessVars, nickVars, joined, away>>

\* left <n>
HandleLeft(src, n) ==
  /\ HandlePrivmsg(src)
  /\ Send("PART", {Line(n, NoKey)})
  /\ asked' = asked \ {Fold[n]}
  /\ UNCHANGED <<tableVars, schumix, lista, cache, sessVars, nickVars, privmsg, joined, away, asks>>

\* nick <n>, and `schumix, nick' with a nick or identify
HandleNick(src, n) ==
  /\ HandlePrivmsg(src)
  /\ Send("NICK", {Line(n, NoKey)})
  /\ nick' = n /\ had' = had \cup {n}
  /\ UNCHANGED <<tableVars, schumix, lista, cache, sessVars, called, privmsg, joined, histVars>>

-----------------------------------------------------------------------------
AnswerLine(line) ==
  \/ JoinAccepted(line) \/ HandleNoChannelJelszo(line) \/ HandleChannelBan(line)
  \/ JoinRefused(line) \/ Parted(line) \/ Dropped(line)

AnswerNick(n) ==
  \/ NickAccepted(n) \/ NickRefused(n) \/ Dropped(Line(n, NoKey))
  \/ \E next \in Nicks \ {nick} : HandleNickError(n, next)

Command(src) ==
  \/ HandleFunkciok(src) \/ HandleChannelUpdate(src)
  \/ \E n \in Names : \/ HandleChannelDel(src, n) \/ HandleLeft(src, n)
                      \/ \E k \in Keys : HandleChannelAdd(src, n, k) \/ HandleJoin(src, n, k)
  \/ \E n \in Nicks : HandleNick(src, n)

Next ==
  \/ HandleSuccessfulAuth \/ HandleNotice \/ Reconnect \/ HandleReJoin \/ ConsoleFunkcio
  \/ \E n \in Names, k \in Keys : AnswerLine(Line(n, k))
  \/ \E n \in Nicks : AnswerNick(n)
  \/ \E n \in Names, who \in Nicks : HandleKick(n, who)
  \/ \E src \in Names \cup {Op} : Command(src)

Spec == Init /\ [][Next]_vars

-----------------------------------------------------------------------------
(* Properties                                                              *)

Bursts ==
  [cmd : {"JOIN", "PART"}, lines : SUBSET [szoba : Names, jelszo : Keys]]
    \cup [cmd : {"NICK"}, lines : SUBSET [szoba : Nicks, jelszo : Keys]]

\* Type correctness; a list of functions is whole or empty, never in between.
TypeOK ==
  /\ nextId \in 1..MaxId + 1
  /\ DOMAIN channel \subseteq 1..nextId - 1 /\ channel \in [DOMAIN channel -> Rows]
  /\ schumix \in [Funkciok -> Status]
  /\ DOMAIN lista \subseteq Names /\ lista \in [DOMAIN lista -> Keys]
  /\ DOMAIN cache \subseteq Names /\ cache \in [DOMAIN cache -> Lists]
  /\ connState \in {"connected", "registered"} /\ hAktivitas \in BOOLEAN /\ useHostServ \in BOOLEAN
  /\ privmsg \in Names \cup {Op, NoPlace} \cup Nicks
  /\ nick \in Nicks /\ called \in Nicks /\ had \subseteq Nicks
  /\ out \in Seq(Bursts) /\ joined \subseteq Chans
  /\ away \in [Chans -> {"", "left", "kicked", "unseen", "474", "475", "471"}]
  /\ asked \subseteq Chans /\ asks \in [Names \cup {Op} -> Int]
  /\ events \in Nat

Listed(c) == \E id \in DOMAIN channel : Fold[channel[id].szoba] = c
Pending(cmd, c, i) == out[i].cmd = cmd /\ \E line \in out[i].lines : Fold[line.szoba] = c
Loaded == connState = "registered" /\ ~hAktivitas

\* The two copies the session decides by say what the table says: the list
\* of channels always, the functions since the channels were joined
\* (ChannelListaReload, ChannelFunkcioReload after every change).
CopiesMatchTable ==
  /\ lista = ChannelListaReload(channel)
  /\ Loaded => cache = ChannelFunkcioReload(channel, lista)

\* No channel of the table is forgotten: a registered bot is in it, has a JOIN
\* on its way, or was kept out by an operator's left, by the server, by a kick with
\* rejoin off, or by one of a nick it did not take for its own: nick sets
\* m_NickTarolo before the server has said anything, and a refusal without a
\* handler leaves it so (HandleSuccessfulAuth, HandleNotice, HandleKick, channel add).
NoneForgotten ==
  Loaded => \A c \in Chans : Listed(c) =>
    \/ c \in joined \/ away[c] # ""
    \/ \E i \in DOMAIN out : Pending("JOIN", c, i)

\* The bot neither is nor will be in a channel that is not in the table and
\* that nobody asked for: the PART of channel del comes after every JOIN of a
\* rejoin that was on its way, and no copy of the list brings it back.
NoStrayMember ==
  \A c \in Chans : Listed(c) \/ c \in asked \/
    /\ c \in joined => \E i \in DOMAIN out : Pending("PART", c, i)
    /\ \A i \in DOMAIN out : Pending("JOIN", c, i) =>
         \E j \in i + 1..Len(out) : Pending("PART", c, j)

\* No place is told of more refusals than requests were made there. Which ones is
\* another matter: a request that was granted leaves its place in m_ChannelPrivmsg,
\* and the refusal of a later rejoin is told there. All others go to a nick the
\* bot has had: after a change of nick it may be somebody else's.
ReportsAreAsked ==
  /\ \A src \in DOMAIN asks : asks[src] >= 0
  /\ IF privmsg \in DOMAIN asks THEN asks[privmsg] > 0 ELSE privmsg \in had \cup {NoPlace}

\* A funkcio command that finds its channel in the cache changes the named
\* functions of that channel and nothing else: it writes the cached list back,
\* so an old or partial copy would undo other settings (ChannelFunkciok).
Effective(t, n) == IF RowsOf(t, n) = {} THEN NoList ELSE SelectFunkciok(t, n)
EditKeepsOthers ==
  [][\A n \in DOMAIN cache, status \in Status, nevek \in Nevek :
       channel' # channel /\ Cached(n) # NoList /\ EditFunkciok(n, status, nevek) =>
         \A m \in Names : LET old == Effective(channel, m)  new == Effective(channel', m)
                          IN IF Fold[m] # Fold[n] THEN new = old
                             ELSE DOMAIN new = DOMAIN old /\ \A f \in DOMAIN old \ nevek : new[f] = old[f]]_vars
=============================================================================
