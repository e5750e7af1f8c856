--------------------------- MODULE ChannelsProofs ---------------------------
(***************************************************************************)
(* Proofs about Channels, for all names, passwords, functions and bounds:  *)
(* the copies of the table, the channels the bot is in and the reports of  *)
(* refusals.                                                               *)
(***************************************************************************)
EXTENDS Channels, TLAPS, WellFoundedInduction, SequenceTheorems

Tables == UNION {[S -> Rows] : S \in SUBSET (Nat \ {0})}
LineSet == [szoba : Names, jelszo : Keys]
NickSet == [szoba : Nicks, jelszo : Keys]

-----------------------------------------------------------------------------
(* The table and its copies                                                *)

\* A nonempty set of ids has a least one: SELECT answers some row.
LEMMA LeastIn ==
  ASSUME NEW S, S \subseteq Nat, S # {}
  PROVE  Least(S) \in S
<1> DEFINE R == {ss \in Nat \X Nat : ss[1] < ss[2]}
<1>1. IsWellFoundedOn(R, Nat)  BY NatLessThanWellFounded DEF OpToRel
<1>2. \E i \in S : \A j \in S : <<j, i>> \notin R  BY <1>1, WFMin, Zenon
<1>3. \A i, j \in Nat : <<j, i>> \notin R => i <= j  OBVIOUS
<1>4. \E i \in S : \A j \in S : i <= j
  <2> HIDE DEF R
  <2> QED  BY <1>2, <1>3
<1> QED  BY <1>4, Zenon DEF Least

\* What a table is, without the union.
LEMMA TableDef ==
  ASSUME NEW t
  PROVE  t \in Tables <=> DOMAIN t \subseteq Nat \ {0} /\ t \in [DOMAIN t -> Rows]
BY DEF Tables

\* An UPDATE leaves ids, names and passwords alone.
SameNames(t, u) ==
  /\ DOMAIN u = DOMAIN t
  /\ \A id \in DOMAIN t : u[id].szoba = t[id].szoba /\ u[id].jelszo = t[id].jelszo

LEMMA UpdateFunkciokType ==
  ASSUME NEW t \in Tables, NEW ns, NEW f \in Lists
  PROVE  UpdateFunkciok(t, ns, f) \in Tables /\ SameNames(t, UpdateFunkciok(t, ns, f))
<1>1. \A id \in DOMAIN t : t[id] \in Rows  BY TableDef
<1>2. ASSUME NEW r \in Rows
      PROVE  /\ [r EXCEPT !.funkciok = f] \in Rows
             /\ [r EXCEPT !.funkciok = f].szoba = r.szoba
             /\ [r EXCEPT !.funkciok = f].jelszo = r.jelszo
  BY DEF Rows
<1> DEFINE u == UpdateFunkciok(t, ns, f)
<1>3. DOMAIN u = DOMAIN t /\ u \in [DOMAIN t -> Rows] /\ SameNames(t, u)
  BY <1>1, <1>2 DEF UpdateFunkciok, SameNames
<1> QED  BY <1>3, TableDef

SameFunctions(t, u) == \A id \in DOMAIN t : u[id].funkciok = t[id].funkciok

LEMMA UpdateAktivitasType ==
  ASSUME NEW t \in Tables, NEW ns, NEW a \in {"", "aktiv", "nem aktiv"},
         NEW e \in {"", "channel ban", "hibas channel jelszo"}
  PROVE  /\ UpdateAktivitas(t, ns, a, e) \in Tables
         /\ SameNames(t, UpdateAktivitas(t, ns, a, e))
         /\ SameFunctions(t, UpdateAktivitas(t, ns, a, e))
<1>1. \A id \in DOMAIN t : t[id] \in Rows  BY TableDef
<1>2. ASSUME NEW r \in Rows
      PROVE  /\ [r EXCEPT !.aktivitas = a, !.error = e] \in Rows
             /\ [r EXCEPT !.aktivitas = a, !.error = e].szoba = r.szoba
             /\ [r EXCEPT !.aktivitas = a, !.error = e].jelszo = r.jelszo
             /\ [r EXCEPT !.aktivitas = a, !.error = e].funkciok = r.funkciok
  BY DEF Rows
<1> DEFINE u == UpdateAktivitas(t, ns, a, e)
<1>3. /\ DOMAIN u = DOMAIN t /\ u \in [DOMAIN t -> Rows]
      /\ SameNames(t, u) /\ SameFunctions(t, u)
  BY <1>1, <1>2 DEF UpdateAktivitas, SameNames, SameFunctions
<1> QED  BY <1>3, TableDef

\* Neither does it change which channels a name finds, or the list of them.
LEMMA SameNamesSameRows ==
  ASSUME NEW t, NEW u, SameNames(t, u), NEW n
  PROVE  RowsOf(u, n) = RowsOf(t, n)
BY DEF SameNames, RowsOf

LEMMA SameNamesSameLista ==
  ASSUME NEW t \in Tables, NEW u, SameNames(t, u)
  PROVE  ChannelListaReload(u) = ChannelListaReload(t)
<1> DEFINE Ids(n) == {id \in DOMAIN t : t[id].szoba = n}
<1>1. \A n : {id \in DOMAIN u : u[id].szoba = n} = Ids(n)
  BY DEF SameNames
<1>2. {u[id].szoba : id \in DOMAIN u} = {t[id].szoba : id \in DOMAIN t}
  BY DEF SameNames
<1>3. ASSUME NEW n \in {t[id].szoba : id \in DOMAIN t}
      PROVE  Least(Ids(n)) \in DOMAIN t
  <2>1. Ids(n) \subseteq Nat /\ Ids(n) # {}  BY TableDef
  <2> QED  BY <2>1, LeastIn
<1>4. \A n \in {t[id].szoba : id \in DOMAIN t} : u[Least(Ids(n))].jelszo = t[Least(Ids(n))].jelszo
  BY <1>3 DEF SameNames
<1> HIDE DEF Ids
<1> QED  BY <1>1, <1>2, <1>4 DEF ChannelListaReload, Ids

\* m_ChannelLista holds the names of the table, each with a password of a row.
LEMMA ListaType ==
  ASSUME NEW t \in Tables
  PROVE  /\ DOMAIN ChannelListaReload(t) = {t[id].szoba : id \in DOMAIN t}
         /\ DOMAIN ChannelListaReload(t) \subseteq Names
         /\ ChannelListaReload(t) \in [DOMAIN ChannelListaReload(t) -> Keys]
<1>1. ASSUME NEW n \in {t[id].szoba : id \in DOMAIN t}
      PROVE  n \in Names /\ t[Least({id \in DOMAIN t : t[id].szoba = n})].jelszo \in Keys
  <2> DEFINE I == {id \in DOMAIN t : t[id].szoba = n}
  <2>1. I \subseteq Nat /\ I # {}  BY TableDef
  <2>2. Least(I) \in DOMAIN t  BY <2>1, LeastIn
  <2>3. PICK id \in DOMAIN t : t[id].szoba = n  BY <2>1
  <2>4. t[id] \in Rows /\ t[Least(I)] \in Rows  BY <2>2, TableDef
  <2> HIDE DEF I
  <2>5. n \in Names /\ t[Least(I)].jelszo \in Keys  BY <2>3, <2>4 DEF Rows
  <2> QED  BY <2>5 DEF I
<1> QED  BY <1>1 DEF ChannelListaReload

\* m_ChannelFunkcio holds whole lists, for names of m_ChannelLista.
LEMMA CacheType ==
  ASSUME NEW t \in Tables, NEW l
  PROVE  /\ DOMAIN ChannelFunkcioReload(t, l) \subseteq DOMAIN l
         /\ ChannelFunkcioReload(t, l) \in [DOMAIN ChannelFunkcioReload(t, l) -> Lists]
<1>1. ASSUME NEW n, RowsOf(t, n) # {}
      PROVE  SelectFunkciok(t, n) \in Lists
  <2>1. RowsOf(t, n) \subseteq Nat  BY TableDef DEF RowsOf
  <2>2. Least(RowsOf(t, n)) \in DOMAIN t  BY <1>1, <2>1, LeastIn DEF RowsOf
  <2> QED  BY <2>2, TableDef DEF SelectFunkciok, Rows
<1> QED  BY <1>1 DEF ChannelFunkcioReload

\* An edit writes a whole list back, or the empty one it found.
LEMMA ChannelFunkciokType ==
  ASSUME cache \in [DOMAIN cache -> Lists], NEW nevek, NEW status \in Status, NEW n
  PROVE  ChannelFunkciok(nevek, status, n) \in Lists
<1>1. Cached(n) \in Lists  BY DEF Cached, Lists
<1>2. CASE Cached(n) \in [Funkciok -> Status]
  BY <1>2 DEF ChannelFunkciok, Lists
<1>3. CASE Cached(n) = NoList
  <2>1. DOMAIN Cached(n) = {}  BY <1>3 DEF NoList
  <2>2. ChannelFunkciok(nevek, status, n) = NoList
    BY <2>1 DEF ChannelFunkciok, NoList
  <2> QED  BY <2>2 DEF Lists
<1> QED  BY <1>1, <1>2, <1>3 DEF Lists

\* An UPDATE that leaves the functions alone leaves their copy right.
LEMMA SameFunctionsSameCache ==
  ASSUME NEW t \in Tables, NEW u, SameNames(t, u), SameFunctions(t, u), NEW l
  PROVE  ChannelFunkcioReload(u, l) = ChannelFunkcioReload(t, l)
<1>1. \A n : RowsOf(u, n) = RowsOf(t, n)  BY SameNamesSameRows
<1>2. ASSUME NEW n, RowsOf(t, n) # {} PROVE SelectFunkciok(u, n) = SelectFunkciok(t, n)
  <2>1. RowsOf(t, n) \subseteq Nat  BY TableDef DEF RowsOf
  <2>2. Least(RowsOf(t, n)) \in DOMAIN t  BY <1>2, <2>1, LeastIn DEF RowsOf
  <2> QED  BY <1>1, <2>2 DEF SelectFunkciok, SameFunctions
<1> QED  BY <1>1, <1>2 DEF ChannelFunkcioReload

-----------------------------------------------------------------------------
(* What a step does to the table and its copies                            *)

TypeTable ==
  /\ nextId \in 1..MaxId + 1
  /\ DOMAIN channel \subseteq 1..nextId - 1 /\ channel \in [DOMAIN channel -> Rows]
  /\ DOMAIN lista \subseteq Names /\ lista \in [DOMAIN lista -> Keys]
  /\ DOMAIN cache \subseteq Names /\ cache \in [DOMAIN cache -> Lists]

LEMMA TypeTableIsTable ==
  ASSUME TypeTable
  PROVE  channel \in Tables
<1>1. MaxId \in Nat  BY ChannelsAssumption DEF ChannelsAssumption
<1> QED  BY <1>1, TableDef DEF TypeTable

\* nothing, and the cache is not relied upon more than before
KeepsTable ==
  /\ UNCHANGED <<tableVars, lista, cache>>
  /\ Loaded' => Loaded

\* aktivitas and error are recorded: of refusals, or of all channels joined
RecordsRefusal ==
  \E ns : \E a \in {"", "aktiv", "nem aktiv"}, e \in {"", "channel ban", "hibas channel jelszo"} :
    /\ channel' = UpdateAktivitas(channel, ns, a, e)
    /\ UNCHANGED <<nextId, lista, cache>>
    /\ Loaded' => Loaded

RecordsJoins ==
  \E ns : \E a \in {"", "aktiv", "nem aktiv"}, e \in {"", "channel ban", "hibas channel jelszo"} :
    /\ channel' = UpdateAktivitas(channel, ns, a, e)
    /\ UNCHANGED <<nextId, lista>>
    /\ cache' = ChannelFunkcioReload(channel, lista)

\* functions are written, and read again
WritesFunctions ==
  \E ns : \E f \in Lists :
    /\ channel' = UpdateFunkciok(channel, ns, f)
    /\ UNCHANGED <<nextId, lista>>
    /\ cache' = ChannelFunkcioReload(channel', lista)

\* rows come or go, and both copies are read again
ChangesRows ==
  /\ channel' \in Tables /\ DOMAIN channel' \subseteq 1..nextId' - 1
  /\ nextId' \in 1..MaxId + 1
  /\ ReloadBoth

\* A row of channel add is a row.
LEMMA AddedRow ==
  ASSUME NEW n \in Names, NEW k \in Keys
  PROVE  [szoba |-> n, jelszo |-> k, funkciok |-> Alap, aktivitas |-> "", error |-> ""] \in Rows
BY ChannelsAssumption DEF ChannelsAssumption, Rows, Lists

LEMMA AddIsChange ==
  ASSUME TypeTable, NEW src, NEW n \in Names, NEW k \in Keys, HandleChannelAdd(src, n, k)
  PROVE  ChangesRows
<1> DEFINE row == [szoba |-> n, jelszo |-> k, funkciok |-> Alap, aktivitas |-> "", error |-> ""]
           t == [id \in DOMAIN channel \cup {nextId} |-> IF id = nextId THEN row ELSE channel[id]]
           u == [id \in DOMAIN t |-> IF id \in RowsOf(t, n)
                                       THEN [t[id] EXCEPT !.aktivitas = "aktiv"] ELSE t[id]]
<1>1. channel' = u /\ nextId' = nextId + 1 /\ ReloadBoth /\ nextId <= MaxId
  BY DEF HandleChannelAdd
<1>2. row \in Rows  BY AddedRow
<1>3. \A id \in DOMAIN channel : channel[id] \in Rows  BY DEF TypeTable
<1> HIDE DEF row
<1>4. DOMAIN t = DOMAIN channel \cup {nextId} /\ \A id \in DOMAIN t : t[id] \in Rows
  BY <1>2, <1>3
<1> HIDE DEF t
<1>5. ASSUME NEW r \in Rows PROVE [r EXCEPT !.aktivitas = "aktiv"] \in Rows  BY DEF Rows
<1>6. DOMAIN u = DOMAIN t /\ u \in [DOMAIN t -> Rows]  BY <1>4, <1>5
<1>7. DOMAIN t \subseteq 1..nextId /\ nextId + 1 \in 1..MaxId + 1
  BY <1>1, <1>4, ChannelsAssumption DEF TypeTable, ChannelsAssumption
<1> HIDE DEF u
<1>8. u \in Tables
  BY <1>6, <1>7, TableDef, ChannelsAssumption DEF ChannelsAssumption
<1>9. DOMAIN u \subseteq 1..nextId' - 1
  BY <1>1, <1>6, <1>7, ChannelsAssumption DEF TypeTable, ChannelsAssumption
<1> QED  BY <1>1, <1>7, <1>8, <1>9 DEF ChangesRows

LEMMA DelIsChange ==
  ASSUME TypeTable, NEW src, NEW n \in Names, HandleChannelDel(src, n)
  PROVE  ChangesRows
<1> DEFINE u == [id \in DOMAIN channel \ RowsOf(channel, n) |-> channel[id]]
<1>1. channel' = u /\ nextId' = nextId /\ ReloadBoth  BY DEF HandleChannelDel
<1>2. DOMAIN u \subseteq DOMAIN channel /\ u \in [DOMAIN u -> Rows]  BY DEF TypeTable
<1>3. MaxId \in Nat  BY ChannelsAssumption DEF ChannelsAssumption
<1> HIDE DEF u
<1>4. u \in Tables
  BY <1>2, <1>3, TableDef DEF TypeTable
<1> QED  BY <1>1, <1>2, <1>4 DEF ChangesRows, TypeTable

\* Every step does one of these things to the table and its copies.
\* What a nick command and an answer to a NICK leave alone, and what they do to
\* the lines.
\* The refused NICK is taken out of the stream, another goes to its end.
NickRenewed(n, next) ==
  /\ out # <<>> /\ Head(out) = [cmd |-> "NICK", lines |-> {Line(n, NoKey)}]
  /\ out' = Append(Tail(out), [cmd |-> "NICK", lines |-> {Line(next, NoKey)}])

NickStep ==
  \/ \E n \in Nicks : AnswerNick(n)
  \/ \E src \in Names \cup {Op}, n \in Nicks : HandleNick(src, n)

LEMMA NickStepFacts ==
  ASSUME NickStep
  PROVE  /\ UNCHANGED <<channel, nextId, schumix, lista, cache, connState, hAktivitas, useHostServ,
                       privmsg, joined, away, asked, asks>>
         /\ events' \in {events, events + 1}
         /\ \E n \in Nicks :
              \/ out' = out \/ Send("NICK", {Line(n, NoKey)})
              \/ Answered("NICK", Line(n, NoKey))
              \/ connState = "connected" /\ \E cmd : Answered(cmd, Line(n, NoKey))
              \/ \E next \in Nicks : NickRenewed(n, next)
<1>1. CASE \E n \in Nicks : AnswerNick(n)
  BY <1>1 DEF AnswerNick, NickAccepted, NickRefused, Dropped, HandleNickError, NickRenewed, Event,
              tableVars, sessVars, nickVars, histVars
<1>2. CASE \E src \in Names \cup {Op}, n \in Nicks : HandleNick(src, n)
  BY <1>2 DEF HandleNick, HandlePrivmsg, Event, tableVars, sessVars, histVars
<1> QED  BY <1>1, <1>2 DEF NickStep

LEMMA TableStep ==
  ASSUME TypeTable, [Next]_vars
  PROVE  KeepsTable \/ RecordsRefusal \/ RecordsJoins \/ WritesFunctions \/ ChangesRows
<1>1. CASE UNCHANGED vars
  BY <1>1 DEF vars, tableVars, sessVars, KeepsTable, Loaded
<1>2. CASE HandleSuccessfulAuth
  <2>1. CASE JoinListed
    BY <2>1 DEF JoinListed, RecordsJoins
  <2>2. CASE ~JoinListed
    BY <1>2, <2>2 DEF HandleSuccessfulAuth, KeepsTable, Loaded
  <2> QED  BY <2>1, <2>2
<1>3. CASE HandleNotice
  BY <1>3 DEF HandleNotice, JoinListed, RecordsJoins
<1>4. CASE Reconnect
  BY <1>4 DEF Reconnect, KeepsTable, Loaded
<1>5. CASE HandleReJoin
  BY <1>5 DEF HandleReJoin, KeepsTable, Loaded, sessVars
<1>6. CASE ConsoleFunkcio
  BY <1>6 DEF ConsoleFunkcio, SwitchAll, KeepsTable, Loaded, sessVars, tableVars
<1>7. ASSUME NEW n \in Names, NEW k \in Keys, AnswerLine(Line(n, k))
      PROVE  KeepsTable \/ RecordsRefusal
  <2> DEFINE line == Line(n, k)
  <2>1. ASSUME NEW why, NEW hiba \in {"", "channel ban", "hibas channel jelszo"},
               RefusalStored(line, why, hiba)
        PROVE  RecordsRefusal
    BY <2>1 DEF RefusalStored, RecordsRefusal, Loaded, sessVars
  <2>2. CASE JoinAccepted(line) \/ JoinRefused(line) \/ Parted(line) \/ Dropped(line)
    BY <2>2 DEF JoinAccepted, JoinRefused, Parted, Dropped, KeepsTable, Loaded, sessVars
  <2>3. CASE HandleNoChannelJelszo(line) \/ HandleChannelBan(line)
    BY <2>1, <2>3 DEF HandleNoChannelJelszo, HandleChannelBan
  <2> QED  BY <1>7, <2>2, <2>3 DEF AnswerLine
<1>8. ASSUME NEW n \in Names, NEW who \in Nicks, HandleKick(n, who) PROVE KeepsTable
  BY <1>8 DEF HandleKick, KeepsTable, Loaded, sessVars
<1>10. ASSUME NickStep PROVE KeepsTable
  BY <1>10, NickStepFacts DEF KeepsTable, Loaded, tableVars
<1>9. ASSUME NEW src \in Names \cup {Op}, Command(src)
      PROVE  KeepsTable \/ WritesFunctions \/ ChangesRows
  <2>1. CASE HandleFunkciok(src)
    <3>1. UNCHANGED <<nextId, lista, sessVars>>  BY <2>1 DEF HandleFunkciok
    <3>2. ASSUME NEW n, NEW status \in Status, NEW nevek, EditFunkciok(n, status, nevek)
          PROVE  WritesFunctions
      <4>1. ChannelFunkciok(nevek, status, n) \in Lists
        BY ChannelFunkciokType DEF TypeTable
      <4> QED  BY <3>1, <3>2, <4>1 DEF EditFunkciok, WritesFunctions
    <3>3. ASSUME NEW ns, ResetFunkciok(ns) PROVE WritesFunctions
      <4>1. Alap \in Lists  BY ChannelsAssumption DEF ChannelsAssumption, Lists
      <4> QED  BY <3>1, <3>3, <4>1 DEF ResetFunkciok, WritesFunctions
    <3>4. ASSUME NEW status, NEW nevek, SwitchAll(status, nevek) PROVE KeepsTable
      BY <3>1, <3>4 DEF SwitchAll, KeepsTable, Loaded, sessVars, tableVars
    <3> QED  BY <2>1, <3>2, <3>3, <3>4 DEF HandleFunkciok
  <2>2. CASE HandleChannelUpdate(src)
    BY <2>2, TypeTableIsTable DEF HandleChannelUpdate, ChangesRows, TypeTable
  <2>3. ASSUME NEW n \in Names, HandleChannelDel(src, n) PROVE ChangesRows
    BY <2>3, DelIsChange
  <2>4. ASSUME NEW n \in Names, NEW k \in Keys, HandleChannelAdd(src, n, k) PROVE ChangesRows
    BY <2>4, AddIsChange
  <2>5. ASSUME NEW n \in Names, HandleLeft(src, n) PROVE KeepsTable
    BY <2>5 DEF HandleLeft, KeepsTable, Loaded, sessVars
  <2>6. ASSUME NEW n \in Names, NEW k \in Keys, HandleJoin(src, n, k) PROVE KeepsTable
    BY <2>6 DEF HandleJoin, KeepsTable, Loaded, sessVars
  <2>7. ASSUME NEW n \in Nicks, HandleNick(src, n) PROVE KeepsTable
    <3>1. NickStep  BY <2>7 DEF NickStep
    <3> QED  BY <1>10, <3>1
  <2> QED  BY <1>9, <2>1, <2>2, <2>3, <2>4, <2>5, <2>6, <2>7 DEF Command
<1> QED  BY <1>1, <1>2, <1>3, <1>4, <1>5, <1>6, <1>7, <1>8, <1>9, <1>10 DEF Next, NickStep

-----------------------------------------------------------------------------
(* The copies agree with the table                                         *)

LEMMA TypeTableInit ==
  ASSUME Init
  PROVE  TypeTable
<1>1. FirstRows \in [1..Len(FirstRows) -> Rows] /\ Len(FirstRows) \in Nat
  BY ChannelsAssumption, LenProperties DEF ChannelsAssumption
<1>2. FirstRows \in Tables  BY <1>1, TableDef
<1>3. nextId \in 1..MaxId + 1 /\ DOMAIN channel \subseteq 1..nextId - 1
  <2>1. Len(FirstRows) + 1 \in 1..MaxId + 1 /\ (Len(FirstRows) + 1) - 1 = Len(FirstRows)
    BY <1>1, ChannelsAssumption DEF ChannelsAssumption
  <2>2. channel = FirstRows /\ nextId = Len(FirstRows) + 1  BY DEF Init
  <2> QED  BY <1>1, <2>1, <2>2
<1>4. DOMAIN lista \subseteq Names /\ lista \in [DOMAIN lista -> Keys]
  BY <1>2, ListaType DEF Init
<1>5. DOMAIN cache \subseteq Names /\ cache \in [DOMAIN cache -> Lists]
  BY DEF Init, NoList
<1>6. channel \in [DOMAIN channel -> Rows]  BY <1>1 DEF Init
<1> QED  BY <1>3, <1>4, <1>5, <1>6 DEF TypeTable

\* Recording activity is an UPDATE that leaves both copies right.
LEMMA RecordsFacts ==
  ASSUME TypeTable, RecordsRefusal \/ RecordsJoins
  PROVE  /\ channel' \in Tables /\ SameNames(channel, channel')
         /\ ChannelFunkcioReload(channel', lista) = ChannelFunkcioReload(channel, lista)
<1> channel \in Tables  BY TypeTableIsTable
<1>1. \E ns : \E a \in {"", "aktiv", "nem aktiv"}, e \in {"", "channel ban", "hibas channel jelszo"} :
         channel' = UpdateAktivitas(channel, ns, a, e)
  <2>1. CASE RecordsRefusal  BY <2>1, Zenon DEF RecordsRefusal
  <2>2. CASE RecordsJoins  BY <2>2, Zenon DEF RecordsJoins
  <2> QED  BY <2>1, <2>2
<1>2. channel' \in Tables /\ SameNames(channel, channel') /\ SameFunctions(channel, channel')
  BY <1>1, UpdateAktivitasType
<1> QED  BY <1>2, SameFunctionsSameCache

LEMMA TypeTableNext ==
  ASSUME TypeTable, [Next]_vars
  PROVE  TypeTable'
<1> channel \in Tables  BY TypeTableIsTable
<1>1. CASE KeepsTable
  BY <1>1 DEF KeepsTable, TypeTable, tableVars
<1>2. ASSUME UNCHANGED <<nextId, lista>>, channel' \in Tables, SameNames(channel, channel'),
             cache' = cache \/ \E t \in Tables : cache' = ChannelFunkcioReload(t, lista)
      PROVE  TypeTable'
  <2>1. DOMAIN channel' = DOMAIN channel /\ channel' \in [DOMAIN channel' -> Rows]
    BY <1>2, TableDef DEF SameNames
  <2>2. DOMAIN cache' \subseteq Names /\ cache' \in [DOMAIN cache' -> Lists]
    BY <1>2, CacheType DEF TypeTable
  <2> QED  BY <1>2, <2>1, <2>2 DEF TypeTable
<1>3. CASE RecordsRefusal
  BY <1>2, <1>3, RecordsFacts DEF RecordsRefusal
<1>4. CASE RecordsJoins
  BY <1>2, <1>4, RecordsFacts DEF RecordsJoins
<1>5. CASE WritesFunctions
  BY <1>2, <1>5, UpdateFunkciokType DEF WritesFunctions
<1>6. CASE ChangesRows
  <2>1. channel' \in [DOMAIN channel' -> Rows]  BY <1>6, TableDef DEF ChangesRows
  <2>2. DOMAIN lista' \subseteq Names /\ lista' \in [DOMAIN lista' -> Keys]
    BY <1>6, ListaType DEF ChangesRows, ReloadBoth
  <2>3. DOMAIN cache' \subseteq DOMAIN lista' /\ cache' \in [DOMAIN cache' -> Lists]
    BY <1>6, CacheType DEF ChangesRows, ReloadBoth
  <2> QED  BY <1>6, <2>1, <2>2, <2>3 DEF ChangesRows, TypeTable
<1> QED  BY <1>1, <1>3, <1>4, <1>5, <1>6, TableStep

LEMMA CopiesNext ==
  ASSUME TypeTable, CopiesMatchTable, [Next]_vars
  PROVE  CopiesMatchTable'
<1> channel \in Tables  BY TypeTableIsTable
<1>1. CASE KeepsTable
  BY <1>1 DEF KeepsTable, CopiesMatchTable, tableVars
<1>2. CASE RecordsRefusal
  <2>1. lista' = ChannelListaReload(channel')
    BY <1>2, RecordsFacts, SameNamesSameLista DEF RecordsRefusal, CopiesMatchTable
  <2>2. ChannelFunkcioReload(channel', lista) = ChannelFunkcioReload(channel, lista)
    BY <1>2, RecordsFacts
  <2> QED  BY <1>2, <2>1, <2>2 DEF RecordsRefusal, CopiesMatchTable
<1>3. CASE RecordsJoins
  <2>1. lista' = ChannelListaReload(channel')
    BY <1>3, RecordsFacts, SameNamesSameLista DEF RecordsJoins, CopiesMatchTable
  <2>2. ChannelFunkcioReload(channel', lista) = ChannelFunkcioReload(channel, lista)
    BY <1>3, RecordsFacts
  <2> QED  BY <1>3, <2>1, <2>2 DEF RecordsJoins, CopiesMatchTable
<1>4. CASE WritesFunctions
  <2>1. lista' = ChannelListaReload(channel')
    BY <1>4, UpdateFunkciokType, SameNamesSameLista DEF WritesFunctions, CopiesMatchTable
  <2> QED  BY <1>4, <2>1 DEF WritesFunctions, CopiesMatchTable
<1>5. CASE ChangesRows
  BY <1>5 DEF ChangesRows, ReloadBoth, CopiesMatchTable
<1> QED  BY <1>1, <1>2, <1>3, <1>4, <1>5, TableStep

\* m_ChannelLista is what ChannelListaReload reads, and m_ChannelFunkcio, once
\* the channels were joined, what ChannelFunkcioReload reads: no handler leaves
\* a copy behind the table.
THEOREM CopiesAgree == Spec => []CopiesMatchTable
<1>1. Init => TypeTable /\ CopiesMatchTable
  BY TypeTableInit DEF Init, CopiesMatchTable, Loaded
<1>2. TypeTable /\ CopiesMatchTable /\ [Next]_vars => (TypeTable /\ CopiesMatchTable)'
  BY TypeTableNext, CopiesNext
<1> QED  BY <1>1, <1>2, PTL DEF Spec

-----------------------------------------------------------------------------
(* The lines on their way                                                  *)

LEMMA FoldIsChan ==
  ASSUME NEW n \in Names, NEW k \in Keys
  PROVE  Fold[n] \in Chans /\ Line(n, k) \in LineSet /\ Line(n, k).szoba = n
BY ChannelsAssumption DEF ChannelsAssumption, LineSet, Line

\* Send appends one burst, or nothing when there is no line.
LEMMA SendFacts ==
  ASSUME out \in Seq(Bursts), NEW cmd, NEW lines, [cmd |-> cmd, lines |-> lines] \in Bursts,
         Send(cmd, lines)
  PROVE  /\ out' \in Seq(Bursts)
         /\ Len(out') >= Len(out) /\ \A i \in 1..Len(out) : out'[i] = out[i]
         /\ lines = {} => out' = out
         /\ lines # {} => /\ Len(out') = Len(out) + 1
                          /\ out'[Len(out) + 1] = [cmd |-> cmd, lines |-> lines]
<1> DEFINE b == [cmd |-> cmd, lines |-> lines]
<1>1. b \in Bursts  OBVIOUS
<1>2. CASE lines = {}
  BY <1>2, LenProperties DEF Send
<1>3. CASE lines # {}
  <2>1. out' = Append(out, b)  BY <1>3 DEF Send
  <2> HIDE DEF b
  <2>2. /\ out' \in Seq(Bursts) /\ Len(out') = Len(out) + 1
        /\ \A i \in 1..Len(out) : out'[i] = out[i]
        /\ out'[Len(out) + 1] = b
    BY <1>1, <2>1, AppendProperties
  <2>3. Len(out') >= Len(out)  BY <2>2, LenProperties
  <2> QED  BY <1>3, <2>2, <2>3 DEF b
<1> QED  BY <1>2, <1>3

LEMMA SendLineFacts ==
  ASSUME out \in Seq(Bursts), NEW cmd \in {"JOIN", "PART"}, NEW lines, lines \subseteq LineSet,
         Send(cmd, lines)
  PROVE  /\ out' \in Seq(Bursts)
         /\ Len(out') >= Len(out) /\ \A i \in 1..Len(out) : out'[i] = out[i]
         /\ lines = {} => out' = out
         /\ lines # {} => /\ Len(out') = Len(out) + 1
                          /\ out'[Len(out) + 1] = [cmd |-> cmd, lines |-> lines]
<1>1. [cmd |-> cmd, lines |-> lines] \in Bursts  BY DEF Bursts, LineSet
<1> QED  BY <1>1, SendFacts

\* d NICKs are taken out at the head of the stream, and one is put at its end.
Renews(d) ==
  /\ d \in {0, 1} /\ d <= Len(out) /\ Len(out') = Len(out) - d + 1
  /\ d = 1 => out[1].cmd = "NICK"
  /\ \A i \in 1..Len(out) - d : out'[i] = out[i + d]
  /\ out'[Len(out')].cmd = "NICK"
  /\ out' \in Seq(Bursts)

LEMMA NickBurst ==
  ASSUME NEW n \in Nicks
  PROVE  [cmd |-> "NICK", lines |-> {Line(n, NoKey)}] \in Bursts
BY ChannelsAssumption DEF ChannelsAssumption, Bursts, Line

LEMMA NickSent ==
  ASSUME out \in Seq(Bursts), NEW n \in Nicks, Send("NICK", {Line(n, NoKey)})
  PROVE  Renews(0)
<1> DEFINE lines == {Line(n, NoKey)}
<1>1. lines # {} /\ [cmd |-> "NICK", lines |-> lines] \in Bursts  BY NickBurst
<1> HIDE DEF lines
<1>2. /\ out' \in Seq(Bursts) /\ \A i \in 1..Len(out) : out'[i] = out[i]
      /\ Len(out') = Len(out) + 1 /\ out'[Len(out) + 1] = [cmd |-> "NICK", lines |-> lines]
  BY <1>1, SendFacts DEF lines
<1> QED  BY <1>2, LenProperties DEF Renews

LEMMA NickRenewedFacts ==
  ASSUME out \in Seq(Bursts), NEW n \in Nicks, NEW next \in Nicks, NickRenewed(n, next)
  PROVE  Renews(1)
<1> DEFINE b == [cmd |-> "NICK", lines |-> {Line(next, NoKey)}]
<1>1. b \in Bursts /\ b.cmd = "NICK"  BY NickBurst
<1>2. /\ out # <<>> /\ out[1].cmd = "NICK" /\ out' = Append(Tail(out), b)
  BY HeadTailProperties DEF NickRenewed
<1> HIDE DEF b
<1>3. /\ Tail(out) \in Seq(Bursts) /\ Len(Tail(out)) = Len(out) - 1 /\ Len(out) >= 1
      /\ \A i \in 1..Len(out) - 1 : Tail(out)[i] = out[i + 1]
  BY <1>2, HeadTailProperties, LenProperties, EmptySeq
<1>4. /\ out' \in Seq(Bursts) /\ Len(out') = Len(Tail(out)) + 1
      /\ \A i \in 1..Len(Tail(out)) : out'[i] = Tail(out)[i]
      /\ out'[Len(Tail(out)) + 1] = b
  BY <1>1, <1>2, <1>3, AppendProperties
<1> QED  BY <1>1, <1>2, <1>3, <1>4, LenProperties DEF Renews

\* Where the lines of the old stream are after an answer: d places further on.
Shifted(d) ==
  /\ d \in {0, 1} /\ Len(out') = Len(out) - d
  /\ \A i \in 1..Len(out') : /\ i + d \in 1..Len(out)
                             /\ out'[i].cmd = out[i + d].cmd
                             /\ out'[i].lines \subseteq out[i + d].lines
                             /\ i + d > 1 => out'[i] = out[i + d]

\* An answer takes the answered line out of the first burst and nothing else.
LEMMA AnsweredFacts ==
  ASSUME out \in Seq(Bursts), NEW cmd, NEW line, Answered(cmd, line)
  PROVE  /\ out' \in Seq(Bursts) /\ out # <<>>
         /\ 1 \in 1..Len(out) /\ out[1].cmd = cmd /\ line \in out[1].lines
         /\ \/ Shifted(1) /\ out[1].lines = {line}
            \/ Shifted(0) /\ out'[1].lines = out[1].lines \ {line}
<1>1. /\ out # <<>> /\ Head(out) = out[1] /\ Len(out) \in Nat /\ Len(out) >= 1
      /\ out[1].cmd = cmd /\ line \in out[1].lines /\ out[1] \in Bursts
      /\ \A i \in 1..Len(out) : out[i] \in Bursts
  BY HeadTailProperties, LenProperties, ElementOfSeq, EmptySeq DEF Answered
<1>2. CASE out[1].lines = {line}
  <2>1. out' = Tail(out)  BY <1>1, <1>2 DEF Answered
  <2>2. /\ Tail(out) \in Seq(Bursts) /\ Len(Tail(out)) = Len(out) - 1
        /\ \A i \in 1..Len(Tail(out)) : Tail(out)[i] = out[i + 1]
    BY <1>1, HeadTailProperties
  <2>3. Shifted(1)  BY <1>1, <2>1, <2>2 DEF Shifted
  <2> QED  BY <1>1, <1>2, <2>1, <2>2, <2>3
<1>3. CASE out[1].lines # {line}
  <2> DEFINE b == [out[1] EXCEPT !.lines = @ \ {line}]
  <2>1. out' = [out EXCEPT ![1] = b]  BY <1>1, <1>3 DEF Answered
  <2>2. b \in Bursts /\ b.cmd = out[1].cmd /\ b.lines = out[1].lines \ {line}
    BY <1>1 DEF Bursts
  <2> HIDE DEF b
  <2>3. out' \in Seq(Bursts) /\ Len(out') = Len(out)
    BY <1>1, <2>1, <2>2, ExceptSeq
  <2>4. out'[1] = b /\ \A i \in 2..Len(out) : out'[i] = out[i]
    BY <1>1, <2>1, LenProperties
  <2>5. Shifted(0)  BY <1>1, <2>2, <2>3, <2>4 DEF Shifted
  <2> QED  BY <1>1, <2>2, <2>3, <2>4, <2>5
<1> QED  BY <1>2, <1>3

\* The JOINs of a loop over m_ChannelLista are the channels of the table.
LEMMA ListedLinesFacts ==
  ASSUME TypeTable, CopiesMatchTable
  PROVE  /\ ListedLines(lista) \subseteq LineSet
         /\ \A line \in ListedLines(lista) : Listed(Fold[line.szoba])
         /\ \A c : Listed(c) => \E line \in ListedLines(lista) : Fold[line.szoba] = c
<1>1. DOMAIN lista = {channel[id].szoba : id \in DOMAIN channel}
  BY TypeTableIsTable, ListaType DEF CopiesMatchTable
<1>2. \A n \in DOMAIN lista : /\ Line(n, lista[n]) \in LineSet /\ Line(n, lista[n]).szoba = n
                              /\ Line(n, lista[n]) \in ListedLines(lista)
  BY FoldIsChan DEF TypeTable, ListedLines
<1>3. \A line \in ListedLines(lista) : \E n \in DOMAIN lista : line = Line(n, lista[n])
  BY DEF ListedLines
<1> QED  BY <1>1, <1>2, <1>3 DEF Listed

-----------------------------------------------------------------------------
(* What a step does to the lines and to the membership                     *)

TypeNet == out \in Seq(Bursts) /\ joined \subseteq Chans

\* Before the registration the bot is nowhere.
NowhereUnregistered == connState = "connected" => joined = {}

NetInv == TypeTable /\ TypeNet /\ NowhereUnregistered /\ CopiesMatchTable

\* Who may be in a channel
Wanted(c) == Listed(c) \/ c \in asked

\* nothing is sent or answered; at most the bot is thrown out
NetIdle ==
  /\ out' = out /\ joined' \subseteq joined
  /\ \A c : Wanted(c) => Wanted(c)'

\* JOINs for wanted channels are sent
NetJoins ==
  /\ joined' \subseteq joined
  /\ \A c : Wanted(c) => Wanted(c)'
  /\ \E lines : /\ lines \subseteq LineSet /\ Send("JOIN", lines)
                /\ \A line \in lines : Wanted(Fold[line.szoba])'

\* one PART is sent, for the one channel that may no longer be wanted
NetPart ==
  /\ joined' = joined
  /\ \E n \in Names : /\ Send("PART", {Line(n, NoKey)})
                      /\ \A c : Wanted(c) /\ c # Fold[n] => Wanted(c)'

\* the server answers a line
NetAnswer ==
  /\ \A c : Wanted(c) => Wanted(c)'
  /\ \E line \in LineSet \cup NickSet :
       \/ Answered("JOIN", line) /\ joined' \subseteq joined \cup {Fold[line.szoba]}
       \/ Answered("PART", line) /\ joined' \subseteq joined \ {Fold[line.szoba]}
       \/ Answered("NICK", line) /\ joined' \subseteq joined

\* a NICK is sent, after one that was refused or of its own
NetNick ==
  /\ joined' = joined /\ \A c : Wanted(c) => Wanted(c)'
  /\ \E d \in {0, 1} : Renews(d)

\* the connection breaks
NetBreak ==
  /\ joined' = {} /\ \A c : Wanted(c) => Wanted(c)'
  /\ \E k \in 0..Len(out) : out' = SubSeq(out, k + 1, Len(out))

\* The names of the rows decide what is listed.
LEMMA SameNamesSameListed ==
  ASSUME SameNames(channel, channel'), NEW c
  PROVE  Listed(c)' <=> Listed(c)
BY DEF SameNames, Listed

LEMMA KeptNames ==
  ASSUME TypeTable, UNCHANGED channel \/ RecordsRefusal \/ RecordsJoins \/ WritesFunctions
  PROVE  SameNames(channel, channel')
<1> channel \in Tables  BY TypeTableIsTable
<1>1. CASE UNCHANGED channel  BY <1>1 DEF SameNames
<1>2. CASE WritesFunctions
  BY <1>2, UpdateFunkciokType DEF WritesFunctions
<1> QED  BY <1>1, <1>2, RecordsFacts

LEMMA JoinListedIsJoins ==
  ASSUME TypeTable, CopiesMatchTable, JoinListed
  PROVE  NetJoins
<1>1. RecordsJoins  BY DEF JoinListed, RecordsJoins
<1>2. \A c : Listed(c)' <=> Listed(c)  BY <1>1, KeptNames, SameNamesSameListed
<1>3. asked' = asked /\ joined' = joined  BY DEF JoinListed, histVars
<1> QED  BY <1>2, <1>3, ListedLinesFacts DEF JoinListed, NetJoins, Wanted

\* channel add lists its channel and keeps the others.
LEMMA AddFacts ==
  ASSUME TypeTable, NEW src, NEW n \in Names, NEW k \in Keys, HandleChannelAdd(src, n, k)
  PROVE  /\ \A c : Listed(c) => Listed(c)'
         /\ Listed(Fold[n])'
         /\ \A c : Listed(c)' => Listed(c) \/ c = Fold[n]
<1> DEFINE row == [szoba |-> n, jelszo |-> k, funkciok |-> Alap, aktivitas |-> "", error |-> ""]
           t == [id \in DOMAIN channel \cup {nextId} |-> IF id = nextId THEN row ELSE channel[id]]
           u == [id \in DOMAIN t |-> IF id \in RowsOf(t, n)
                                       THEN [t[id] EXCEPT !.aktivitas = "aktiv"] ELSE t[id]]
<1>1. channel' = u  BY DEF HandleChannelAdd
<1>2. nextId \notin DOMAIN channel  BY ChannelsAssumption DEF TypeTable, ChannelsAssumption
<1>3. row \in Rows /\ row.szoba = n  BY AddedRow
<1>4. \A id \in DOMAIN channel : channel[id] \in Rows  BY DEF TypeTable
<1> HIDE DEF row
<1>5. /\ DOMAIN t = DOMAIN channel \cup {nextId} /\ t[nextId] = row
      /\ \A id \in DOMAIN channel : t[id] = channel[id]
      /\ \A id \in DOMAIN t : t[id] \in Rows
  BY <1>2, <1>3, <1>4
<1> HIDE DEF t
<1>6. ASSUME NEW r \in Rows PROVE [r EXCEPT !.aktivitas = "aktiv"].szoba = r.szoba  BY DEF Rows
<1>7. DOMAIN u = DOMAIN t /\ \A id \in DOMAIN t : u[id].szoba = t[id].szoba  BY <1>5, <1>6
<1> HIDE DEF u
<1> QED  BY <1>1, <1>3, <1>5, <1>7 DEF Listed

LEMMA NetStep ==
  ASSUME NetInv, [Next]_vars
  PROVE  NetIdle \/ NetJoins \/ NetPart \/ NetAnswer \/ NetNick \/ NetBreak
<1> USE DEF NetInv
<1>1. CASE UNCHANGED vars
  BY <1>1 DEF vars, tableVars, histVars, NetIdle, Wanted, Listed
<1>2. CASE HandleSuccessfulAuth
  <2>1. CASE JoinListed  BY <2>1, JoinListedIsJoins
  <2>2. CASE ~JoinListed
    BY <1>2, <2>2 DEF HandleSuccessfulAuth, NetIdle, Wanted, Listed, tableVars, histVars
  <2> QED  BY <2>1, <2>2
<1>3. CASE HandleNotice
  BY <1>3, JoinListedIsJoins DEF HandleNotice
<1>4. CASE Reconnect
  BY <1>4 DEF Reconnect, NetBreak, Wanted, Listed, tableVars
<1>5. CASE HandleReJoin
  <2>1. UNCHANGED <<channel, asked, joined>>  BY <1>5 DEF HandleReJoin, tableVars, histVars
  <2>2. \A c : Wanted(c)' <=> Wanted(c)  BY <2>1 DEF Wanted, Listed
  <2>3. PICK lines \in SUBSET ListedLines(lista) : Send("JOIN", lines)
    BY <1>5 DEF HandleReJoin
  <2>4. lines \subseteq LineSet /\ \A line \in lines : Wanted(Fold[line.szoba])
    BY <2>3, ListedLinesFacts DEF Wanted
  <2> QED  BY <2>1, <2>2, <2>3, <2>4 DEF NetJoins
<1>6. CASE ConsoleFunkcio
  BY <1>6 DEF ConsoleFunkcio, SwitchAll, NetIdle, Wanted, Listed, histVars
<1>7. ASSUME NEW n \in Names, NEW k \in Keys, AnswerLine(Line(n, k))
      PROVE  NetAnswer
  <2> DEFINE line == Line(n, k)
  <2>1. line \in LineSet  BY FoldIsChan
  <2> HIDE DEF line
  <2>2. ASSUME NEW why, NEW hiba \in {"", "channel ban", "hibas channel jelszo"},
               RefusalStored(line, why, hiba)
        PROVE  NetAnswer
    <3>1. RecordsRefusal  BY <2>2 DEF RefusalStored, RecordsRefusal, Loaded, sessVars
    <3>2. \A c : Listed(c)' <=> Listed(c)  BY <3>1, KeptNames, SameNamesSameListed
    <3> QED  BY <2>1, <2>2, <3>2 DEF RefusalStored, NetAnswer, Wanted
  <2>3. CASE JoinAccepted(line) \/ JoinRefused(line) \/ Parted(line)
    BY <2>1, <2>3 DEF JoinAccepted, JoinRefused, Parted, NetAnswer, Wanted, Listed, tableVars
  <2>4. CASE Dropped(line)
    <3>1. joined = {} /\ joined' = {} /\ \A c : Wanted(c)' <=> Wanted(c)
      BY <2>4 DEF Dropped, NowhereUnregistered, Wanted, Listed, tableVars, histVars
    <3> QED  BY <2>1, <2>4, <3>1 DEF Dropped, NetAnswer
  <2> QED
    BY <1>7, <2>2, <2>3, <2>4 DEF AnswerLine, HandleNoChannelJelszo, HandleChannelBan, line
<1>8. ASSUME NEW n \in Names, NEW who \in Nicks, HandleKick(n, who) PROVE NetIdle \/ NetJoins
  <2>1. joined' \subseteq joined /\ \A c : Wanted(c)' <=> Wanted(c)
    BY <1>8 DEF HandleKick, Wanted, Listed, tableVars
  <2>2. CASE out' = out  BY <2>1, <2>2 DEF NetIdle
  <2>3. CASE Send("JOIN", ListedLines(lista))
    BY <2>1, <2>3, ListedLinesFacts DEF NetJoins, Wanted
  <2> QED  BY <1>8, <2>2, <2>3 DEF HandleKick
<1>10. ASSUME NickStep PROVE NetIdle \/ NetAnswer \/ NetNick
  <2>1. UNCHANGED <<channel, asked, joined, connState>>  BY <1>10, NickStepFacts
  <2>2. joined' = joined /\ \A c : Wanted(c)' <=> Wanted(c)  BY <2>1 DEF Wanted, Listed
  <2>3. PICK n \in Nicks :
          \/ out' = out \/ Send("NICK", {Line(n, NoKey)})
          \/ Answered("NICK", Line(n, NoKey))
          \/ connState = "connected" /\ \E cmd : Answered(cmd, Line(n, NoKey))
          \/ \E next \in Nicks : NickRenewed(n, next)
    BY <1>10, NickStepFacts
  <2>4. Line(n, NoKey) \in NickSet  BY ChannelsAssumption DEF ChannelsAssumption, Line, NickSet
  <2>5. CASE out' = out  BY <2>2, <2>5 DEF NetIdle
  <2>6. CASE Send("NICK", {Line(n, NoKey)})
    BY <2>2, <2>6, NickSent DEF NetNick, TypeNet
  <2>7. CASE Answered("NICK", Line(n, NoKey))
    BY <2>2, <2>4, <2>7 DEF NetAnswer
  <2>8. ASSUME connState = "connected", NEW cmd, Answered(cmd, Line(n, NoKey)) PROVE NetAnswer
    <3>1. joined = {}  BY <2>8 DEF NowhereUnregistered
    <3>2. Head(out).cmd \in {"JOIN", "PART", "NICK"}
      BY <2>8, HeadTailProperties DEF Answered, TypeNet, Bursts
    <3>3. cmd \in {"JOIN", "PART", "NICK"}  BY <2>8, <3>2 DEF Answered
    <3> QED  BY <2>2, <2>4, <2>8, <3>1, <3>3 DEF NetAnswer
  <2>9. ASSUME NEW next \in Nicks, NickRenewed(n, next) PROVE NetNick
    BY <2>2, <2>9, NickRenewedFacts DEF NetNick, TypeNet
  <2> QED  BY <2>3, <2>5, <2>6, <2>7, <2>8, <2>9
<1>9. ASSUME NEW src \in Names \cup {Op}, Command(src)
      PROVE  NetIdle \/ NetJoins \/ NetPart \/ NetAnswer \/ NetNick
  <2>1. CASE HandleFunkciok(src)
    <3>1. UNCHANGED <<nextId, lista, out, joined, asked>>
      BY <2>1 DEF HandleFunkciok, histVars
    <3>2. ASSUME NEW n, NEW status \in Status, NEW nevek, EditFunkciok(n, status, nevek)
          PROVE  WritesFunctions
      <4>1. ChannelFunkciok(nevek, status, n) \in Lists
        BY ChannelFunkciokType DEF TypeTable
      <4> QED  BY <3>1, <3>2, <4>1 DEF EditFunkciok, WritesFunctions
    <3>3. ASSUME NEW ns, ResetFunkciok(ns) PROVE WritesFunctions
      <4>1. Alap \in Lists  BY ChannelsAssumption DEF ChannelsAssumption, Lists
      <4> QED  BY <3>1, <3>3, <4>1 DEF ResetFunkciok, WritesFunctions
    <3>4. UNCHANGED channel \/ WritesFunctions
      BY <2>1, <3>2, <3>3 DEF HandleFunkciok, SwitchAll
    <3>5. \A c : Listed(c)' <=> Listed(c)  BY <3>4, KeptNames, SameNamesSameListed
    <3> QED  BY <3>1, <3>5 DEF NetIdle, Wanted
  <2>2. CASE HandleChannelUpdate(src)
    BY <2>2 DEF HandleChannelUpdate, NetIdle, Wanted, Listed, histVars
  <2>3. ASSUME NEW n \in Names, HandleChannelDel(src, n) PROVE NetPart
    <3>1. \A c : Listed(c) /\ c # Fold[n] => Listed(c)'
      BY <2>3 DEF HandleChannelDel, Listed, RowsOf
    <3>2. asked' = asked \ {Fold[n]} /\ joined' = joined  BY <2>3 DEF HandleChannelDel
    <3> QED  BY <2>3, <3>1, <3>2 DEF HandleChannelDel, NetPart, Wanted
  <2>4. ASSUME NEW n \in Names, HandleLeft(src, n) PROVE NetPart
    BY <2>4 DEF HandleLeft, NetPart, Wanted, Listed, tableVars
  <2>5. ASSUME NEW n \in Names, NEW k \in Keys, HandleChannelAdd(src, n, k) PROVE NetJoins
    <3>1. (\A c : Listed(c) => Listed(c)') /\ Listed(Fold[n])'
      BY <2>5, AddFacts
    <3>2. asked' = asked /\ joined' = joined  BY <2>5 DEF HandleChannelAdd
    <3> DEFINE lines == {Line(n, k)}
    <3>3. lines \subseteq LineSet /\ \A line \in lines : line.szoba = n  BY FoldIsChan
    <3>4. Send("JOIN", lines)  BY <2>5 DEF HandleChannelAdd
    <3> HIDE DEF lines
    <3>5. (\A c : Wanted(c) => Wanted(c)') /\ \A line \in lines : Wanted(Fold[line.szoba])'
      BY <3>1, <3>2, <3>3 DEF Wanted
    <3> QED  BY <3>2, <3>3, <3>4, <3>5 DEF NetJoins
  <2>6. ASSUME NEW n \in Names, NEW k \in Keys, HandleJoin(src, n, k) PROVE NetJoins
    BY <2>6, FoldIsChan DEF HandleJoin, NetJoins, Wanted, Listed, tableVars
  <2>7. ASSUME NEW n \in Nicks, HandleNick(src, n) PROVE NetIdle \/ NetAnswer \/ NetNick \/ NetJoins
    <3>1. NickStep  BY <2>7 DEF NickStep
    <3> QED  BY <1>10, <3>1
  <2> QED  BY <1>9, <2>1, <2>2, <2>3, <2>4, <2>5, <2>6, <2>7 DEF Command
<1> QED  BY <1>1, <1>2, <1>3, <1>4, <1>5, <1>6, <1>7, <1>8, <1>9, <1>10 DEF Next, NickStep

\* A step that ends before the registration ends outside of all channels.
LEMMA ConnStep ==
  ASSUME NowhereUnregistered, [Next]_vars
  PROVE  NowhereUnregistered'
<1>1. CASE UNCHANGED vars
  BY <1>1 DEF vars, sessVars, NowhereUnregistered
<1>2. CASE HandleSuccessfulAuth
  BY <1>2 DEF HandleSuccessfulAuth, NowhereUnregistered
<1>3. CASE HandleNotice
  BY <1>3 DEF HandleNotice, NowhereUnregistered
<1>4. CASE Reconnect
  BY <1>4 DEF Reconnect, NowhereUnregistered
<1>5. CASE HandleReJoin \/ ConsoleFunkcio
  BY <1>5 DEF HandleReJoin, ConsoleFunkcio, sessVars, NowhereUnregistered
<1>6. ASSUME NEW n \in Names, NEW k \in Keys, AnswerLine(Line(n, k))
      PROVE  NowhereUnregistered'
  BY <1>6 DEF AnswerLine, JoinAccepted, HandleNoChannelJelszo, HandleChannelBan, RefusalStored,
              JoinRefused, Parted, Dropped, sessVars, NowhereUnregistered
<1>7. ASSUME NEW n \in Names, NEW who \in Nicks, HandleKick(n, who) PROVE NowhereUnregistered'
  BY <1>7 DEF HandleKick, sessVars, NowhereUnregistered
<1>9. CASE NickStep
  BY <1>9, NickStepFacts DEF NowhereUnregistered
<1>8. ASSUME NEW src \in Names \cup {Op}, Command(src)
      PROVE  NowhereUnregistered'
  <2>1. sessVars' = sessVars /\ joined' = joined
    BY <1>8 DEF Command, HandleFunkciok, HandleChannelUpdate, HandleChannelDel, HandleLeft,
                HandleChannelAdd, HandleJoin, HandleNick
  <2> QED  BY <2>1 DEF sessVars, NowhereUnregistered
<1> QED  BY <1>1, <1>2, <1>3, <1>4, <1>5, <1>6, <1>7, <1>8, <1>9 DEF Next, NickStep

\* What is answered to a JOIN is a line of a JOIN.
LEMMA JoinLines ==
  ASSUME out \in Seq(Bursts), NEW line, Answered("JOIN", line)
  PROVE  line \in LineSet
<1>1. 1 \in 1..Len(out) /\ out[1].cmd = "JOIN" /\ line \in out[1].lines  BY AnsweredFacts
<1>2. out[1] \in Bursts  BY <1>1, ElementOfSeq
<1> QED  BY <1>1, <1>2 DEF Bursts, LineSet

LEMMA NetInvInit ==
  ASSUME Init
  PROVE  NetInv
BY TypeTableInit, EmptySeq
   DEF Init, NetInv, TypeNet, NowhereUnregistered, CopiesMatchTable, Loaded

LEMMA NetInvNext ==
  ASSUME NetInv, [Next]_vars
  PROVE  NetInv'
<1> SUFFICES TypeNet'
  BY TypeTableNext, CopiesNext, ConnStep DEF NetInv
<1>1. CASE NetIdle
  BY <1>1 DEF NetIdle, NetInv, TypeNet
<1>2. CASE NetJoins
  BY <1>2, SendLineFacts DEF NetJoins, NetInv, TypeNet
<1>3. CASE NetPart
  <2>1. NoKey \in Keys  BY ChannelsAssumption DEF ChannelsAssumption
  <2>2. \A n \in Names : {Line(n, NoKey)} \subseteq LineSet  BY <2>1, FoldIsChan
  <2> QED  BY <1>3, <2>2, SendLineFacts DEF NetPart, NetInv, TypeNet
<1>4. CASE NetAnswer
  <2>1. \A line \in LineSet : Fold[line.szoba] \in Chans
    BY ChannelsAssumption DEF ChannelsAssumption, LineSet
  <2>2. PICK line \in LineSet \cup NickSet :
          \/ Answered("JOIN", line) /\ joined' \subseteq joined \cup {Fold[line.szoba]}
          \/ Answered("PART", line) /\ joined' \subseteq joined \ {Fold[line.szoba]}
          \/ Answered("NICK", line) /\ joined' \subseteq joined
    BY <1>4 DEF NetAnswer
  <2>3. out' \in Seq(Bursts)  BY <2>2, AnsweredFacts DEF NetInv, TypeNet
  <2>4. CASE Answered("JOIN", line)
    <3>1. line \in LineSet  BY <2>4, JoinLines DEF NetInv, TypeNet
    <3> QED  BY <2>1, <2>2, <2>3, <3>1 DEF NetInv, TypeNet
  <2>5. CASE ~Answered("JOIN", line)
    BY <2>2, <2>3, <2>5 DEF NetInv, TypeNet
  <2> QED  BY <2>4, <2>5
<1>6. CASE NetNick
  BY <1>6 DEF NetNick, Renews, NetInv, TypeNet
<1>5. CASE NetBreak
  <2>1. PICK k \in 0..Len(out) : out' = SubSeq(out, k + 1, Len(out))  BY <1>5 DEF NetBreak
  <2>2. out' \in Seq(Bursts)
    BY <2>1, SubSeqProperties, LenProperties DEF NetInv, TypeNet
  <2> QED  BY <1>5, <2>2 DEF NetBreak, TypeNet
<1> QED  BY <1>1, <1>2, <1>3, <1>4, <1>5, <1>6, NetStep

-----------------------------------------------------------------------------
(* No stray member                                                         *)

\* The bot is out of c, or will be when the stream has been answered.
LeavesFor(c) ==
  /\ c \in joined => \E i \in 1..Len(out) : Pending("PART", c, i)
  /\ \A i \in 1..Len(out) : Pending("JOIN", c, i) =>
       \E j \in i + 1..Len(out) : Pending("PART", c, j)

LEMMA StrayDef ==
  ASSUME TypeNet
  PROVE  NoStrayMember <=> \A c \in Chans : Wanted(c) \/ LeavesFor(c)
<1>1. DOMAIN out = 1..Len(out)  BY LenProperties DEF TypeNet
<1> QED  BY <1>1 DEF NoStrayMember, LeavesFor, Wanted

\* JOINs for other channels are sent after what there is for c.
LEMMA LeavesJoins ==
  ASSUME TypeNet, NEW c, NetJoins, ~Wanted(c)', LeavesFor(c)
  PROVE  LeavesFor(c)'
<1>1. PICK lines : /\ lines \subseteq LineSet /\ Send("JOIN", lines)
                   /\ \A line \in lines : Wanted(Fold[line.szoba])'
  BY DEF NetJoins
<1>2. /\ Len(out') >= Len(out) /\ \A i \in 1..Len(out) : out'[i] = out[i]
      /\ lines = {} => out' = out
      /\ lines # {} => /\ Len(out') = Len(out) + 1
                       /\ out'[Len(out) + 1] = [cmd |-> "JOIN", lines |-> lines]
  BY <1>1, SendLineFacts DEF TypeNet
<1>3. Len(out) \in Nat /\ Len(out') \in Nat  BY <1>1, SendLineFacts, LenProperties DEF TypeNet
<1>4. ASSUME NEW i \in 1..Len(out), NEW cmd
      PROVE  i \in 1..Len(out') /\ (Pending(cmd, c, i)' <=> Pending(cmd, c, i))
  BY <1>2, <1>3 DEF Pending
<1>5. ASSUME NEW i \in 1..Len(out'), Pending("JOIN", c, i)' PROVE i \in 1..Len(out)
  <2>1. CASE lines = {}  BY <1>2, <2>1
  <2>2. CASE lines # {}
    <3>1. ~ \E line \in lines : Fold[line.szoba] = c  BY <1>1
    <3>2. i # Len(out) + 1  BY <1>2, <1>5, <2>2, <3>1 DEF Pending
    <3> QED  BY <1>2, <1>3, <2>2, <3>2
  <2> QED  BY <2>1, <2>2
<1>6. joined' \subseteq joined  BY DEF NetJoins
<1>7. c \in joined' => \E i \in 1..Len(out') : Pending("PART", c, i)'
  BY <1>4, <1>6 DEF LeavesFor
<1>8. ASSUME NEW i \in 1..Len(out'), Pending("JOIN", c, i)'
      PROVE  \E j \in i + 1..Len(out') : Pending("PART", c, j)'
  <2>1. PICK j \in i + 1..Len(out) : Pending("PART", c, j)
    BY <1>4, <1>5, <1>8 DEF LeavesFor
  <2>2. j \in 1..Len(out) /\ j \in i + 1..Len(out')  BY <1>2, <1>3, <1>8, <2>1
  <2> QED  BY <1>4, <2>1, <2>2
<1> QED  BY <1>7, <1>8 DEF LeavesFor

\* A PART is sent after all there is for its channel.
LEMMA LeavesPart ==
  ASSUME TypeNet, NEW c, NetPart, Wanted(c) \/ LeavesFor(c), ~Wanted(c)'
  PROVE  LeavesFor(c)'
<1>1. PICK n \in Names : /\ Send("PART", {Line(n, NoKey)})
                         /\ \A d : Wanted(d) /\ d # Fold[n] => Wanted(d)'
  BY DEF NetPart
<1>2. NoKey \in Keys  BY ChannelsAssumption DEF ChannelsAssumption
<1> DEFINE lines == {Line(n, NoKey)}
<1>3. lines \subseteq LineSet /\ \A line \in lines : line.szoba = n  BY <1>2, FoldIsChan
<1>4. lines # {} /\ Send("PART", lines)  BY <1>1
<1> HIDE DEF lines
<1>5. /\ Len(out') = Len(out) + 1 /\ \A i \in 1..Len(out) : out'[i] = out[i]
      /\ out'[Len(out) + 1] = [cmd |-> "PART", lines |-> lines]
  BY <1>3, <1>4, SendLineFacts DEF TypeNet
<1>6. Len(out) \in Nat /\ joined' = joined  BY LenProperties DEF TypeNet, NetPart
<1>7. ASSUME NEW i \in 1..Len(out), NEW cmd
      PROVE  i \in 1..Len(out') /\ (Pending(cmd, c, i)' <=> Pending(cmd, c, i))
  BY <1>5, <1>6 DEF Pending
<1>8. ASSUME NEW i \in 1..Len(out'), Pending("JOIN", c, i)' PROVE i \in 1..Len(out)
  BY <1>5, <1>6, <1>8 DEF Pending
<1>9. CASE c = Fold[n]
  <2> DEFINE last == Len(out) + 1
  <2>1. /\ last \in 1..Len(out')
        /\ out'[last].cmd = "PART" /\ \E line \in out'[last].lines : Fold[line.szoba] = c
    BY <1>5, <1>3, <1>4, <1>6, <1>9
  <2>2. \A i \in 1..Len(out) : last \in i + 1..Len(out')  BY <1>5, <1>6
  <2> HIDE DEF last
  <2> QED  BY <1>8, <2>1, <2>2 DEF LeavesFor, Pending
<1>10. CASE c # Fold[n]
  <2>1. LeavesFor(c)  BY <1>1, <1>10
  <2>2. c \in joined' => \E i \in 1..Len(out') : Pending("PART", c, i)'
    BY <1>6, <1>7, <2>1 DEF LeavesFor
  <2>3. ASSUME NEW i \in 1..Len(out'), Pending("JOIN", c, i)'
        PROVE  \E j \in i + 1..Len(out') : Pending("PART", c, j)'
    <3>1. PICK j \in i + 1..Len(out) : Pending("PART", c, j)
      BY <1>7, <1>8, <2>1, <2>3 DEF LeavesFor
    <3>2. j \in 1..Len(out) /\ j \in i + 1..Len(out')  BY <1>5, <1>6, <2>3, <3>1
    <3> QED  BY <1>7, <3>1, <3>2
  <2> QED  BY <2>2, <2>3 DEF LeavesFor
<1> QED  BY <1>9, <1>10

\* What an answer leaves of the stream still holds the PART after each JOIN.
LEMMA LeavesShifted ==
  ASSUME TypeNet, TypeNet', NEW c, NEW d, Shifted(d), LeavesFor(c)
  PROVE  /\ \A i \in 1..Len(out') : Pending("JOIN", c, i)' =>
              \E j \in i + 1..Len(out') : Pending("PART", c, j)'
         /\ \A j \in 2..Len(out) : Pending("PART", c, j) =>
              \E i \in 1..Len(out') : Pending("PART", c, i)'
<1>1. Len(out) \in Nat /\ Len(out') \in Nat  BY LenProperties DEF TypeNet
<1>2. ASSUME NEW j \in 2..Len(out), Pending("PART", c, j)
      PROVE  j - d \in 1..Len(out') /\ Pending("PART", c, j - d)'
  <2>1. j - d \in 1..Len(out') /\ (j - d) + d = j /\ j > 1  BY <1>1, <1>2 DEF Shifted
  <2>2. out'[j - d] = out[j]  BY <2>1 DEF Shifted
  <2> QED  BY <1>2, <2>1, <2>2 DEF Pending
<1>3. ASSUME NEW i \in 1..Len(out'), Pending("JOIN", c, i)'
      PROVE  \E j \in i + 1..Len(out') : Pending("PART", c, j)'
  <2>1. i + d \in 1..Len(out) /\ Pending("JOIN", c, i + d)
    BY <1>3 DEF Shifted, Pending
  <2>2. PICK j \in i + d + 1..Len(out) : Pending("PART", c, j)
    BY <2>1 DEF LeavesFor
  <2>3. j \in 2..Len(out) /\ j - d >= i + 1  BY <1>1, <2>1, <2>2 DEF Shifted
  <2>4. j - d \in i + 1..Len(out')  BY <1>1, <1>2, <2>2, <2>3 DEF Shifted
  <2> QED  BY <1>2, <2>2, <2>3, <2>4
<1> QED  BY <1>2, <1>3

LEMMA LeavesAnswer ==
  ASSUME TypeNet, TypeNet', NEW c, NetAnswer, LeavesFor(c)
  PROVE  LeavesFor(c)'
<1>1. Len(out) \in Nat /\ Len(out') \in Nat  BY LenProperties DEF TypeNet
<1>2. PICK line \in LineSet \cup NickSet :
        \/ Answered("JOIN", line) /\ joined' \subseteq joined \cup {Fold[line.szoba]}
        \/ Answered("PART", line) /\ joined' \subseteq joined \ {Fold[line.szoba]}
        \/ Answered("NICK", line) /\ joined' \subseteq joined
  BY DEF NetAnswer
<1>3. Shifted(0) \/ Shifted(1)  BY <1>2, AnsweredFacts DEF TypeNet
<1>4. /\ \A i \in 1..Len(out') : Pending("JOIN", c, i)' =>
           \E j \in i + 1..Len(out') : Pending("PART", c, j)'
      /\ \A j \in 2..Len(out) : Pending("PART", c, j) =>
           \E i \in 1..Len(out') : Pending("PART", c, i)'
  BY <1>3, LeavesShifted
<1>5. ASSUME c \in joined' PROVE \E i \in 1..Len(out') : Pending("PART", c, i)'
  <2>1. CASE Answered("JOIN", line) /\ c = Fold[line.szoba]
    <3>1. 1 \in 1..Len(out) /\ Pending("JOIN", c, 1)
      BY <2>1, AnsweredFacts DEF TypeNet, Pending
    <3>2. PICK j \in 1 + 1..Len(out) : Pending("PART", c, j)  BY <3>1 DEF LeavesFor
    <3> QED  BY <1>4, <3>2
  <2>2. CASE ~(Answered("JOIN", line) /\ c = Fold[line.szoba])
    <3>1. c \in joined  BY <1>2, <1>5, <2>2
    <3>2. PICK i \in 1..Len(out) : Pending("PART", c, i)  BY <3>1 DEF LeavesFor
    <3>3. CASE i # 1  BY <1>1, <1>4, <3>2, <3>3
    <3>4. CASE i = 1
      <4>1. Answered("PART", line) /\ c # Fold[line.szoba]
        <5>1. out[1].cmd = "PART"  BY <3>2, <3>4 DEF Pending
        <5>2. ~Answered("JOIN", line) /\ ~Answered("NICK", line)
          BY <5>1, AnsweredFacts DEF TypeNet
        <5> QED  BY <1>2, <1>5, <5>2
      <4>2. PICK other \in out[1].lines : Fold[other.szoba] = c
        BY <3>2, <3>4 DEF Pending
      <4>3. Shifted(0) /\ out'[1].lines = out[1].lines \ {line} /\ 1 \in 1..Len(out)
        BY <4>1, <4>2, AnsweredFacts DEF TypeNet
      <4>4. 1 \in 1..Len(out') /\ out'[1].cmd = "PART"
        BY <1>1, <3>2, <3>4, <4>3 DEF Shifted, Pending
      <4> QED  BY <4>1, <4>2, <4>3, <4>4 DEF Pending
    <3> QED  BY <3>3, <3>4
  <2> QED  BY <2>1, <2>2
<1> QED  BY <1>4, <1>5 DEF LeavesFor

LEMMA LeavesNick ==
  ASSUME TypeNet, NEW c, NetNick, LeavesFor(c)
  PROVE  LeavesFor(c)'
<1>1. PICK d \in {0, 1} : Renews(d)  BY DEF NetNick
<1>2. Len(out) \in Nat /\ Len(out') \in Nat /\ joined' = joined
  BY <1>1, LenProperties DEF TypeNet, Renews, NetNick
<1>3. ASSUME NEW j \in 1..Len(out), Pending("PART", c, j)
      PROVE  j - d \in 1..Len(out') /\ Pending("PART", c, j - d)'
  <2>1. j - d \in 1..Len(out) - d /\ (j - d) + d = j
    BY <1>1, <1>2, <1>3 DEF Renews, Pending
  <2>2. out'[j - d] = out[j] /\ j - d \in 1..Len(out')  BY <1>1, <1>2, <2>1 DEF Renews
  <2> QED  BY <1>3, <2>2 DEF Pending
<1>4. ASSUME NEW i \in 1..Len(out'), Pending("JOIN", c, i)'
      PROVE  \E j \in i + 1..Len(out') : Pending("PART", c, j)'
  <2>1. i # Len(out')  BY <1>1, <1>4 DEF Renews, Pending
  <2>2. i \in 1..Len(out) - d  BY <1>1, <1>2, <2>1 DEF Renews
  <2>3. i + d \in 1..Len(out) /\ Pending("JOIN", c, i + d)
    BY <1>1, <1>2, <1>4, <2>2 DEF Renews, Pending
  <2>4. PICK j \in i + d + 1..Len(out) : Pending("PART", c, j)  BY <2>3 DEF LeavesFor
  <2>5. j \in 1..Len(out) /\ j - d >= i + 1  BY <1>2, <2>3, <2>4
  <2>6. j - d \in 1..Len(out') /\ Pending("PART", c, j - d)'  BY <1>3, <2>4, <2>5
  <2>7. j - d \in i + 1..Len(out')  BY <1>2, <2>5, <2>6
  <2> QED  BY <2>6, <2>7
<1>5. c \in joined' => \E i \in 1..Len(out') : Pending("PART", c, i)'
  BY <1>2, <1>3 DEF LeavesFor
<1> QED  BY <1>4, <1>5 DEF LeavesFor

LEMMA LeavesBreak ==
  ASSUME TypeNet, NEW c, NetBreak, LeavesFor(c)
  PROVE  LeavesFor(c)'
<1>1. PICK k \in 0..Len(out) : out' = SubSeq(out, k + 1, Len(out))  BY DEF NetBreak
<1>2. Len(out) \in Nat  BY LenProperties DEF TypeNet
<1>3. /\ Len(out') = Len(out) - k
      /\ \A i \in 1..Len(out') : i + k \in 1..Len(out) /\ out'[i] = out[i + k]
  BY <1>1, <1>2, SubSeqProperties DEF TypeNet
<1>4. ASSUME NEW i \in 1..Len(out'), Pending("JOIN", c, i)'
      PROVE  \E j \in i + 1..Len(out') : Pending("PART", c, j)'
  <2>1. i + k \in 1..Len(out) /\ Pending("JOIN", c, i + k)  BY <1>3, <1>4 DEF Pending
  <2>2. PICK j \in i + k + 1..Len(out) : Pending("PART", c, j)  BY <2>1 DEF LeavesFor
  <2>3. j - k \in i + 1..Len(out') /\ j - k \in 1..Len(out') /\ (j - k) + k = j
    BY <1>2, <1>3, <2>2
  <2>4. Pending("PART", c, j - k)'  BY <1>3, <2>2, <2>3 DEF Pending
  <2> QED  BY <2>3, <2>4
<1>5. joined' = {}  BY DEF NetBreak
<1> QED  BY <1>4, <1>5 DEF LeavesFor

\* The bot is, and after all answers will be, only in channels of the table
\* and in those an operator asked for: a PART follows every JOIN of a channel
\* that was removed, and none is sent for it any more.
THEOREM NoStray == Spec => []NoStrayMember
<1> DEFINE IInv == NetInv /\ NoStrayMember
<1>1. Init => IInv
  <2> SUFFICES ASSUME Init PROVE NoStrayMember  BY NetInvInit
  <2>1. joined = {} /\ Len(out) = 0  BY EmptySeq DEF Init
  <2>2. \A c : LeavesFor(c)  BY <2>1 DEF LeavesFor
  <2> QED  BY <2>2, NetInvInit, StrayDef DEF NetInv
<1>2. IInv /\ [Next]_vars => IInv'
  <2> SUFFICES ASSUME NetInv, NoStrayMember, [Next]_vars PROVE NoStrayMember'
    BY NetInvNext
  <2> DOMAIN out' = 1..Len(out')  BY NetInvNext, LenProperties DEF NetInv, TypeNet
  <2> SUFFICES \A c \in Chans : Wanted(c)' \/ LeavesFor(c)'
    BY DEF NoStrayMember, LeavesFor, Wanted
  <2> SUFFICES ASSUME NEW c \in Chans, ~Wanted(c)' PROVE LeavesFor(c)'
    OBVIOUS
  <2>1. TypeNet /\ TypeNet' /\ (Wanted(c) \/ LeavesFor(c))
    BY NetInvNext, StrayDef DEF NetInv
  <2>2. CASE NetIdle
    BY <2>1, <2>2 DEF NetIdle, LeavesFor, Pending
  <2>3. CASE NetJoins
    BY <2>1, <2>3, LeavesJoins DEF NetJoins
  <2>4. CASE NetPart
    BY <2>1, <2>4, LeavesPart
  <2>5. CASE NetAnswer
    BY <2>1, <2>5, LeavesAnswer DEF NetAnswer
  <2>6. CASE NetBreak
    BY <2>1, <2>6, LeavesBreak DEF NetBreak
  <2>7. CASE NetNick
    BY <2>1, <2>7, LeavesNick DEF NetNick
  <2> QED  BY <2>2, <2>3, <2>4, <2>5, <2>6, <2>7, NetStep
<1> QED  BY <1>1, <1>2, PTL DEF Spec

-----------------------------------------------------------------------------
(* None forgotten                                                          *)

TypeAway == away \in [Chans -> {"", "left", "kicked", "unseen", "474", "475", "471"}]

\* The bot is in c, was kept out of it, or is about to join it.
Home(c) ==
  \/ c \in joined \/ away[c] # ""
  \/ \E i \in 1..Len(out) : Pending("JOIN", c, i)

\* nothing is sent or answered; a channel that is lost has its reason
HomeIdle ==
  /\ Loaded /\ out' = out
  /\ \A c \in Chans : /\ Listed(c)' => Listed(c)
                      /\ c \in joined \/ away[c] # "" => c \in joined' \/ away'[c] # ""

\* lines are sent; a channel that is not the same as before is among the JOINs
HomeSends ==
  \E cmd \in {"JOIN", "PART"}, lines \in SUBSET LineSet :
    /\ Send(cmd, lines)
    /\ \A c \in Chans : Listed(c)' =>
         \/ Loaded /\ Listed(c) /\ joined' = joined /\ away' = away
         \/ cmd = "JOIN" /\ \E line \in lines : Fold[line.szoba] = c

\* a NICK is answered, or sent
HomeNick ==
  /\ Loaded /\ joined' = joined /\ away' = away
  /\ \A c \in Chans : Listed(c)' => Listed(c)
  /\ \/ \E line : Answered("NICK", line)
     \/ \E d \in {0, 1} : Renews(d)

\* a line is answered: the bot is in its channel, or has a reason not to be
HomeAnswers ==
  /\ Loaded /\ \A c \in Chans : Listed(c)' => Listed(c)
  /\ \E cmd \in {"JOIN", "PART"}, line \in LineSet :
       /\ Answered(cmd, line)
       /\ \A c \in Chans : IF c = Fold[line.szoba]
                             THEN c \in joined' \/ away'[c] # ""
                             ELSE /\ c \in joined => c \in joined'
                                  /\ away'[c] = away[c]

LEMMA AwayInit ==
  ASSUME Init
  PROVE  TypeAway
BY DEF Init, TypeAway

LEMMA AwayNext ==
  ASSUME TypeAway, [Next]_vars
  PROVE  TypeAway'
<1>1. CASE UNCHANGED vars
  BY <1>1 DEF vars, histVars, TypeAway
<1>2. CASE HandleSuccessfulAuth \/ HandleNotice \/ HandleReJoin \/ ConsoleFunkcio
  BY <1>2 DEF HandleSuccessfulAuth, HandleNotice, JoinListed, HandleReJoin, ConsoleFunkcio,
              histVars, TypeAway
<1>3. CASE Reconnect
  BY <1>3 DEF Reconnect, TypeAway
<1>4. ASSUME NEW n \in Names, NEW k \in Keys, AnswerLine(Line(n, k))
      PROVE  TypeAway'
  <2> DEFINE line == Line(n, k)
  <2>1. Fold[line.szoba] \in Chans  BY FoldIsChan
  <2>2. \/ away' = away
        \/ \E why \in {"", "left", "474", "475", "471"} : away' = [away EXCEPT ![Fold[line.szoba]] = why]
    BY <1>4 DEF AnswerLine, JoinAccepted, HandleNoChannelJelszo, HandleChannelBan, RefusalStored,
                JoinRefused, Parted, Dropped, histVars
  <2> HIDE DEF line
  <2> QED  BY <2>1, <2>2 DEF TypeAway
<1>5. ASSUME NEW n \in Names, NEW who \in Nicks, HandleKick(n, who) PROVE TypeAway'
  BY <1>5, FoldIsChan DEF HandleKick, TypeAway
<1>6. ASSUME NEW src \in Names \cup {Op}, Command(src)
      PROVE  TypeAway'
  BY <1>6 DEF Command, HandleFunkciok, HandleChannelUpdate, HandleChannelDel, HandleLeft,
              HandleChannelAdd, HandleJoin, HandleNick, histVars, TypeAway
<1>7. CASE NickStep
  BY <1>7, NickStepFacts DEF TypeAway
<1> QED  BY <1>1, <1>2, <1>3, <1>4, <1>5, <1>6, <1>7 DEF Next, NickStep

LEMMA JoinListedSends ==
  ASSUME TypeTable, CopiesMatchTable, JoinListed
  PROVE  HomeSends
<1>1. RecordsJoins  BY DEF JoinListed, RecordsJoins
<1>2. \A c : Listed(c)' <=> Listed(c)  BY <1>1, KeptNames, SameNamesSameListed
<1> QED  BY <1>2, ListedLinesFacts DEF JoinListed, HomeSends

LEMMA AnswerIsHome ==
  ASSUME TypeTable, TypeAway, NEW line \in LineSet, AnswerLine(line), Loaded
  PROVE  HomeAnswers
<1>1. Fold[line.szoba] \in Chans  BY ChannelsAssumption DEF ChannelsAssumption, LineSet
<1>2. ASSUME NEW why \in {"474", "475"}, NEW hiba \in {"", "channel ban", "hibas channel jelszo"},
             RefusalStored(line, why, hiba)
      PROVE  HomeAnswers
  <2>1. RecordsRefusal  BY <1>2 DEF RefusalStored, RecordsRefusal, Loaded, sessVars
  <2>2. \A c : Listed(c)' <=> Listed(c)  BY <2>1, KeptNames, SameNamesSameListed
  <2>3. /\ Answered("JOIN", line) /\ joined' = joined
        /\ away' = [away EXCEPT ![Fold[line.szoba]] = why]
    BY <1>2 DEF RefusalStored
  <2>4. away'[Fold[line.szoba]] # "" /\ \A c \in Chans : c # Fold[line.szoba] => away'[c] = away[c]
    BY <1>1, <2>3 DEF TypeAway
  <2> QED  BY <2>2, <2>3, <2>4 DEF HomeAnswers
<1>3. CASE JoinAccepted(line) \/ JoinRefused(line) \/ Parted(line)
  <2>1. \A c : Listed(c)' <=> Listed(c)
    BY <1>3 DEF JoinAccepted, JoinRefused, Parted, Listed, tableVars
  <2>2. CASE JoinAccepted(line)
    <3>1. \A c \in Chans : c # Fold[line.szoba] => away'[c] = away[c]
      BY <1>1, <2>2 DEF JoinAccepted, TypeAway
    <3> QED  BY <2>1, <2>2, <3>1 DEF JoinAccepted, HomeAnswers
  <2>3. CASE JoinRefused(line)
    <3>1. away'[Fold[line.szoba]] # "" /\ \A c \in Chans : c # Fold[line.szoba] => away'[c] = away[c]
      BY <1>1, <2>3 DEF JoinRefused, TypeAway
    <3> QED  BY <2>1, <2>3, <3>1 DEF JoinRefused, HomeAnswers
  <2>4. CASE Parted(line)
    <3>1. away'[Fold[line.szoba]] # "" /\ \A c \in Chans : c # Fold[line.szoba] => away'[c] = away[c]
      BY <1>1, <2>4 DEF Parted, TypeAway
    <3> QED  BY <2>1, <2>4, <3>1 DEF Parted, HomeAnswers
  <2> QED  BY <1>3, <2>2, <2>3, <2>4
<1>4. CASE Dropped(line)
  BY <1>4 DEF Dropped, Loaded
<1> QED  BY <1>2, <1>3, <1>4 DEF AnswerLine, HandleNoChannelJelszo, HandleChannelBan

LEMMA NickIsHome ==
  ASSUME TypeNet, NickStep, Loaded
  PROVE  HomeIdle \/ HomeNick
<1>1. UNCHANGED <<channel, joined, away>>  BY NickStepFacts
<1>2. /\ joined' = joined /\ away' = away /\ connState # "connected"
      /\ \A c : Listed(c)' <=> Listed(c)
  BY <1>1 DEF Listed, Loaded
<1>3. PICK n \in Nicks :
        \/ out' = out \/ Send("NICK", {Line(n, NoKey)})
        \/ Answered("NICK", Line(n, NoKey))
        \/ connState = "connected" /\ \E cmd : Answered(cmd, Line(n, NoKey))
        \/ \E next \in Nicks : NickRenewed(n, next)
  BY NickStepFacts
<1>4. CASE out' = out  BY <1>2, <1>4 DEF HomeIdle
<1>5. CASE Send("NICK", {Line(n, NoKey)})  BY <1>2, <1>5, NickSent DEF HomeNick, TypeNet
<1>6. CASE Answered("NICK", Line(n, NoKey))  BY <1>2, <1>6 DEF HomeNick
<1>7. ASSUME NEW next \in Nicks, NickRenewed(n, next) PROVE HomeNick
  BY <1>2, <1>7, NickRenewedFacts DEF HomeNick, TypeNet
<1> QED  BY <1>2, <1>3, <1>4, <1>5, <1>6, <1>7

LEMMA CommandIsHome ==
  ASSUME TypeTable, TypeNet, NEW src \in Names \cup {Op}, Command(src), Loaded
  PROVE  HomeIdle \/ HomeSends \/ HomeNick
<1> NoKey \in Keys  BY ChannelsAssumption DEF ChannelsAssumption
<1>1. CASE HandleFunkciok(src)
  <2>1. UNCHANGED <<nextId, lista, out, joined, away>>
    BY <1>1 DEF HandleFunkciok, histVars
  <2>2. ASSUME NEW n, NEW status \in Status, NEW nevek, EditFunkciok(n, status, nevek)
        PROVE  WritesFunctions
    <3>1. ChannelFunkciok(nevek, status, n) \in Lists
      BY ChannelFunkciokType DEF TypeTable
    <3> QED  BY <2>1, <2>2, <3>1 DEF EditFunkciok, WritesFunctions
  <2>3. ASSUME NEW ns, ResetFunkciok(ns) PROVE WritesFunctions
    <3>1. Alap \in Lists  BY ChannelsAssumption DEF ChannelsAssumption, Lists
    <3> QED  BY <2>1, <2>3, <3>1 DEF ResetFunkciok, WritesFunctions
  <2>4. UNCHANGED channel \/ WritesFunctions
    BY <1>1, <2>2, <2>3 DEF HandleFunkciok, SwitchAll
  <2>5. \A c : Listed(c)' <=> Listed(c)  BY <2>4, KeptNames, SameNamesSameListed
  <2> QED  BY <2>1, <2>5 DEF HomeIdle
<1>2. CASE HandleChannelUpdate(src)
  BY <1>2 DEF HandleChannelUpdate, HomeIdle, Listed, histVars
<1>3. ASSUME NEW n \in Names, HandleChannelDel(src, n) PROVE HomeSends
  <2>1. \A c : Listed(c)' => Listed(c)  BY <1>3 DEF HandleChannelDel, Listed
  <2>2. /\ {Line(n, NoKey)} \in SUBSET LineSet /\ Send("PART", {Line(n, NoKey)})
        /\ joined' = joined /\ away' = away
    BY <1>3, FoldIsChan DEF HandleChannelDel
  <2> QED  BY <2>1, <2>2 DEF HomeSends
<1>4. ASSUME NEW n \in Names, HandleLeft(src, n) PROVE HomeSends
  <2>1. \A c : Listed(c)' <=> Listed(c)  BY <1>4 DEF HandleLeft, Listed, tableVars
  <2>2. /\ {Line(n, NoKey)} \in SUBSET LineSet /\ Send("PART", {Line(n, NoKey)})
        /\ joined' = joined /\ away' = away
    BY <1>4, FoldIsChan DEF HandleLeft
  <2> QED  BY <2>1, <2>2 DEF HomeSends
<1>5. ASSUME NEW n \in Names, NEW k \in Keys, HandleJoin(src, n, k) PROVE HomeSends
  <2>1. \A c : Listed(c)' <=> Listed(c)  BY <1>5 DEF HandleJoin, Listed, tableVars
  <2>2. /\ {Line(n, k)} \in SUBSET LineSet /\ Send("JOIN", {Line(n, k)})
        /\ joined' = joined /\ away' = away
    BY <1>5, FoldIsChan DEF HandleJoin
  <2> QED  BY <2>1, <2>2 DEF HomeSends
<1>6. ASSUME NEW n \in Names, NEW k \in Keys, HandleChannelAdd(src, n, k) PROVE HomeSends
  <2>1. \A c : Listed(c)' => Listed(c) \/ c = Fold[n]  BY <1>6, AddFacts
  <2> DEFINE lines == {Line(n, k)}
  <2>2. /\ lines \in SUBSET LineSet /\ Send("JOIN", lines)
        /\ joined' = joined /\ away' = away
    BY <1>6, FoldIsChan DEF HandleChannelAdd
  <2>3. \E line \in lines : Fold[line.szoba] = Fold[n]  BY FoldIsChan
  <2> HIDE DEF lines
  <2> QED  BY <2>1, <2>2, <2>3 DEF HomeSends
<1>7. ASSUME NEW n \in Nicks, HandleNick(src, n) PROVE HomeIdle \/ HomeNick
  <2>1. NickStep  BY <1>7 DEF NickStep
  <2> QED  BY <2>1, NickIsHome
<1> QED  BY <1>1, <1>2, <1>3, <1>4, <1>5, <1>6, <1>7 DEF Command

LEMMA HomeStep ==
  ASSUME NetInv, TypeAway, [Next]_vars, Loaded'
  PROVE  HomeIdle \/ HomeSends \/ HomeAnswers \/ HomeNick
<1> USE DEF NetInv
<1>1. CASE UNCHANGED vars
  BY <1>1 DEF vars, tableVars, sessVars, histVars, HomeIdle, Loaded, Listed
<1>2. CASE HandleSuccessfulAuth
  <2>1. JoinListed  BY <1>2 DEF HandleSuccessfulAuth, Loaded
  <2> QED  BY <2>1, JoinListedSends
<1>3. CASE HandleNotice
  BY <1>3, JoinListedSends DEF HandleNotice
<1>4. CASE Reconnect
  BY <1>4 DEF Reconnect, Loaded
<1>5. CASE HandleReJoin
  <2>1. UNCHANGED <<channel, away, joined>> /\ Loaded
    BY <1>5 DEF HandleReJoin, tableVars, histVars, sessVars, Loaded
  <2>2. \A c : Listed(c)' <=> Listed(c)  BY <2>1 DEF Listed
  <2>3. PICK lines \in SUBSET ListedLines(lista) : Send("JOIN", lines)
    BY <1>5 DEF HandleReJoin
  <2>4. lines \in SUBSET LineSet  BY <2>3, ListedLinesFacts
  <2> QED  BY <2>1, <2>2, <2>3, <2>4 DEF HomeSends
<1>6. CASE ConsoleFunkcio
  BY <1>6 DEF ConsoleFunkcio, SwitchAll, HomeIdle, Listed, histVars, sessVars, Loaded
<1>7. ASSUME NEW n \in Names, NEW k \in Keys, AnswerLine(Line(n, k))
      PROVE  HomeAnswers
  <2>1. sessVars' = sessVars
    BY <1>7 DEF AnswerLine, JoinAccepted, HandleNoChannelJelszo, HandleChannelBan, RefusalStored,
                JoinRefused, Parted, Dropped
  <2>2. Loaded  BY <2>1 DEF sessVars, Loaded
  <2> QED  BY <1>7, <2>2, AnswerIsHome, FoldIsChan
<1>8. ASSUME NEW n \in Names, NEW who \in Nicks, HandleKick(n, who) PROVE HomeIdle \/ HomeSends
  <2>1. (\A c : Listed(c)' <=> Listed(c)) /\ Loaded
    BY <1>8 DEF HandleKick, Listed, tableVars, sessVars, Loaded
  <2>2. CASE Send("JOIN", ListedLines(lista))
    BY <2>1, <2>2, ListedLinesFacts DEF HomeSends
  <2>3. ASSUME NEW why \in {"kicked", "unseen"}, out' = out, who = called,
               away' = [away EXCEPT ![Fold[n]] = why]
        PROVE  HomeIdle
    <3>1. Fold[n] \in Chans  BY ChannelsAssumption DEF ChannelsAssumption
    <3>2. /\ away'[Fold[n]] # ""
          /\ \A c \in Chans : c # Fold[n] => away'[c] = away[c]
      BY <2>3, <3>1 DEF TypeAway
    <3>3. joined' = joined \ {Fold[n]}  BY <1>8, <2>3 DEF HandleKick
    <3> QED  BY <2>1, <2>3, <3>2, <3>3 DEF HomeIdle
  <2>4. CASE out' = out /\ who # called /\ away' = away
    <3>1. joined' = joined  BY <1>8, <2>4 DEF HandleKick
    <3> QED  BY <2>1, <2>4, <3>1 DEF HomeIdle
  <2>5. \/ Send("JOIN", ListedLines(lista))
        \/ out' = out /\ who # called /\ away' = away
        \/ /\ out' = out /\ who = called
           /\ \E why \in {"kicked", "unseen"} : away' = [away EXCEPT ![Fold[n]] = why]
    BY <1>8 DEF HandleKick
  <2> QED  BY <2>2, <2>3, <2>4, <2>5
<1>9. ASSUME NEW src \in Names \cup {Op}, Command(src)
      PROVE  HomeIdle \/ HomeSends \/ HomeNick
  <2>1. sessVars' = sessVars
    BY <1>9 DEF Command, HandleFunkciok, HandleChannelUpdate, HandleChannelDel, HandleLeft,
                HandleChannelAdd, HandleJoin, HandleNick
  <2>2. Loaded  BY <2>1 DEF sessVars, Loaded
  <2> QED  BY <1>9, <2>2, CommandIsHome
<1>10. CASE NickStep
  <2>1. Loaded  BY <1>10, NickStepFacts DEF Loaded
  <2> QED  BY <1>10, <2>1, NickIsHome
<1> QED  BY <1>1, <1>2, <1>3, <1>4, <1>5, <1>6, <1>7, <1>8, <1>9, <1>10 DEF Next, NickStep

LEMMA HomeSent ==
  ASSUME TypeNet, HomeSends, NEW c \in Chans, Listed(c)', Loaded /\ Listed(c) => Home(c)
  PROVE  Home(c)'
<1>1. PICK cmd \in {"JOIN", "PART"}, lines \in SUBSET LineSet :
        /\ Send(cmd, lines)
        /\ \A d \in Chans : Listed(d)' =>
             \/ Loaded /\ Listed(d) /\ joined' = joined /\ away' = away
             \/ cmd = "JOIN" /\ \E line \in lines : Fold[line.szoba] = d
  BY DEF HomeSends
<1>2. /\ Len(out') >= Len(out) /\ \A i \in 1..Len(out) : out'[i] = out[i]
      /\ lines # {} => /\ Len(out') = Len(out) + 1
                       /\ out'[Len(out) + 1] = [cmd |-> cmd, lines |-> lines]
  BY <1>1, SendLineFacts DEF TypeNet
<1>3. Len(out) \in Nat /\ Len(out') \in Nat  BY <1>1, SendLineFacts, LenProperties DEF TypeNet
<1>4. CASE Loaded /\ Listed(c) /\ joined' = joined /\ away' = away
  <2>1. ASSUME NEW i \in 1..Len(out), Pending("JOIN", c, i)
        PROVE  i \in 1..Len(out') /\ Pending("JOIN", c, i)'
    BY <1>2, <1>3, <2>1 DEF Pending
  <2> QED  BY <1>4, <2>1 DEF Home
<1>5. CASE cmd = "JOIN" /\ \E line \in lines : Fold[line.szoba] = c
  <2> DEFINE last == Len(out) + 1
  <2>1. /\ last \in 1..Len(out')
        /\ out'[last].cmd = "JOIN" /\ \E line \in out'[last].lines : Fold[line.szoba] = c
    BY <1>2, <1>3, <1>5
  <2> HIDE DEF last
  <2> QED  BY <2>1 DEF Home, Pending
<1> QED  BY <1>1, <1>4, <1>5

LEMMA HomeAnswered ==
  ASSUME TypeNet, TypeNet', HomeAnswers, NEW c \in Chans, Home(c)
  PROVE  Home(c)'
<1>1. PICK cmd \in {"JOIN", "PART"}, line \in LineSet :
        /\ Answered(cmd, line)
        /\ \A d \in Chans : IF d = Fold[line.szoba]
                              THEN d \in joined' \/ away'[d] # ""
                              ELSE /\ d \in joined => d \in joined'
                                   /\ away'[d] = away[d]
  BY DEF HomeAnswers
<1>2. CASE c = Fold[line.szoba]
  BY <1>1, <1>2 DEF Home
<1>3. CASE c # Fold[line.szoba]
  <2>1. Len(out) \in Nat /\ Len(out') \in Nat  BY LenProperties DEF TypeNet
  <2>2. \/ Shifted(1) /\ out[1].lines = {line}
        \/ Shifted(0) /\ out'[1].lines = out[1].lines \ {line}
    BY <1>1, AnsweredFacts DEF TypeNet
  <2>3. ASSUME NEW i \in 1..Len(out), Pending("JOIN", c, i)
        PROVE  \E j \in 1..Len(out') : Pending("JOIN", c, j)'
    <3>1. CASE i = 1
      <4>1. PICK other \in out[1].lines : Fold[other.szoba] = c  BY <2>3, <3>1 DEF Pending
      <4>2. other # line  BY <1>3, <4>1
      <4>3. Shifted(0) /\ out'[1].lines = out[1].lines \ {line}  BY <2>2, <4>1, <4>2
      <4>4. 1 \in 1..Len(out') /\ out'[1].cmd = "JOIN"
        BY <2>1, <2>3, <3>1, <4>3 DEF Shifted, Pending
      <4> QED  BY <4>1, <4>2, <4>3, <4>4 DEF Pending
    <3>2. CASE i # 1
      <4>1. PICK d \in {0, 1} : Shifted(d)  BY <2>2
      <4>2. i - d \in 1..Len(out') /\ (i - d) + d = i /\ i > 1  BY <2>1, <3>2, <4>1 DEF Shifted
      <4>3. out'[i - d] = out[i]  BY <4>1, <4>2 DEF Shifted
      <4> QED  BY <2>3, <4>2, <4>3 DEF Pending
    <3> QED  BY <3>1, <3>2
  <2> QED  BY <1>1, <1>3, <2>3 DEF Home
<1> QED  BY <1>2, <1>3

LEMMA HomeNicked ==
  ASSUME TypeNet, TypeNet', HomeNick, NEW c \in Chans, Home(c)
  PROVE  Home(c)'
<1>1. joined' = joined /\ away' = away  BY DEF HomeNick
<1>2. Len(out) \in Nat /\ Len(out') \in Nat  BY LenProperties DEF TypeNet
<1>3. ASSUME NEW i \in 1..Len(out), Pending("JOIN", c, i)
      PROVE  \E j \in 1..Len(out') : Pending("JOIN", c, j)'
  <2>1. ASSUME NEW line, Answered("NICK", line)
        PROVE  \E j \in 1..Len(out') : Pending("JOIN", c, j)'
    <3>1. out[1].cmd = "NICK" /\ (Shifted(0) \/ Shifted(1))
      BY <2>1, AnsweredFacts DEF TypeNet
    <3>2. PICK d \in {0, 1} : Shifted(d)  BY <3>1
    <3>3. i # 1  BY <1>3, <3>1 DEF Pending
    <3>4. i - d \in 1..Len(out') /\ (i - d) + d = i /\ i > 1  BY <1>2, <3>2, <3>3 DEF Shifted
    <3>5. out'[i - d] = out[i]  BY <3>2, <3>4 DEF Shifted
    <3> QED  BY <1>3, <3>4, <3>5 DEF Pending
  <2>2. ASSUME NEW d \in {0, 1}, Renews(d)
        PROVE  \E j \in 1..Len(out') : Pending("JOIN", c, j)'
    <3>1. i - d \in 1..Len(out) - d /\ (i - d) + d = i
      BY <1>2, <1>3, <2>2 DEF Renews, Pending
    <3>2. out'[i - d] = out[i] /\ i - d \in 1..Len(out')  BY <1>2, <2>2, <3>1 DEF Renews
    <3> QED  BY <1>3, <3>2 DEF Pending
  <2> QED  BY <2>1, <2>2 DEF HomeNick
<1> QED  BY <1>1, <1>3 DEF Home

\* A registered bot is in every channel of its table, has asked the server to
\* join it, or was kept out by somebody (by a kick, too, that it did not take for
\* its own): no order of registrations, kicks, breaks, changes of nick and
\* commands leaves a channel out without one of these reasons.
THEOREM NoneLeftOut == Spec => []NoneForgotten
<1> DEFINE IInv == NetInv /\ TypeAway /\ NoneForgotten
<1>1. Init => IInv
  BY NetInvInit, AwayInit DEF Init, NoneForgotten, Loaded
<1>2. IInv /\ [Next]_vars => IInv'
  <2> SUFFICES ASSUME NetInv, TypeAway, NoneForgotten, [Next]_vars PROVE NoneForgotten'
    BY NetInvNext, AwayNext
  <2>1. TypeNet /\ TypeNet'  BY NetInvNext DEF NetInv
  <2>2. DOMAIN out = 1..Len(out) /\ DOMAIN out' = 1..Len(out')
    BY <2>1, LenProperties DEF TypeNet
  <2>3. \A c \in Chans : Loaded /\ Listed(c) => Home(c)
    BY <2>2 DEF NoneForgotten, Home
  <2> SUFFICES ASSUME Loaded', NEW c \in Chans, Listed(c)' PROVE Home(c)'
    BY <2>2 DEF NoneForgotten, Home
  <2>4. CASE HomeIdle
    BY <2>3, <2>4 DEF HomeIdle, Home, Pending
  <2>5. CASE HomeSends
    BY <2>1, <2>3, <2>5, HomeSent
  <2>6. CASE HomeAnswers
    <3>1. Home(c)  BY <2>3, <2>6 DEF HomeAnswers
    <3> QED  BY <2>1, <2>6, <3>1, HomeAnswered
  <2>7. CASE HomeNick
    <3>1. Home(c)  BY <2>3, <2>7 DEF HomeNick
    <3> QED  BY <2>1, <2>7, <3>1, HomeNicked
  <2> QED  BY <2>4, <2>5, <2>6, <2>7, HomeStep
<1> QED  BY <1>1, <1>2, PTL DEF Spec

-----------------------------------------------------------------------------
(* Reports, nicks and the types                                            *)

TypeAsks == privmsg \in Names \cup {Op, NoPlace} \cup Nicks /\ asks \in [Names \cup {Op} -> Int]

\* m_NickTarolo is one of the nicks it has been.
TypeNicks == nick \in had /\ had \subseteq Nicks /\ called \in Nicks

\* m_ChannelPrivmsg stays, is set back, reports a refusal, or remembers a
\* request.
AsksStep ==
  \/ asks' = asks /\ privmsg' \in {privmsg, nick}
  \/ /\ asks' = IF privmsg \in DOMAIN asks THEN [asks EXCEPT ![privmsg] = @ - 1] ELSE asks
     /\ privmsg' = nick
  \/ \E src \in Names \cup {Op} : Asks(src)

LEMMA EveryAsksStep ==
  ASSUME [Next]_vars
  PROVE  AsksStep
<1>1. CASE UNCHANGED vars
  BY <1>1 DEF vars, histVars, AsksStep
<1>2. CASE HandleSuccessfulAuth \/ HandleNotice \/ Reconnect \/ HandleReJoin \/ ConsoleFunkcio
  BY <1>2 DEF HandleSuccessfulAuth, HandleNotice, JoinListed, Reconnect, HandleReJoin,
              ConsoleFunkcio, histVars, AsksStep
<1>3. ASSUME NEW n \in Names, NEW k \in Keys, AnswerLine(Line(n, k))
      PROVE  AsksStep
  BY <1>3 DEF AnswerLine, JoinAccepted, HandleNoChannelJelszo, HandleChannelBan, RefusalStored,
              JoinRefused, Parted, Dropped, histVars, AsksStep
<1>4. ASSUME NEW n \in Names, NEW who \in Nicks, HandleKick(n, who) PROVE AsksStep
  BY <1>4 DEF HandleKick, AsksStep
<1>5. ASSUME NEW src \in Names \cup {Op}, Command(src)
      PROVE  AsksStep
  <2>1. (privmsg' = privmsg /\ asks' = asks) \/ Asks(src)
    BY <1>5 DEF Command, HandleFunkciok, HandleChannelUpdate, HandleChannelDel, HandleLeft,
                HandleChannelAdd, HandleJoin, HandleNick, histVars
  <2> QED  BY <2>1 DEF AsksStep
<1>6. CASE NickStep
  BY <1>6, NickStepFacts DEF AsksStep
<1> QED  BY <1>1, <1>2, <1>3, <1>4, <1>5, <1>6 DEF Next, NickStep

LEMMA NicksNext ==
  ASSUME TypeNicks, [Next]_vars
  PROVE  TypeNicks' /\ had \subseteq had'
<1>1. CASE UNCHANGED nickVars
  BY <1>1 DEF nickVars, TypeNicks
<1>2. CASE UNCHANGED <<nick, had>> /\ called' \in Nicks
  BY <1>2 DEF TypeNicks
<1>3. ASSUME NEW n \in Nicks, nick' = n, had' = had \cup {n}, called' = called
      PROVE  TypeNicks' /\ had \subseteq had'
  BY <1>3 DEF TypeNicks
<1>4. CASE UNCHANGED vars
  BY <1>1, <1>4 DEF vars
<1>5. CASE HandleSuccessfulAuth
  BY <1>2, <1>5 DEF HandleSuccessfulAuth, JoinListed, TypeNicks
<1>6. CASE HandleNotice \/ Reconnect \/ HandleReJoin \/ ConsoleFunkcio
  BY <1>1, <1>6 DEF HandleNotice, JoinListed, Reconnect, HandleReJoin, ConsoleFunkcio, nickVars
<1>7. ASSUME NEW n \in Names, NEW k \in Keys, AnswerLine(Line(n, k))
      PROVE  UNCHANGED nickVars
  BY <1>7 DEF AnswerLine, JoinAccepted, HandleNoChannelJelszo, HandleChannelBan, RefusalStored,
              JoinRefused, Parted, Dropped
<1>8. ASSUME NEW n \in Nicks, AnswerNick(n)
      PROVE  TypeNicks' /\ had \subseteq had'
  BY <1>1, <1>2, <1>3, <1>8 DEF AnswerNick, NickAccepted, NickRefused, Dropped, HandleNickError
<1>9. ASSUME NEW n \in Names, NEW who \in Nicks, HandleKick(n, who)
      PROVE  UNCHANGED nickVars
  BY <1>9 DEF HandleKick
<1>10. ASSUME NEW src \in Names \cup {Op}, Command(src)
       PROVE  UNCHANGED nickVars \/ \E n \in Nicks : HandleNick(src, n)
  BY <1>10 DEF Command, HandleFunkciok, HandleChannelUpdate, HandleChannelDel, HandleLeft,
               HandleChannelAdd, HandleJoin
<1>11. ASSUME NEW src, NEW n \in Nicks, HandleNick(src, n)
       PROVE  TypeNicks' /\ had \subseteq had'
  BY <1>3, <1>11 DEF HandleNick
<1> QED  BY <1>1, <1>4, <1>5, <1>6, <1>7, <1>8, <1>9, <1>10, <1>11 DEF Next

AsksInv == TypeAsks /\ TypeNicks /\ ReportsAreAsked

LEMMA AsksInvInit ==
  ASSUME Init
  PROVE  AsksInv
<1>1. privmsg = NoPlace /\ asks = [src \in Names \cup {Op} |-> 0]  BY DEF Init
<1>2. nick = NickName /\ called = NickName /\ had = {NickName}  BY DEF Init
<1>3. NoPlace \notin Names \cup {Op} /\ NickName \in Nicks  BY NicksAssumption DEF NicksAssumption
<1>4. TypeAsks /\ TypeNicks  BY <1>1, <1>2, <1>3 DEF TypeAsks, TypeNicks
<1>5. DOMAIN asks = Names \cup {Op} /\ \A src \in Names \cup {Op} : asks[src] = 0  BY <1>1
<1>6. ReportsAreAsked  BY <1>1, <1>3, <1>5 DEF ReportsAreAsked
<1> QED  BY <1>4, <1>6 DEF AsksInv

LEMMA AsksInvNext ==
  ASSUME AsksInv, [Next]_vars
  PROVE  AsksInv'
<1>1. TypeNicks /\ TypeNicks' /\ had \subseteq had'  BY NicksNext DEF AsksInv
<1>2. nick \in had' /\ nick \in Nicks  BY <1>1 DEF TypeNicks
<1>3. nick \notin Names \cup {Op}  BY <1>2, NicksAssumption DEF NicksAssumption
<1>4. DOMAIN asks = Names \cup {Op}  BY DEF AsksInv, TypeAsks
<1>5. CASE asks' = asks /\ privmsg' \in {privmsg, nick}
  BY <1>1, <1>2, <1>3, <1>4, <1>5 DEF AsksInv, TypeAsks, ReportsAreAsked
<1>6. CASE /\ asks' = IF privmsg \in DOMAIN asks THEN [asks EXCEPT ![privmsg] = @ - 1] ELSE asks
           /\ privmsg' = nick
  <2>1. CASE privmsg \in DOMAIN asks
    <3>1. asks[privmsg] > 0 /\ asks[privmsg] \in Int
      BY <1>4, <2>1 DEF AsksInv, TypeAsks, ReportsAreAsked
    <3>2. /\ asks' \in [Names \cup {Op} -> Int]
          /\ \A src \in Names \cup {Op} : asks'[src] = IF src = privmsg THEN asks[src] - 1 ELSE asks[src]
      BY <1>4, <1>6, <2>1, <3>1 DEF AsksInv, TypeAsks
    <3>3. DOMAIN asks' = Names \cup {Op} /\ \A src \in DOMAIN asks' : asks'[src] >= 0
      BY <1>4, <3>1, <3>2 DEF AsksInv, TypeAsks, ReportsAreAsked
    <3> QED  BY <1>1, <1>2, <1>3, <1>6, <3>2, <3>3 DEF AsksInv, TypeAsks, ReportsAreAsked
  <2>2. CASE privmsg \notin DOMAIN asks
    BY <1>1, <1>2, <1>3, <1>4, <1>6, <2>2 DEF AsksInv, TypeAsks, ReportsAreAsked
  <2> QED  BY <2>1, <2>2
<1>7. ASSUME NEW src \in Names \cup {Op}, Asks(src) PROVE AsksInv'
  <2>1. /\ asks' \in [Names \cup {Op} -> Int] /\ privmsg' = src
        /\ \A s \in Names \cup {Op} : asks'[s] = IF s = src THEN asks[s] + 1 ELSE asks[s]
    BY <1>4, <1>7 DEF Asks, AsksInv, TypeAsks
  <2>2. DOMAIN asks' = Names \cup {Op} /\ \A s \in DOMAIN asks' : asks'[s] >= 0
    BY <1>4, <2>1 DEF AsksInv, TypeAsks, ReportsAreAsked
  <2>3. asks'[src] > 0
    BY <1>4, <2>1 DEF AsksInv, TypeAsks, ReportsAreAsked
  <2> QED  BY <1>1, <2>1, <2>2, <2>3 DEF AsksInv, TypeAsks, ReportsAreAsked
<1> QED  BY <1>5, <1>6, <1>7, EveryAsksStep DEF AsksStep

\* No place is told of more refusals than requests were made there; the others
\* are told to a nick m_NickTarolo has been.
THEOREM ReportsHaveRequests == Spec => []ReportsAreAsked
<1>1. AsksInv => ReportsAreAsked  BY DEF AsksInv
<1> QED  BY <1>1, AsksInvInit, AsksInvNext, PTL DEF Spec

TypeRest ==
  /\ schumix \in [Funkciok -> Status]
  /\ connState \in {"connected", "registered"}
  /\ asked \subseteq Chans
  /\ events \in Nat

TypeFlags == hAktivitas \in BOOLEAN /\ useHostServ \in BOOLEAN

LEMMA FlagsNext ==
  ASSUME TypeFlags, [Next]_vars
  PROVE  TypeFlags'
<1>1. CASE UNCHANGED vars
  <2>1. hAktivitas' = hAktivitas /\ useHostServ' = useHostServ  BY <1>1 DEF vars, sessVars
  <2> QED  BY <2>1, Zenon DEF TypeFlags
<1>2. CASE HandleSuccessfulAuth
  <2>1. useHostServ' = useHostServ  BY <1>2, Zenon DEF HandleSuccessfulAuth
  <2>2. hAktivitas' = TRUE \/ hAktivitas' = hAktivitas  BY <1>2, Zenon DEF HandleSuccessfulAuth
  <2> QED  BY <2>1, <2>2, Zenon DEF TypeFlags
<1>3. CASE HandleNotice
  <2>1. useHostServ' = useHostServ /\ hAktivitas' = FALSE  BY <1>3, Zenon DEF HandleNotice
  <2> QED  BY <2>1, Zenon DEF TypeFlags
<1>4. CASE \/ Reconnect \/ HandleReJoin \/ ConsoleFunkcio
           \/ \E n \in Names, k \in Keys : AnswerLine(Line(n, k))
           \/ \E n \in Names, who \in Nicks : HandleKick(n, who)
           \/ \E src \in Names \cup {Op} : Command(src)
           \/ \E n \in Nicks : AnswerNick(n)
  <2>1. hAktivitas' = hAktivitas /\ useHostServ' = useHostServ
    BY <1>4 DEF Reconnect, HandleReJoin, ConsoleFunkcio, AnswerLine, JoinAccepted,
                HandleNoChannelJelszo, HandleChannelBan, RefusalStored, JoinRefused, Parted,
                Dropped, HandleKick, Command, HandleFunkciok, HandleChannelUpdate,
                HandleChannelDel, HandleLeft, HandleChannelAdd, HandleJoin, HandleNick,
                AnswerNick, NickAccepted, NickRefused, HandleNickError, sessVars
  <2> QED  BY <2>1, Zenon DEF TypeFlags
<1> QED  BY <1>1, <1>2, <1>3, <1>4 DEF Next

LEMMA SwitchType ==
  ASSUME TypeRest, NEW status \in Status, NEW nevek, SwitchAll(status, nevek)
  PROVE  schumix' \in [Funkciok -> Status]
BY DEF TypeRest, SwitchAll

LEMMA RestNext ==
  ASSUME TypeRest, [Next]_vars
  PROVE  TypeRest'
<1>1. CASE UNCHANGED vars
  BY <1>1 DEF vars, sessVars, histVars, TypeRest
<1>2. CASE HandleSuccessfulAuth \/ HandleNotice \/ HandleReJoin \/ Reconnect
  <2>1. /\ schumix' = schumix /\ asked' = asked
        /\ connState' \in {connState, "connected", "registered"}
    BY <1>2 DEF HandleSuccessfulAuth, HandleNotice, JoinListed, HandleReJoin, Reconnect, sessVars,
                histVars
  <2>2. events' \in {events, events + 1}
    BY <1>2 DEF HandleSuccessfulAuth, HandleNotice, JoinListed, HandleReJoin, Reconnect, Event
  <2> QED  BY <2>1, <2>2 DEF TypeRest
<1>3. CASE ConsoleFunkcio
  BY <1>3, SwitchType DEF ConsoleFunkcio, Event, sessVars, histVars, TypeRest
<1>4. ASSUME NEW n \in Names, NEW k \in Keys, AnswerLine(Line(n, k))
      PROVE  TypeRest'
  <2>1. UNCHANGED <<schumix, connState, asked, events>>
    BY <1>4 DEF AnswerLine, JoinAccepted, HandleNoChannelJelszo, HandleChannelBan, RefusalStored,
                JoinRefused, Parted, Dropped, sessVars, histVars
  <2> QED  BY <2>1 DEF TypeRest
<1>5. ASSUME NEW n \in Names, NEW who \in Nicks, HandleKick(n, who) PROVE TypeRest'
  BY <1>5 DEF HandleKick, Event, sessVars, TypeRest
<1>7. CASE NickStep
  BY <1>7, NickStepFacts DEF TypeRest
<1>6. ASSUME NEW src \in Names \cup {Op}, Command(src)
      PROVE  TypeRest'
  <2>1. connState' = connState /\ events' = events + 1
    BY <1>6 DEF Command, HandleFunkciok, HandleChannelUpdate, HandleChannelDel, HandleLeft,
                HandleChannelAdd, HandleJoin, HandleNick, HandlePrivmsg, Event, sessVars
  <2>2. schumix' \in [Funkciok -> Status]
    <3>1. CASE HandleFunkciok(src)
      BY <3>1, SwitchType DEF HandleFunkciok, EditFunkciok, ResetFunkciok, TypeRest
    <3>2. CASE ~HandleFunkciok(src)
      BY <1>6, <3>2 DEF Command, HandleChannelUpdate, HandleChannelDel, HandleLeft,
                        HandleChannelAdd, HandleJoin, HandleNick, TypeRest
    <3> QED  BY <3>1, <3>2
  <2>3. asked' \subseteq asked \/ \E n \in Names : asked' = asked \cup {Fold[n]}
    BY <1>6 DEF Command, HandleFunkciok, HandleChannelUpdate, HandleChannelDel, HandleLeft,
                HandleChannelAdd, HandleJoin, HandleNick, histVars
  <2>4. \A n \in Names : Fold[n] \in Chans  BY ChannelsAssumption DEF ChannelsAssumption
  <2> QED  BY <2>1, <2>2, <2>3, <2>4 DEF TypeRest
<1> QED  BY <1>1, <1>2, <1>3, <1>4, <1>5, <1>6, <1>7 DEF Next, NickStep

\* Type correctness: the table holds rows of known ids, and the cache whole
\* lists of functions or the empty one.
THEOREM TypeCorrect == Spec => []TypeOK
<1> DEFINE IInv == NetInv /\ TypeAway /\ AsksInv /\ TypeRest /\ TypeFlags
<1>1. Init => IInv
  <2>1. ASSUME Init PROVE TypeRest
    <3>1. schumix = [f \in Funkciok |-> "be"]  BY <2>1, Zenon DEF Init
    <3>2. connState = "connected"  BY <2>1, Zenon DEF Init
    <3>3. asked = {} /\ events = 0  BY <2>1 DEF Init
    <3> QED  BY <3>1, <3>2, <3>3 DEF TypeRest, Status
  <2>2. Init => TypeFlags  BY Zenon DEF Init, TypeFlags
  <2> QED  BY <2>1, <2>2, NetInvInit, AwayInit, AsksInvInit
<1>2. IInv /\ [Next]_vars => IInv'
  BY NetInvNext, AwayNext, AsksInvNext, RestNext, FlagsNext
<1>3. IInv => TypeOK
  <2> SUFFICES ASSUME IInv PROVE TypeOK  OBVIOUS
  <2>1. TypeTable /\ TypeNet /\ TypeAway /\ TypeAsks /\ TypeRest /\ TypeFlags
    BY DEF NetInv, AsksInv
  <2>3. nick \in Nicks /\ called \in Nicks /\ had \subseteq Nicks  BY DEF AsksInv, TypeNicks
  <2>2. TypeFlags => hAktivitas \in BOOLEAN /\ useHostServ \in BOOLEAN  BY Zenon DEF TypeFlags
  <2> QED  BY <2>1, <2>2, <2>3, Zenon DEF TypeOK, TypeTable, TypeNet, TypeAway, TypeAsks, TypeRest
<1> QED  BY <1>1, <1>2, <1>3, PTL DEF Spec

-----------------------------------------------------------------------------
(* What a funkcio command changes                                          *)

\* The session has read the functions of all channels, as the table says, or
\* none yet: a broken connection does not put the copy out of date.
CacheInv == cache = NoList \/ cache = ChannelFunkcioReload(channel, lista)

LEMMA CacheNext ==
  ASSUME TypeTable, CacheInv, [Next]_vars
  PROVE  CacheInv'
<1> channel \in Tables  BY TypeTableIsTable
<1>1. CASE KeepsTable
  BY <1>1 DEF KeepsTable, CacheInv, tableVars
<1>2. CASE RecordsRefusal
  BY <1>2, RecordsFacts DEF RecordsRefusal, CacheInv
<1>3. CASE RecordsJoins
  BY <1>3, RecordsFacts DEF RecordsJoins, CacheInv
<1>4. CASE WritesFunctions
  BY <1>4 DEF WritesFunctions, CacheInv
<1>5. CASE ChangesRows
  BY <1>5 DEF ChangesRows, ReloadBoth, CacheInv
<1> QED  BY <1>1, <1>2, <1>3, <1>4, <1>5, TableStep

LEMMA CacheAlways == Spec => [](TypeTable /\ CacheInv)
<1>1. Init => TypeTable /\ CacheInv
  BY TypeTableInit DEF Init, CacheInv
<1>2. TypeTable /\ CacheInv /\ [Next]_vars => (TypeTable /\ CacheInv)'
  BY TypeTableNext, CacheNext
<1> QED  BY <1>1, <1>2, PTL DEF Spec

\* An UPDATE of the functions of one name is read back under every spelling of
\* its channel, and under no other name.
LEMMA UpdateReadBack ==
  ASSUME NEW t \in Tables, NEW n \in Names, RowsOf(t, n) # {}, NEW f \in Lists, NEW m \in Names
  PROVE  Effective(UpdateFunkciok(t, {n}, f), m) = IF Fold[m] = Fold[n] THEN f ELSE Effective(t, m)
<1> DEFINE u == UpdateFunkciok(t, {n}, f)
<1>1. \A id \in DOMAIN t : t[id] \in Rows  BY TableDef
<1>2. ASSUME NEW r \in Rows PROVE [r EXCEPT !.funkciok = f].funkciok = f  BY DEF Rows
<1>3. /\ \A id \in RowsOf(t, n) : u[id].funkciok = f
      /\ \A id \in DOMAIN t \ RowsOf(t, n) : u[id] = t[id]
  <2>1. \A id \in DOMAIN t : u[id] = IF id \in RowsOf(t, n) THEN [t[id] EXCEPT !.funkciok = f] ELSE t[id]
    BY DEF UpdateFunkciok
  <2>2. RowsOf(t, n) \subseteq DOMAIN t  BY DEF RowsOf
  <2> QED  BY <1>1, <1>2, <2>1, <2>2
<1>4. RowsOf(u, m) = RowsOf(t, m)  BY UpdateFunkciokType, SameNamesSameRows
<1>5. RowsOf(t, m) # {} => Least(RowsOf(t, m)) \in RowsOf(t, m)
  <2>1. RowsOf(t, m) \subseteq Nat  BY TableDef DEF RowsOf
  <2> QED  BY <2>1, LeastIn
<1> HIDE DEF u
<1>6. CASE Fold[m] = Fold[n]
  <2>1. RowsOf(t, m) = RowsOf(t, n)  BY <1>6 DEF RowsOf
  <2> QED  BY <1>3, <1>4, <1>5, <1>6, <2>1 DEF Effective, SelectFunkciok, u
<1>7. CASE Fold[m] # Fold[n]
  <2>1. RowsOf(t, m) \subseteq DOMAIN t \ RowsOf(t, n)  BY <1>7 DEF RowsOf
  <2> QED  BY <1>3, <1>4, <1>5, <1>7, <2>1 DEF Effective, SelectFunkciok, u
<1> QED  BY <1>6, <1>7

\* A funkcio command changes the functions it names, of the channel it names,
\* and nothing else: the list it writes back is never an old copy.
THEOREM EditIsLocal == Spec => EditKeepsOthers
<1> DEFINE Local(n, status, nevek) ==
      channel' # channel /\ Cached(n) # NoList /\ EditFunkciok(n, status, nevek) =>
        \A m \in Names : LET old == Effective(channel, m)  new == Effective(channel', m)
                         IN IF Fold[m] # Fold[n] THEN new = old
                            ELSE DOMAIN new = DOMAIN old /\ \A f \in DOMAIN old \ nevek : new[f] = old[f]
<1>1. ASSUME TypeTable, CacheInv, NEW n \in DOMAIN cache, NEW status \in Status, NEW nevek \in Nevek
      PROVE  Local(n, status, nevek)
  <2> SUFFICES ASSUME EditFunkciok(n, status, nevek), NEW m \in Names
               PROVE  LET old == Effective(channel, m)  new == Effective(channel', m)
                      IN IF Fold[m] # Fold[n] THEN new = old
                         ELSE DOMAIN new = DOMAIN old /\ \A f \in DOMAIN old \ nevek : new[f] = old[f]
    OBVIOUS
  <2> DEFINE list == ChannelFunkciok(nevek, status, n)
  <2>1. channel \in Tables  BY <1>1, TypeTableIsTable
  <2>2. n \in Names /\ list \in Lists  BY <1>1, ChannelFunkciokType DEF TypeTable
  <2>3. cache = ChannelFunkcioReload(channel, lista)  BY <1>1 DEF CacheInv, NoList
  <2>4. RowsOf(channel, n) # {} /\ cache[n] = Effective(channel, n)
    BY <2>3 DEF ChannelFunkcioReload, Effective
  <2>5. DOMAIN list = DOMAIN cache[n] /\ \A f \in DOMAIN cache[n] \ nevek : list[f] = cache[n][f]
    BY DEF ChannelFunkciok, Cached
  <2>6. channel' = UpdateFunkciok(channel, {n}, list)  BY DEF EditFunkciok
  <2> HIDE DEF list
  <2>7. Effective(channel', m) = IF Fold[m] = Fold[n] THEN list ELSE Effective(channel, m)
    BY <2>1, <2>2, <2>4, <2>6, UpdateReadBack
  <2>8. CASE Fold[m] # Fold[n]
    BY <2>7, <2>8
  <2>9. CASE Fold[m] = Fold[n]
    <3>1. Effective(channel, m) = cache[n]
      BY <2>4, <2>9 DEF Effective, SelectFunkciok, RowsOf
    <3> QED  BY <2>5, <2>7, <2>9, <3>1
  <2> QED  BY <2>8, <2>9
<1>2. TypeTable /\ CacheInv /\ [Next]_vars =>
        [\A n \in DOMAIN cache, status \in Status, nevek \in Nevek : Local(n, status, nevek)]_vars
  BY <1>1, Zenon
<1> QED  BY <1>2, CacheAlways, PTL DEF Spec, EditKeepsOthers
=============================================================================
