-------------------------- MODULE FeedPollerProofs --------------------------
(***************************************************************************)
(* Theorems about FeedPoller, for any number of repositories, threads and  *)
(* channels, and for each of the three classes.                            *)
(***************************************************************************)
EXTENDS FeedPoller, SequenceTheorems, TLAPS

-----------------------------------------------------------------------------
(* Inductive invariants                                                    *)

Inside(t) == pc[t] \in InKiiras

\* A thread that was started has an id, and only the one that has the mutex is
\* inside Kiiras.
OwnInv ==
  \A t \in Threads :
    /\ pc[t] # "unborn" => owner[t] \in Ids
    /\ Inside(t) => mutex = t

\* What is known of a repository never gets ahead of it, and everything that
\* was announced or skipped was known.
KnownInv ==
  \A id \in Ids :
    /\ a_rev[id] <= head[id]
    /\ \A i \in DOMAIN announced[id] : announced[id][i].rev <= a_rev[id]
    /\ \A r \in skipped[id] : r <= a_rev[id]

\* The revision a thread is about to announce is the one that is known, and
\* newer than all that were skipped or that the channels to come have heard of.
NewsInv ==
  \A t \in Threads : Inside(t) =>
    LET id == owner[t] IN
    /\ rev[t] = a_rev[id]
    /\ \A r \in skipped[id] : r < rev[t]
    /\ \A i \in DOMAIN announced[id] :
         announced[id][i].rev = rev[t] =>
           pc[t] = "sending" /\ announced[id][i].channel \notin reschannel[t]

\* Its title was fetched with it or after it, SvnInfo has it at once; its author
\* was fetched after its title.
TitleInv ==
  \A t \in Threads :
    /\ pc[t] = "title" => ~OneFetch
    /\ pc[t] \in {"author", "reading", "sending"} =>
         /\ OneFetch => title[t] = rev[t]
         /\ rev[t] <= title[t] /\ title[t] <= head[owner[t]]
    /\ pc[t] \in {"reading", "sending"} => title[t] <= author[t]

\* A row that was emptied stays empty, and who still sends to its channels sends
\* what was known then.
MuteInv ==
  \A id \in Ids : \A r \in emptied[id] :
    /\ channels[id] = {}
    /\ r <= a_rev[id]
    /\ \A t \in Threads : owner[t] = id /\ pc[t] = "sending" => rev[t] <= r

RevInv == KnownInv /\ NewsInv /\ NoRepeat /\ SkippedStaysSkipped
FitInv == TitleInv /\ TitleFits
EmptyInv == MuteInv /\ EmptiedRowIsMute
AllInv == RevInv /\ FitInv /\ EmptyInv

-----------------------------------------------------------------------------
(* Types, and the mutex                                                    *)

TypeInv == TypeOK /\ OwnInv

LEMMA InitType == Init => TypeInv
<1> SUFFICES ASSUME Init PROVE TypeInv
  OBVIOUS
<1>1. status \in BOOLEAN /\ m_running \in [Ids -> BOOLEAN]
  BY Zenon DEF Init
<1>2. channels \in [Ids -> SUBSET Channels]
  BY PollerAssumption DEF Init
<1>3. /\ owner \in [Threads -> Ids \cup {NoId}]
      /\ \A t \in Threads : owner[t] # NoId => owner[t] \in Ids
  BY DEF Init
<1>4. pc = [t \in Threads |-> IF owner[t] = NoId THEN "unborn" ELSE "starting"]
  BY DEF Init
<1>5. pc \in [Threads -> PCs] /\ OwnInv
  BY <1>3, <1>4 DEF PCs, InKiiras, OwnInv, Inside
<1>6. announced \in [Ids -> Seq(Message)]
  BY DEF Init
<1>. QED BY <1>1, <1>2, <1>3, <1>5, <1>6 DEF Init, TypeInv, TypeOK

\* Threads that are started get an id; the others do not notice.
Started(S) ==
  /\ pc' \in [Threads -> PCs] /\ owner' \in [Threads -> Ids \cup {NoId}]
  /\ \A t \in Threads :
       \/ pc'[t] = pc[t] /\ owner'[t] = owner[t]
       \/ pc[t] = "unborn" /\ pc'[t] = "starting" /\ owner'[t] \in S

LEMMA StartStarts ==
  ASSUME TypeInv, NEW S \in SUBSET Ids, Start(S)
  PROVE  Started(S)
<1>1. PICK f \in [S -> {t \in Threads : pc[t] = "unborn"}] :
        /\ pc' = [t \in Threads |-> IF \E id \in S : f[id] = t THEN "starting" ELSE pc[t]]
        /\ owner' = [t \in Threads |-> IF \E id \in S : f[id] = t
                                         THEN CHOOSE id \in S : f[id] = t ELSE owner[t]]
  BY DEF Start
<1>2. \A t \in Threads : (\E id \in S : f[id] = t) => (CHOOSE id \in S : f[id] = t) \in S
  OBVIOUS
<1>3. \A t \in Threads : (\E id \in S : f[id] = t) => pc[t] = "unborn"
  BY <1>1
<1>4. \A t \in Threads :
        \/ pc'[t] = pc[t] /\ owner'[t] = owner[t]
        \/ pc[t] = "unborn" /\ pc'[t] = "starting" /\ owner'[t] \in S
  BY <1>1, <1>2, <1>3
<1>5. pc' \in [Threads -> PCs]
  BY <1>1 DEF TypeInv, TypeOK, PCs
<1>6. owner' \in [Threads -> Ids \cup {NoId}]
  BY <1>1, <1>2 DEF TypeInv, TypeOK
<1>. QED BY <1>4, <1>5, <1>6 DEF Started

LEMMA StartedType ==
  ASSUME TypeInv, NEW S \in SUBSET Ids, Started(S), UNCHANGED mutex
  PROVE  /\ OwnInv'
         /\ mutex' \in {t \in Threads : pc'[t] \in InKiiras} \cup {Nobody}
<1>1. OwnInv'
  BY DEF TypeInv, TypeOK, OwnInv, Inside, InKiiras, Started
<1>2. mutex' \in {t \in Threads : pc'[t] \in InKiiras} \cup {Nobody}
  BY DEF TypeInv, TypeOK, InKiiras, Started
<1>. QED BY <1>1, <1>2

LEMMA RunningType ==
  ASSUME TypeInv, NEW S, NEW b \in BOOLEAN, SetRunning(S, b)
  PROVE  m_running' \in [Ids -> BOOLEAN]
<1>1. \A id \in Ids : m_running[id] \in BOOLEAN
  BY Zenon DEF TypeInv, TypeOK
<1>2. \A id \in Ids : (IF id \in S THEN b ELSE m_running[id]) \in BOOLEAN
  BY <1>1, Zenon
<1>. QED BY <1>2, Zenon DEF SetRunning

LEMMA CommandType ==
  ASSUME TypeInv, NEW S \in SUBSET Ids, NEW b \in BOOLEAN, SetRunning(S, b), Start(S),
         UNCHANGED <<feedVars, channels, a_rev, mutex, localVars, histVars>>, restarting' \subseteq Ids
  PROVE  TypeInv'
<1>1. m_running' \in [Ids -> BOOLEAN]
  BY RunningType
<1>2. Started(S)
  BY StartStarts
<1>3. OwnInv' /\ mutex' \in {t \in Threads : pc'[t] \in InKiiras} \cup {Nobody}
  BY <1>2, StartedType
<1>. QED BY <1>1, <1>2, <1>3 DEF TypeInv, TypeOK, Started, feedVars, localVars, histVars

\* A thread goes on to q: it gets the mutex, gives it back or has it or not as before.
LEMMA PlaceType ==
  ASSUME TypeInv, NEW t \in Threads, NEW q \in PCs \ {"unborn"}, pc[t] # "unborn",
         pc' = [pc EXCEPT ![t] = q], UNCHANGED owner,
         LET inside == q \in InKiiras IN
           \/ mutex \in {Nobody, t} /\ mutex' = (IF inside THEN t ELSE Nobody)
           \/ mutex' = mutex /\ (Inside(t) <=> inside)
  PROVE  /\ pc' \in [Threads -> PCs] /\ OwnInv'
         /\ mutex' \in {u \in Threads : pc'[u] \in InKiiras} \cup {Nobody}
<1>1. pc' \in [Threads -> PCs]
  BY DEF TypeInv, TypeOK
<1>2. pc'[t] = q /\ \A u \in Threads \ {t} : pc'[u] = pc[u]
  BY DEF TypeInv, TypeOK
<1>3. OwnInv'
  BY <1>2, PollerAssumption DEF TypeInv, OwnInv, Inside
<1>4. mutex' \in {u \in Threads : pc'[u] \in InKiiras} \cup {Nobody}
  BY <1>2 DEF TypeInv, TypeOK, Inside
<1>. QED BY <1>1, <1>3, <1>4

\* What a thread in Kiiras does to its locals and to the history.
LEMMA LocalType ==
  ASSUME TypeInv, NEW t \in Threads, pc[t] # "unborn", ThreadStep(t)
  PROVE  /\ a_rev' \in [Ids -> Nat]
         /\ rev' \in [Threads -> Nat] /\ title' \in [Threads -> Nat] /\ author' \in [Threads -> Nat]
         /\ reschannel' \in [Threads -> SUBSET Channels]
         /\ skipped' \in [Ids -> SUBSET Nat] /\ announced' \in [Ids -> Seq(Message)]
<1> USE DEF localVars, histVars
<1> DEFINE id == owner[t]
<1>1. /\ id \in Ids /\ head[id] \in Nat /\ 0 \in Nat
      /\ rev[t] \in Nat /\ title[t] \in Nat /\ author[t] \in Nat
      /\ a_rev \in [Ids -> Nat] /\ rev \in [Threads -> Nat] /\ title \in [Threads -> Nat]
      /\ author \in [Threads -> Nat]
  BY DEF TypeInv, TypeOK, OwnInv
<1>2. /\ channels[id] \in SUBSET Channels /\ {} \in SUBSET Channels
      /\ reschannel \in [Threads -> SUBSET Channels]
      /\ \A c \in Channels : reschannel[t] \ {c} \in SUBSET Channels
  BY <1>1 DEF TypeInv, TypeOK
<1>3. a_rev' \in [Ids -> Nat]
  <2>1. UNCHANGED a_rev \/ a_rev' = [a_rev EXCEPT ![id] = head[id]]
    BY DEF ThreadStep, Lekerdezes, Leave, Poll, Ask, Wake, GoOn, Kiiras, titleUrl, authorUrl,
           ReadChannels, SendTo, Sent
  <2>. QED BY <1>1, <2>1
<1>4. rev' \in [Threads -> Nat]
  <2>1. UNCHANGED rev \/ \E n \in Nat : rev' = [rev EXCEPT ![t] = n]
    BY <1>1 DEF ThreadStep, Lekerdezes, Leave, Poll, Ask, Wake, GoOn, Kiiras, titleUrl, authorUrl,
           ReadChannels, SendTo, Sent, GiveUp, Return
  <2>. QED BY <1>1, <2>1
<1>5. title' \in [Threads -> Nat]
  <2>1. UNCHANGED title \/ \E n \in Nat : title' = [title EXCEPT ![t] = n]
    BY <1>1 DEF ThreadStep, Lekerdezes, Leave, Poll, Ask, Wake, GoOn, Kiiras, titleUrl, authorUrl,
           ReadChannels, SendTo, Sent, GiveUp, Return
  <2>. QED BY <1>1, <2>1
<1>6. author' \in [Threads -> Nat]
  <2>1. UNCHANGED author \/ \E n \in Nat : author' = [author EXCEPT ![t] = n]
    BY <1>1 DEF ThreadStep, Lekerdezes, Leave, Poll, Ask, Wake, GoOn, Kiiras, titleUrl, authorUrl,
           ReadChannels, SendTo, Sent, GiveUp, Return
  <2>. QED BY <1>1, <2>1
<1>7. reschannel' \in [Threads -> SUBSET Channels]
  <2>1. \/ UNCHANGED reschannel
        \/ \E S \in SUBSET Channels : reschannel' = [reschannel EXCEPT ![t] = S]
    BY <1>1, <1>2 DEF ThreadStep, Lekerdezes, Leave, Poll, Ask, Wake, GoOn, Kiiras, titleUrl, authorUrl,
           ReadChannels, SendTo, Sent, GiveUp, Return
  <2>. QED BY <1>2, <2>1
<1>8. skipped' \in [Ids -> SUBSET Nat]
  <2>1. \/ UNCHANGED skipped
        \/ \E n \in Nat : skipped' = [skipped EXCEPT ![id] = @ \cup {n}]
        \/ skipped' = [skipped EXCEPT ![id] = @]
    BY <1>1 DEF ThreadStep, Lekerdezes, Leave, Poll, Ask, Wake, GoOn, Kiiras, titleUrl, authorUrl,
           ReadChannels, SendTo, Sent, GiveUp
  <2>2. ASSUME NEW n \in Nat, skipped' = [skipped EXCEPT ![id] = @ \cup {n}]
        PROVE  skipped' \in [Ids -> SUBSET Nat]
    <3>1. skipped[id] \cup {n} \in SUBSET Nat
      BY <1>1, <2>2 DEF TypeInv, TypeOK
    <3>. QED BY <2>2, <3>1, Zenon DEF TypeInv, TypeOK
  <2>. QED BY <1>1, <2>1, <2>2 DEF TypeInv, TypeOK
<1>9. announced' \in [Ids -> Seq(Message)]
  <2>1. \/ UNCHANGED announced
        \/ \E c \in Channels : SendTo(t, c)
    BY DEF ThreadStep, Lekerdezes, Leave, Poll, Ask, Wake, GoOn, Kiiras, titleUrl, authorUrl,
           ReadChannels, Sent
  <2>2. CASE UNCHANGED announced
    BY <2>2 DEF TypeInv, TypeOK
  <2>3. ASSUME NEW c \in Channels, SendTo(t, c) PROVE announced' \in [Ids -> Seq(Message)]
    <3> DEFINE m == [rev |-> rev[t], title |-> title[t], author |-> author[t], channel |-> c]
    <3>1. m \in Message
      BY <1>1 DEF Message
    <3>2. announced' = [announced EXCEPT ![id] = Append(@, m)]
      BY <2>3 DEF SendTo
    <3>. HIDE DEF m
    <3>3. Append(announced[id], m) \in Seq(Message)
      BY <1>1, <3>1, AppendProperties DEF TypeInv, TypeOK
    <3>. QED BY <3>2, <3>3, Zenon DEF TypeInv, TypeOK
  <2>. QED BY <2>1, <2>2, <2>3
<1>. QED BY <1>3, <1>4, <1>5, <1>6, <1>7, <1>8, <1>9

LEMMA NextType == TypeInv /\ [Next]_vars => TypeInv'
<1> SUFFICES ASSUME TypeInv, [Next]_vars PROVE TypeInv'
  OBVIOUS
<1> USE DEF feedVars, localVars, histVars
<1>1. ASSUME NEW id \in Ids, Commit(id) PROVE TypeInv'
  BY <1>1 DEF Commit, TypeInv, TypeOK, OwnInv, Inside
<1>2. ASSUME NEW id \in Ids, NewThread(id) PROVE TypeInv'
  BY <1>2, CommandType DEF NewThread, TypeInv, TypeOK
<1>3. ASSUME NEW id \in Ids, StopThread(id) PROVE TypeInv'
  BY <1>3, CommandType DEF StopThread, TypeInv, TypeOK
<1>4. ASSUME NEW S \in SUBSET Ids, ReloadBegin(S) PROVE TypeInv'
  <2>1. m_running' \in [Ids -> BOOLEAN]
    BY <1>4, RunningType DEF ReloadBegin
  <2>. QED BY <1>4, <2>1 DEF ReloadBegin, TypeInv, TypeOK, OwnInv, Inside
<1>5. ASSUME ReloadEnd PROVE TypeInv'
  BY <1>5, CommandType DEF ReloadEnd, TypeInv, TypeOK
<1>6. ASSUME NEW id \in Ids, NEW c \in Channels, AddChannel(id, c) \/ DelChannel(id, c) PROVE TypeInv'
  <2>1. channels' \in [Ids -> SUBSET Channels]
    <3>1. channels[id] \cup {c} \in SUBSET Channels /\ channels[id] \ {c} \in SUBSET Channels
      BY DEF TypeInv, TypeOK
    <3>2. \E cs \in SUBSET Channels : channels' = [channels EXCEPT ![id] = cs]
      BY <1>6, <3>1 DEF AddChannel, DelChannel
    <3>. QED BY <3>2 DEF TypeInv, TypeOK
  <2>2. UNCHANGED <<feedVars, m_running, a_rev, mutex, pc, owner, localVars, restarting, announced, skipped>>
    BY <1>6 DEF AddChannel, DelChannel
  <2>3. emptied' \in [Ids -> SUBSET Nat]
    <3>1. emptied[id] \cup {a_rev[id]} \in SUBSET Nat /\ emptied[id] \in SUBSET Nat
      BY DEF TypeInv, TypeOK
    <3>2. UNCHANGED emptied \/ \E S \in SUBSET Nat : emptied' = [emptied EXCEPT ![id] = S]
      BY <1>6, <3>1 DEF AddChannel, DelChannel
    <3>. QED BY <3>2, Zenon DEF TypeInv, TypeOK
  <2>. QED BY <2>1, <2>2, <2>3 DEF TypeInv, TypeOK, OwnInv, Inside
<1>7. ASSUME Switch PROVE TypeInv'
  <2>1. status' \in BOOLEAN
    BY <1>7, Zenon DEF Switch
  <2>. QED BY <1>7, <2>1 DEF Switch, TypeInv, TypeOK, OwnInv, Inside
<1>8. ASSUME NEW t \in Threads, ThreadStep(t) PROVE TypeInv'
  <2> DEFINE Places == /\ pc' \in [Threads -> PCs] /\ OwnInv'
                       /\ mutex' \in {u \in Threads : pc'[u] \in InKiiras} \cup {Nobody}
  <2>1. pc[t] # "unborn"
    BY <1>8 DEF ThreadStep, Lekerdezes, Leave, Poll, Ask, Wake, Kiiras, titleUrl, authorUrl,
                ReadChannels, SendTo, Sent
  <2>2. UNCHANGED <<feedVars, channels, m_running, owner, restarting, emptied>>
    BY <1>8 DEF ThreadStep, Lekerdezes, Leave, Poll, Ask, Wake, GoOn, Kiiras, titleUrl, authorUrl,
                ReadChannels, SendTo, Sent
  <2>3. mutex = t \/ ~Inside(t)
    BY DEF TypeInv, OwnInv
  <2>4. Places
    <3>1. CASE Lekerdezes(t)
      BY <2>1, <2>2, <3>1, PlaceType DEF Lekerdezes, Inside, InKiiras, PCs
    <3>2. CASE Leave(t) \/ Poll(t) \/ Ask(t) \/ Wake(t)
      BY <2>1, <2>2, <3>2, PlaceType DEF Leave, Poll, Ask, Wake, GoOn, Inside, InKiiras, PCs
    <3>3. CASE Kiiras(t)
      BY <2>1, <2>2, <3>3, PlaceType DEF Kiiras, Inside, InKiiras, PCs
    <3>4. CASE titleUrl(t)
      BY <2>1, <2>2, <2>3, <3>4, PlaceType DEF titleUrl, GiveUp, Return, Inside, InKiiras, PCs
    <3>5. CASE authorUrl(t)
      BY <2>1, <2>2, <2>3, <3>5, PlaceType DEF authorUrl, GiveUp, Return, Inside, InKiiras, PCs
    <3>6. CASE ReadChannels(t)
      BY <2>1, <2>2, <2>3, <3>6, PlaceType DEF ReadChannels, GiveUp, Return, Inside, InKiiras, PCs
    <3>7. CASE \E c \in Channels : SendTo(t, c)
      BY <3>7 DEF SendTo, TypeInv, TypeOK, OwnInv, Inside
    <3>8. CASE Sent(t)
      BY <2>1, <2>2, <2>3, <3>8, PlaceType DEF Sent, Return, Inside, InKiiras, PCs
    <3>. QED BY <1>8, <3>1, <3>2, <3>3, <3>4, <3>5, <3>6, <3>7, <3>8 DEF ThreadStep
  <2> HIDE DEF Places
  <2>. QED BY <1>8, <2>1, <2>2, <2>4, LocalType DEF TypeInv, TypeOK, Places
<1>9. CASE UNCHANGED vars
  BY <1>9 DEF vars, TypeInv, TypeOK, OwnInv, Inside
<1>. QED BY <1>1, <1>2, <1>3, <1>4, <1>5, <1>6, <1>7, <1>8, <1>9 DEF Next

-----------------------------------------------------------------------------
(* The revisions                                                           *)

Revisions == <<a_rev, announced, skipped, emptied>>

\* Nothing is fetched, announced or skipped; a thread inside Kiiras stays where it
\* is, and an empty row stays empty.
Quiet ==
  /\ UNCHANGED Revisions
  /\ \A id \in Ids : head[id] <= head'[id]
  /\ \A id \in Ids : channels[id] = {} => channels'[id] = {}
  /\ \A t \in Threads : Inside(t)' =>
       UNCHANGED <<pc[t], owner[t], rev[t], title[t], author[t], reschannel[t]>>

LEMMA QuietKeeps ==
  ASSUME TypeInv, TypeInv', AllInv, Quiet
  PROVE  AllInv'
<1> USE DEF Quiet, Revisions
<1>1. KnownInv'
  BY DEF AllInv, RevInv, KnownInv, TypeInv, TypeOK
<1>2. NewsInv'
  BY DEF AllInv, RevInv, NewsInv, Inside
<1>3. NoRepeat' /\ SkippedStaysSkipped' /\ TitleFits' /\ EmptiedRowIsMute'
  BY DEF AllInv, RevInv, FitInv, EmptyInv, NoRepeat, SkippedStaysSkipped, TitleFits, EmptiedRowIsMute
<1>4. TitleInv'
  BY DEF AllInv, FitInv, TitleInv, TypeInv, TypeOK, OwnInv, Inside, InKiiras
<1>5. MuteInv'
  BY DEF AllInv, EmptyInv, MuteInv, Inside, InKiiras
<1>. QED BY <1>1, <1>2, <1>3, <1>4, <1>5 DEF AllInv, RevInv, FitInv, EmptyInv

LEMMA QuietSteps ==
  ASSUME TypeInv, [Next]_vars,
         ~\E t \in Threads : \/ Lekerdezes(t) \/ Kiiras(t) \/ titleUrl(t) \/ authorUrl(t)
                             \/ ReadChannels(t) \/ (\E c \in Channels : SendTo(t, c)) \/ Sent(t),
         ~\E id \in Ids, c \in Channels : DelChannel(id, c)
  PROVE  Quiet
<1> USE DEF feedVars, localVars, histVars, Revisions, Quiet
<1>1. \A id \in Ids : head[id] \in Nat
  BY DEF TypeInv, TypeOK
<1>2. ASSUME NEW id \in Ids, Commit(id) PROVE Quiet
  BY <1>1, <1>2 DEF Commit, TypeInv, TypeOK, Inside
<1>3. ASSUME NEW S \in SUBSET Ids, Start(S), UNCHANGED <<feedVars, channels, a_rev, localVars, histVars>>
      PROVE  Quiet
  BY <1>1, <1>3, StartStarts DEF Started, Inside, InKiiras
<1>4. ASSUME NEW id \in Ids, NewThread(id) \/ StopThread(id) PROVE Quiet
  BY <1>3, <1>4 DEF NewThread, StopThread
<1>5. ASSUME ReloadEnd PROVE Quiet
  BY <1>3, <1>5 DEF ReloadEnd, TypeInv, TypeOK
<1>6. ASSUME NEW S, ReloadBegin(S) PROVE Quiet
  BY <1>1, <1>6 DEF ReloadBegin
<1>7. ASSUME NEW id \in Ids, NEW c \in Channels, AddChannel(id, c) PROVE Quiet
  BY <1>1, <1>7 DEF AddChannel, TypeInv, TypeOK
<1>8. ASSUME Switch PROVE Quiet
  BY <1>1, <1>8 DEF Switch
<1>9. ASSUME NEW t \in Threads, Leave(t) \/ Poll(t) \/ Ask(t) \/ Wake(t) PROVE Quiet
  BY <1>1, <1>9 DEF Leave, Poll, Ask, Wake, GoOn, TypeInv, TypeOK, Inside, InKiiras
<1>10. CASE UNCHANGED vars
  BY <1>1, <1>10 DEF vars
<1>. HIDE DEF Quiet
<1>. QED
  BY <1>2, <1>4, <1>5, <1>6, <1>7, <1>8, <1>9, <1>10 DEF Next, ThreadStep

LEMMA Alone ==
  ASSUME TypeInv, NEW t \in Threads, mutex = Nobody \/ Inside(t)
  PROVE  \A u \in Threads \ {t} : ~Inside(u)
BY PollerAssumption DEF TypeInv, OwnInv

\* The numbers of the revisions of an id.
LEMMA Numbers ==
  ASSUME TypeInv, NEW j \in Ids
  PROVE  /\ announced[j] \in Seq(Message)
         /\ Len(announced[j]) \in Nat /\ DOMAIN announced[j] = 1 .. Len(announced[j])
         /\ \A i \in DOMAIN announced[j] : announced[j][i].rev \in Nat
         /\ \A r \in skipped[j] : r \in Nat
         /\ \A r \in emptied[j] : r \in Nat
         /\ a_rev[j] \in Nat /\ head[j] \in Nat
<1>1. announced[j] \in Seq(Message)
  BY DEF TypeInv, TypeOK
<1>2. Len(announced[j]) \in Nat /\ DOMAIN announced[j] = 1 .. Len(announced[j])
  BY <1>1, LenProperties
<1>3. \A i \in DOMAIN announced[j] : announced[j][i] \in Message
  BY <1>1, <1>2, ElementOfSeq
<1>4. skipped[j] \in SUBSET Nat /\ emptied[j] \in SUBSET Nat /\ a_rev[j] \in Nat /\ head[j] \in Nat
  BY DEF TypeInv, TypeOK
<1>. QED BY <1>1, <1>2, <1>3, <1>4 DEF Message

\* The first request of a thread takes the newest revision for known.
LEMMA LekerdezesKeeps ==
  ASSUME TypeInv, TypeInv', AllInv, NEW t \in Threads, Lekerdezes(t)
  PROVE  AllInv'
<1> DEFINE id == owner[t]
<1>1. id \in Ids /\ head[id] \in Nat /\ a_rev[id] \in Nat
  BY DEF TypeInv, TypeOK, OwnInv, Lekerdezes
<1>2. /\ UNCHANGED <<feedVars, channels, owner, localVars, announced, emptied>>
      /\ pc' = [pc EXCEPT ![t] = "polling"]
  BY DEF Lekerdezes
<1>3. \A u \in Threads : ~Inside(u) /\ ~Inside(u)'
  BY <1>2, Alone DEF Lekerdezes, TypeInv, TypeOK, Inside, InKiiras
<1>4. CASE UNCHANGED <<a_rev, skipped>>
  <2>1. Quiet
    BY <1>1, <1>2, <1>3, <1>4 DEF Quiet, Revisions, feedVars, TypeInv, TypeOK
  <2>. QED BY <2>1, QuietKeeps
<1>5. CASE /\ a_rev' = [a_rev EXCEPT ![id] = head[id]]
           /\ skipped' = [skipped EXCEPT ![id] =
                IF a_rev[id] = head[id] THEN @ ELSE @ \cup {head[id]}]
  <2>1. a_rev'[id] = head[id] /\ \A j \in Ids \ {id} : a_rev'[j] = a_rev[j]
    BY <1>1, <1>5 DEF TypeInv, TypeOK
  <2>2. /\ \A j \in Ids \ {id} : skipped'[j] = skipped[j]
        /\ skipped'[id] = IF a_rev[id] = head[id] THEN skipped[id] ELSE skipped[id] \cup {head[id]}
    BY <1>1, <1>5 DEF TypeInv, TypeOK
  <2>3. \A j \in Ids : /\ \A i \in DOMAIN announced[j] : announced[j][i].rev \in Nat
                       /\ \A r \in skipped[j] : r \in Nat
                       /\ \A r \in emptied[j] : r \in Nat
                       /\ a_rev[j] \in Nat
    BY Numbers
  <2>0. KnownInv /\ SkippedStaysSkipped /\ MuteInv
    BY DEF AllInv, RevInv, EmptyInv
  <2>4. KnownInv'
    BY <1>1, <1>2, <2>0, <2>1, <2>2, <2>3 DEF KnownInv, feedVars
  <2>5. SkippedStaysSkipped'
    BY <1>1, <1>2, <2>0, <2>1, <2>2, <2>3 DEF KnownInv, SkippedStaysSkipped
  <2>6. NoRepeat' /\ TitleFits' /\ EmptiedRowIsMute'
    BY <1>2 DEF AllInv, RevInv, FitInv, EmptyInv, NoRepeat, TitleFits, EmptiedRowIsMute
  <2>7. NewsInv' /\ TitleInv'
    BY <1>3 DEF NewsInv, TitleInv, Inside, InKiiras
  <2>8. MuteInv'
    <3>1. \A j \in Ids : a_rev[j] <= a_rev'[j]
      BY <1>1, <2>0, <2>1, <2>3 DEF KnownInv
    <3>2. \A j \in Ids : a_rev'[j] \in Nat
      BY <1>1, <2>1, <2>3
    <3>. QED BY <1>2, <1>3, <2>0, <2>3, <3>1, <3>2 DEF MuteInv, Inside, InKiiras
  <2>. QED BY <2>4, <2>5, <2>6, <2>7, <2>8 DEF AllInv, RevInv, FitInv, EmptyInv
<1>. QED BY <1>4, <1>5 DEF Lekerdezes

\* Kiiras takes a revision that is new.
LEMMA KiirasKeeps ==
  ASSUME TypeInv, TypeInv', AllInv, NEW t \in Threads, Kiiras(t)
  PROVE  AllInv'
<1> DEFINE id == owner[t]
<1>1. id \in Ids /\ head[id] \in Nat /\ a_rev[id] \in Nat
  BY DEF TypeInv, TypeOK, OwnInv, Kiiras
<1>2. UNCHANGED <<feedVars, channels, owner, author, reschannel, announced, skipped, emptied>>
  BY DEF Kiiras, histVars
<1>3. \A u \in Threads \ {t} : ~Inside(u)
  BY Alone DEF Kiiras
<1>4. CASE pc' = [pc EXCEPT ![t] = "waiting"] /\ UNCHANGED <<a_rev, rev, title>>
  <2>1. Quiet
    BY <1>1, <1>2, <1>4 DEF Quiet, Revisions, feedVars, TypeInv, TypeOK, Inside, InKiiras
  <2>. QED BY <2>1, QuietKeeps
<1>5. CASE /\ head[id] # a_rev[id]
           /\ a_rev' = [a_rev EXCEPT ![id] = head[id]]
           /\ rev' = [rev EXCEPT ![t] = head[id]]
           /\ title' = [title EXCEPT ![t] = IF OneFetch THEN head[id] ELSE @]
           /\ pc' = [pc EXCEPT ![t] = IF OneFetch THEN "author" ELSE "title"]
  <2>1. a_rev'[id] = head[id] /\ \A j \in Ids \ {id} : a_rev'[j] = a_rev[j]
    BY <1>1, <1>5 DEF TypeInv, TypeOK
  <2>2. /\ rev'[t] = head[id] /\ (OneFetch => title'[t] = head[id])
        /\ pc'[t] = IF OneFetch THEN "author" ELSE "title"
    BY <1>5 DEF TypeInv, TypeOK
  <2>3. \A u \in Threads \ {t} : ~Inside(u)'
    BY <1>3, <1>5 DEF TypeInv, TypeOK, Inside
  <2>4. \A j \in Ids : /\ \A i \in DOMAIN announced[j] : announced[j][i].rev \in Nat
                       /\ \A r \in skipped[j] : r \in Nat
                       /\ \A r \in emptied[j] : r \in Nat
                       /\ a_rev[j] \in Nat
    BY Numbers
  <2>0. KnownInv /\ MuteInv
    BY DEF AllInv, RevInv, EmptyInv
  <2>5. a_rev[id] < head[id]
    BY <1>1, <1>5, <2>0 DEF KnownInv
  <2>6. KnownInv'
    BY <1>1, <1>2, <2>0, <2>1, <2>4, <2>5 DEF KnownInv, feedVars
  <2>7. NewsInv'
    <3>1. rev'[t] = a_rev'[id] /\ \A r \in skipped[id] : r < rev'[t]
      BY <1>1, <2>0, <2>1, <2>2, <2>4, <2>5 DEF KnownInv
    <3>2. \A i \in DOMAIN announced[id] : announced[id][i].rev # rev'[t]
      BY <1>1, <2>0, <2>1, <2>2, <2>4, <2>5 DEF KnownInv
    <3>. QED BY <1>2, <2>3, <3>1, <3>2 DEF NewsInv
  <2>8. TitleInv'
    BY <1>1, <1>2, <2>2, <2>3 DEF TitleInv, Inside, InKiiras, feedVars
  <2>9. NoRepeat' /\ SkippedStaysSkipped' /\ TitleFits' /\ EmptiedRowIsMute'
    BY <1>2 DEF AllInv, RevInv, FitInv, EmptyInv, NoRepeat, SkippedStaysSkipped, TitleFits, EmptiedRowIsMute
  <2>10. MuteInv'
    <3>1. \A j \in Ids : a_rev[j] <= a_rev'[j] /\ a_rev'[j] \in Nat
      BY <1>1, <2>1, <2>4, <2>5
    <3>2. \A u \in Threads : pc'[u] # "sending"
      BY <2>2, <2>3 DEF Inside, InKiiras
    <3>. QED BY <1>2, <2>0, <2>4, <3>1, <3>2 DEF MuteInv
  <2>. QED BY <2>6, <2>7, <2>8, <2>9, <2>10 DEF AllInv, RevInv, FitInv, EmptyInv
<1>. QED BY <1>4, <1>5 DEF Kiiras

\* A return from Kiiras; an early one loses the revision.
LEMMA ReturnKeeps ==
  ASSUME TypeInv, TypeInv', AllInv, NEW t \in Threads, Inside(t), Return(t),
         (GiveUp(t) /\ pc[t] # "sending") \/ UNCHANGED skipped,
         UNCHANGED <<feedVars, channels, a_rev, owner, announced, emptied>>
  PROVE  AllInv'
<1> DEFINE id == owner[t]
<1>1. id \in Ids /\ rev[t] \in Nat /\ a_rev[id] \in Nat
  BY DEF TypeInv, TypeOK, OwnInv, Inside, InKiiras
<1>3. \A u \in Threads : ~Inside(u)'
  BY Alone DEF Return, TypeInv, TypeOK, Inside, InKiiras
<1>8. NewsInv' /\ TitleInv'
  BY <1>3 DEF NewsInv, TitleInv, Inside, InKiiras
<1>9. NoRepeat' /\ TitleFits' /\ EmptiedRowIsMute'
  BY DEF AllInv, RevInv, FitInv, EmptyInv, NoRepeat, TitleFits, EmptiedRowIsMute
<1>10. MuteInv'
  BY <1>3 DEF AllInv, EmptyInv, MuteInv, Inside, InKiiras
<1>4. KnownInv' /\ SkippedStaysSkipped'
  <2>1. CASE UNCHANGED skipped
    BY <2>1 DEF AllInv, RevInv, KnownInv, SkippedStaysSkipped, feedVars
  <2>2. CASE GiveUp(t) /\ pc[t] # "sending"
    <3>1. /\ rev[t] = a_rev[id]
          /\ \A i \in DOMAIN announced[id] : announced[id][i].rev # rev[t]
      BY <2>2 DEF AllInv, RevInv, NewsInv
    <3>2. skipped'[id] = skipped[id] \cup {rev[t]} /\ \A j \in Ids \ {id} : skipped'[j] = skipped[j]
      BY <1>1, <2>2 DEF GiveUp, TypeInv, TypeOK
    <3>3. KnownInv'
      BY <1>1, <3>1, <3>2 DEF AllInv, RevInv, KnownInv, feedVars
    <3>4. SkippedStaysSkipped'
      BY <1>1, <3>1, <3>2 DEF AllInv, RevInv, SkippedStaysSkipped
    <3>. QED BY <3>3, <3>4
  <2>. QED BY <2>1, <2>2
<1>. QED BY <1>4, <1>8, <1>9, <1>10 DEF AllInv, RevInv, FitInv, EmptyInv

\* A thread inside Kiiras gets on with what it has fetched: title, author or list.
LEMMA FetchKeeps ==
  ASSUME TypeInv, TypeInv', AllInv, NEW t \in Threads, Inside(t), pc[t] # "sending",
         NEW q \in InKiiras, pc' = [pc EXCEPT ![t] = q],
         UNCHANGED <<feedVars, channels, a_rev, owner, rev, announced, skipped, emptied>>,
         \A u \in Threads \ {t} : UNCHANGED <<title[u], author[u], reschannel[u]>>,
         TitleInv', q = "sending" => channels[owner[t]] # {}
  PROVE  AllInv'
<1> DEFINE id == owner[t]
<1>1. \A u \in Threads \ {t} : ~Inside(u) /\ ~Inside(u)'
  BY Alone DEF TypeInv, TypeOK, Inside
<1>2. KnownInv' /\ NoRepeat' /\ SkippedStaysSkipped' /\ TitleFits' /\ EmptiedRowIsMute'
  BY DEF AllInv, RevInv, FitInv, EmptyInv, KnownInv, NoRepeat, SkippedStaysSkipped, TitleFits,
         EmptiedRowIsMute, feedVars
<1>3. NewsInv'
  <2>1. /\ rev[t] = a_rev[id] /\ \A r \in skipped[id] : r < rev[t]
        /\ \A i \in DOMAIN announced[id] : announced[id][i].rev # rev[t]
    BY DEF AllInv, RevInv, NewsInv
  <2>. QED BY <1>1, <2>1 DEF NewsInv
<1>4. MuteInv'
  <2>1. \A j \in Ids : \A r \in emptied[j] : channels[j] = {} /\ r <= a_rev[j]
    BY DEF AllInv, EmptyInv, MuteInv
  <2>2. ASSUME NEW j \in Ids, NEW r \in emptied[j], NEW u \in Threads, owner[u] = j, pc'[u] = "sending"
        PROVE  rev[u] <= r
    <3>1. u = t
      BY <1>1, <2>2 DEF Inside, InKiiras
    <3>2. pc'[t] = q
      BY DEF TypeInv, TypeOK
    <3>. QED BY <2>1, <2>2, <3>1, <3>2
  <2>. QED BY <2>1, <2>2 DEF MuteInv
<1>. QED BY <1>2, <1>3, <1>4 DEF AllInv, RevInv, FitInv, EmptyInv

LEMMA titleUrlKeeps ==
  ASSUME TypeInv, TypeInv', AllInv, NEW t \in Threads, titleUrl(t)
  PROVE  AllInv'
<1> DEFINE id == owner[t]
<1>0. Inside(t) /\ pc[t] = "title"
  BY DEF titleUrl, Inside, InKiiras
<1>1. CASE GiveUp(t)
  BY <1>0, <1>1, ReturnKeeps DEF titleUrl, GiveUp
<1>2. CASE /\ title' = [title EXCEPT ![t] = head[id]]
           /\ pc' = [pc EXCEPT ![t] = "author"]
           /\ UNCHANGED <<rev, author, reschannel, skipped>>
  <2>1. UNCHANGED <<feedVars, channels, a_rev, owner, announced, emptied>>
    BY <1>2 DEF titleUrl
  <2>2. \A u \in Threads \ {t} : ~Inside(u) /\ ~Inside(u)'
    BY <1>0, <1>2, <2>1, Alone DEF TypeInv, TypeOK, Inside
  <2>3. title'[t] = head[id] /\ id \in Ids /\ pc'[t] = "author"
    BY <1>0, <1>2, <2>1 DEF TypeInv, TypeOK, OwnInv
  <2>4. rev[t] = a_rev[id] /\ a_rev[id] <= head[id] /\ head[id] \in Nat /\ ~OneFetch
    BY <1>0, <2>3 DEF AllInv, RevInv, FitInv, NewsInv, KnownInv, TitleInv, TypeInv, TypeOK
  <2>5. TitleInv'
    BY <1>2, <2>1, <2>2, <2>3, <2>4 DEF TitleInv, Inside, InKiiras, feedVars
  <2>6. \A u \in Threads \ {t} : UNCHANGED <<title[u], author[u], reschannel[u]>>
    BY <1>2 DEF TypeInv, TypeOK
  <2>. QED BY <1>0, <1>2, <2>1, <2>5, <2>6, FetchKeeps DEF InKiiras
<1>. QED BY <1>1, <1>2 DEF titleUrl

LEMMA authorUrlKeeps ==
  ASSUME TypeInv, TypeInv', AllInv, NEW t \in Threads, authorUrl(t)
  PROVE  AllInv'
<1> DEFINE id == owner[t]
<1>0. Inside(t) /\ pc[t] = "author"
  BY DEF authorUrl, Inside, InKiiras
<1>1. CASE GiveUp(t)
  BY <1>0, <1>1, ReturnKeeps DEF authorUrl, GiveUp
<1>2. CASE /\ author' = [author EXCEPT ![t] = head[id]]
           /\ pc' = [pc EXCEPT ![t] = "reading"]
           /\ UNCHANGED <<rev, title, reschannel, skipped>>
  <2>1. UNCHANGED <<feedVars, channels, a_rev, owner, announced, emptied>>
    BY <1>2 DEF authorUrl
  <2>2. \A u \in Threads \ {t} : ~Inside(u) /\ ~Inside(u)'
    BY <1>0, <1>2, <2>1, Alone DEF TypeInv, TypeOK, Inside
  <2>3. author'[t] = head[id] /\ id \in Ids /\ pc'[t] = "reading"
    BY <1>0, <1>2, <2>1 DEF TypeInv, TypeOK, OwnInv
  <2>4. (OneFetch => title[t] = rev[t]) /\ rev[t] <= title[t] /\ title[t] <= head[id]
    BY <1>0 DEF AllInv, FitInv, TitleInv
  <2>5. TitleInv'
    BY <1>2, <2>1, <2>2, <2>3, <2>4 DEF TitleInv, Inside, InKiiras, feedVars
  <2>6. \A u \in Threads \ {t} : UNCHANGED <<title[u], author[u], reschannel[u]>>
    BY <1>2 DEF TypeInv, TypeOK
  <2>. QED BY <1>0, <1>2, <2>1, <2>5, <2>6, FetchKeeps DEF InKiiras
<1>. QED BY <1>1, <1>2 DEF authorUrl

LEMMA ReadChannelsKeeps ==
  ASSUME TypeInv, TypeInv', AllInv, NEW t \in Threads, ReadChannels(t)
  PROVE  AllInv'
<1> DEFINE id == owner[t]
<1>0. Inside(t) /\ pc[t] = "reading"
  BY DEF ReadChannels, Inside, InKiiras
<1>1. CASE GiveUp(t)
  BY <1>0, <1>1, ReturnKeeps DEF ReadChannels, GiveUp
<1>2. CASE /\ channels[id] # {}
           /\ reschannel' = [reschannel EXCEPT ![t] = channels[id]]
           /\ pc' = [pc EXCEPT ![t] = "sending"]
           /\ UNCHANGED <<rev, title, author, skipped>>
  <2>1. UNCHANGED <<feedVars, channels, a_rev, owner, announced, emptied>>
    BY <1>2 DEF ReadChannels
  <2>2. \A u \in Threads \ {t} : ~Inside(u) /\ ~Inside(u)'
    BY <1>0, <1>2, <2>1, Alone DEF TypeInv, TypeOK, Inside
  <2>3. pc'[t] = "sending"
    BY <1>2 DEF TypeInv, TypeOK
  <2>4. /\ (OneFetch => title[t] = rev[t]) /\ rev[t] <= title[t] /\ title[t] <= head[id]
        /\ title[t] <= author[t]
    BY <1>0 DEF AllInv, FitInv, TitleInv
  <2>5. TitleInv'
    BY <1>2, <2>1, <2>2, <2>3, <2>4 DEF TitleInv, Inside, InKiiras, feedVars
  <2>6. \A u \in Threads \ {t} : UNCHANGED <<title[u], author[u], reschannel[u]>>
    BY <1>2 DEF TypeInv, TypeOK
  <2>. QED BY <1>0, <1>2, <2>1, <2>5, <2>6, FetchKeeps DEF InKiiras
<1>. QED BY <1>1, <1>2 DEF ReadChannels

\* A message, to a channel that has not heard of its revision.
LEMMA SendToKeeps ==
  ASSUME TypeInv, TypeInv', AllInv, NEW t \in Threads, NEW c \in Channels, SendTo(t, c)
  PROVE  AllInv'
<1> DEFINE id == owner[t]
           x  == [rev |-> rev[t], title |-> title[t], author |-> author[t], channel |-> c]
<1>1. /\ pc[t] = "sending" /\ c \in reschannel[t]
      /\ announced' = [announced EXCEPT ![id] = Append(@, x)]
      /\ reschannel' = [reschannel EXCEPT ![t] = @ \ {c}]
      /\ UNCHANGED <<feedVars, channels, a_rev, pc, owner, rev, title, author, skipped, emptied>>
  BY DEF SendTo
<1>2. Inside(t)
  BY <1>1 DEF Inside, InKiiras
<1>3. \A u \in Threads \ {t} : ~Inside(u) /\ ~Inside(u)'
  BY <1>1, <1>2, Alone DEF Inside
<1>4. id \in Ids /\ rev[t] \in Nat /\ title[t] \in Nat /\ author[t] \in Nat
  BY <1>1 DEF TypeInv, TypeOK, OwnInv
<1>5. /\ rev[t] = a_rev[id]
      /\ \A r \in skipped[id] : r < rev[t]
      /\ \A i \in DOMAIN announced[id] : announced[id][i].rev = rev[t] =>
           announced[id][i].channel \notin reschannel[t]
  BY <1>2 DEF AllInv, RevInv, NewsInv
<1>6. /\ OneFetch => title[t] = rev[t]
      /\ rev[t] <= title[t] /\ title[t] <= author[t]
  BY <1>1 DEF AllInv, FitInv, TitleInv
<1>7. \A r \in emptied[id] : rev[t] <= r
  BY <1>1, <1>4 DEF AllInv, EmptyInv, MuteInv
<1>8. /\ announced'[id] = Append(announced[id], x)
      /\ \A j \in Ids \ {id} : announced'[j] = announced[j]
  BY <1>1, <1>4 DEF TypeInv, TypeOK
<1> DEFINE n == Len(announced[id])
<1>9. /\ n \in Nat /\ DOMAIN announced[id] = 1 .. n /\ DOMAIN announced'[id] = 1 .. n + 1
      /\ \A i \in 1 .. n : announced'[id][i] = announced[id][i]
      /\ announced'[id][n + 1] = x
  BY <1>4, <1>8, LenProperties, AppendProperties DEF TypeInv, TypeOK
<1>10. \A j \in Ids : /\ \A i \in DOMAIN announced[j] : announced[j][i].rev \in Nat
                      /\ \A r \in skipped[j] : r \in Nat
                      /\ a_rev[j] \in Nat /\ head[j] \in Nat
  BY Numbers
<1>11. x.rev = rev[t] /\ x.title = title[t] /\ x.author = author[t] /\ x.channel = c
  OBVIOUS
<1> HIDE DEF x, n
<1>12. /\ \A i \in 1 .. n + 1 : i = n + 1 \/ i \in 1 .. n
       /\ \A i \in 1 .. n : announced[id][i].rev <= a_rev[id] /\ announced[id][i].rev \in Nat
  BY <1>4, <1>9, <1>10 DEF AllInv, RevInv, KnownInv
<1>13. KnownInv'
  <2>1. ASSUME NEW i \in 1 .. n + 1 PROVE announced'[id][i].rev <= a_rev[id]
    <3>1. CASE i = n + 1
      BY <1>4, <1>5, <1>9, <1>10, <1>11, <3>1
    <3>2. CASE i # n + 1
      <4>1. i \in 1 .. n
        BY <1>12, <3>2
      <4>2. announced'[id][i] = announced[id][i]
        BY <1>9, <4>1
      <4>. QED BY <1>12, <4>1, <4>2
    <3>. QED BY <3>1, <3>2
  <2>2. \A j \in Ids \ {id} : \A i \in DOMAIN announced'[j] : announced'[j][i].rev <= a_rev[j]
    BY <1>8 DEF AllInv, RevInv, KnownInv
  <2>. QED BY <1>1, <1>9, <2>1, <2>2 DEF AllInv, RevInv, KnownInv, feedVars
<1>14. NewsInv'
  <2>1. reschannel'[t] = reschannel[t] \ {c} /\ pc'[t] = "sending"
    BY <1>1 DEF TypeInv, TypeOK
  <2>2. \A i \in 1 .. n + 1 : announced'[id][i].rev = rev[t] =>
          announced'[id][i].channel \notin reschannel'[t]
    BY <1>5, <1>9, <1>11, <1>12, <2>1
  <2>. QED BY <1>1, <1>3, <1>5, <1>9, <2>1, <2>2 DEF NewsInv
<1>15. NoRepeat'
  <2>1. ASSUME NEW i \in 1 .. n + 1, NEW j \in 1 .. n + 1, i < j
        PROVE  /\ announced'[id][i].rev <= announced'[id][j].rev
               /\ announced'[id][i].channel = announced'[id][j].channel =>
                    announced'[id][i].rev # announced'[id][j].rev
    <3>1. i \in 1 .. n
      BY <1>9, <2>1
    <3>2. CASE j = n + 1
      BY <1>1, <1>5, <1>9, <1>11, <1>12, <3>1, <3>2
    <3>3. CASE j # n + 1
      <4>1. j \in 1 .. n
        BY <1>12, <3>3
      <4>2. announced'[id][i] = announced[id][i] /\ announced'[id][j] = announced[id][j]
        BY <1>9, <3>1, <4>1
      <4>3. /\ announced[id][i].rev <= announced[id][j].rev
            /\ announced[id][i].channel = announced[id][j].channel =>
                 announced[id][i].rev # announced[id][j].rev
        BY <1>4, <1>9, <2>1, <3>1, <4>1 DEF AllInv, RevInv, NoRepeat
      <4>. QED BY <4>2, <4>3
    <3>. QED BY <3>2, <3>3
  <2>2. ASSUME NEW k \in Ids, NEW i \in DOMAIN announced'[k], NEW j \in DOMAIN announced'[k], i < j
        PROVE  /\ announced'[k][i].rev <= announced'[k][j].rev
               /\ announced'[k][i].channel = announced'[k][j].channel =>
                    announced'[k][i].rev # announced'[k][j].rev
    <3>1. CASE k = id
      BY <1>9, <2>1, <2>2, <3>1
    <3>2. CASE k # id
      <4>1. announced'[k] = announced[k]
        BY <1>8, <3>2
      <4>. QED BY <2>2, <4>1 DEF AllInv, RevInv, NoRepeat
    <3>. QED BY <3>1, <3>2
  <2>. QED BY <2>2 DEF NoRepeat
<1>16. SkippedStaysSkipped'
  <2>1. ASSUME NEW i \in 1 .. n + 1 PROVE announced'[id][i].rev \notin skipped[id]
    <3>1. CASE i = n + 1
      BY <1>4, <1>5, <1>9, <1>10, <1>11, <3>1
    <3>2. CASE i # n + 1
      BY <1>4, <1>9, <1>12, <3>2 DEF AllInv, RevInv, SkippedStaysSkipped
    <3>. QED BY <3>1, <3>2
  <2>. QED BY <1>1, <1>8, <1>9, <2>1 DEF AllInv, RevInv, SkippedStaysSkipped
<1>17. TitleFits'
  <2>1. ASSUME NEW i \in 1 .. n + 1
        PROVE  /\ OneFetch => announced'[id][i].title = announced'[id][i].rev
               /\ announced'[id][i].rev <= announced'[id][i].title
               /\ announced'[id][i].title <= announced'[id][i].author
    <3>1. CASE i = n + 1
      BY <1>6, <1>9, <1>11, <3>1
    <3>2. CASE i # n + 1
      BY <1>4, <1>9, <1>12, <3>2 DEF AllInv, FitInv, TitleFits
    <3>. QED BY <3>1, <3>2
  <2>. QED BY <1>8, <1>9, <2>1 DEF AllInv, FitInv, TitleFits
<1>18. EmptiedRowIsMute'
  <2>1. ASSUME NEW i \in 1 .. n + 1, NEW r \in emptied[id] PROVE announced'[id][i].rev <= r
    <3>1. CASE i = n + 1
      BY <1>7, <1>9, <1>11, <3>1
    <3>2. CASE i # n + 1
      BY <1>4, <1>9, <1>12, <3>2 DEF AllInv, EmptyInv, EmptiedRowIsMute
    <3>. QED BY <3>1, <3>2
  <2>. QED BY <1>1, <1>8, <1>9, <2>1 DEF AllInv, EmptyInv, EmptiedRowIsMute
<1>19. TitleInv' /\ MuteInv'
  BY <1>1 DEF AllInv, FitInv, EmptyInv, TitleInv, MuteInv, feedVars
<1>. QED BY <1>13, <1>14, <1>15, <1>16, <1>17, <1>18, <1>19 DEF AllInv, RevInv, FitInv, EmptyInv

\* When a row is emptied, what was announced and what is being sent was known.
LEMMA DelChannelKeeps ==
  ASSUME TypeInv, TypeInv', AllInv, NEW id \in Ids, NEW c \in Channels, DelChannel(id, c)
  PROVE  AllInv'
<1>1. /\ channels[id] # {} /\ channels' = [channels EXCEPT ![id] = @ \ {c}]
      /\ emptied' = [emptied EXCEPT ![id] = IF channels[id] = {c} THEN @ \cup {a_rev[id]} ELSE @]
      /\ UNCHANGED <<feedVars, a_rev, mutex, pc, owner, localVars, announced, skipped>>
  BY DEF DelChannel
<1>2. RevInv' /\ FitInv'
  BY <1>1 DEF AllInv, RevInv, FitInv, KnownInv, NewsInv, TitleInv, NoRepeat, SkippedStaysSkipped,
              TitleFits, Inside, feedVars, localVars
<1>3. /\ \A j \in Ids \ {id} : channels'[j] = channels[j] /\ emptied'[j] = emptied[j]
      /\ channels'[id] = channels[id] \ {c}
      /\ \A r \in emptied'[id] : channels'[id] = {} /\ (r = a_rev[id] \/ r \in emptied[id])
  <2>1. emptied'[id] = IF channels[id] = {c} THEN emptied[id] \cup {a_rev[id]} ELSE emptied[id]
    BY <1>1 DEF TypeInv, TypeOK
  <2>2. emptied[id] = {}
    BY <1>1 DEF AllInv, EmptyInv, MuteInv
  <2>. QED BY <1>1, <2>1, <2>2 DEF TypeInv, TypeOK
<1>4. /\ a_rev[id] \in Nat
      /\ \A i \in DOMAIN announced[id] : announced[id][i].rev <= a_rev[id]
      /\ \A t \in Threads : owner[t] = id /\ pc[t] = "sending" => rev[t] = a_rev[id]
  BY DEF TypeInv, TypeOK, AllInv, RevInv, KnownInv, NewsInv, Inside, InKiiras
<1>5. MuteInv'
  <2>1. ASSUME NEW j \in Ids, NEW r \in emptied'[j]
        PROVE  /\ channels'[j] = {} /\ r <= a_rev[j]
               /\ \A t \in Threads : owner[t] = j /\ pc[t] = "sending" => rev[t] <= r
    BY <1>3, <1>4, <2>1 DEF AllInv, EmptyInv, MuteInv
  <2>. QED BY <1>1, <2>1 DEF MuteInv, localVars
<1>6. EmptiedRowIsMute'
  BY <1>1, <1>3, <1>4 DEF AllInv, EmptyInv, EmptiedRowIsMute
<1>. QED BY <1>2, <1>5, <1>6 DEF AllInv, EmptyInv

-----------------------------------------------------------------------------
(* The theorems                                                            *)

LEMMA TypeAlways == Spec => []TypeInv
BY InitType, NextType, PTL DEF Spec

LEMMA InitRevisions == Init => AllInv
<1> SUFFICES ASSUME Init PROVE AllInv
  OBVIOUS
<1>1. \A id \in Ids : /\ DOMAIN announced[id] = {} /\ skipped[id] = {} /\ emptied[id] = {}
                      /\ a_rev[id] = 0 /\ head[id] = 1
  BY DEF Init
<1>2. \A t \in Threads : pc[t] \in {"unborn", "starting"}
  BY DEF Init
<1>. QED
  BY <1>1, <1>2 DEF AllInv, RevInv, FitInv, EmptyInv, KnownInv, NewsInv, NoRepeat, SkippedStaysSkipped,
     TitleInv, TitleFits, MuteInv, EmptiedRowIsMute, Inside, InKiiras

LEMMA NextRevisions == TypeInv /\ TypeInv' /\ AllInv /\ [Next]_vars => AllInv'
<1> SUFFICES ASSUME TypeInv, TypeInv', AllInv, [Next]_vars PROVE AllInv'
  OBVIOUS
<1>1. ASSUME NEW t \in Threads, Sent(t) PROVE AllInv'
  <2>1. Inside(t) /\ Return(t) /\ UNCHANGED <<feedVars, channels, a_rev, owner, announced, skipped, emptied>>
    BY <1>1 DEF Sent, Inside, InKiiras, histVars
  <2>. QED BY <2>1, ReturnKeeps
<1>. QED BY <1>1, QuietSteps, QuietKeeps, LekerdezesKeeps, KiirasKeeps, titleUrlKeeps, authorUrlKeeps,
            ReadChannelsKeeps, SendToKeeps, DelChannelKeeps

LEMMA RevisionsAlways == Spec => []AllInv
BY InitRevisions, NextRevisions, TypeAlways, PTL DEF Spec

\* The variables keep their types, and the mutex of a class is held by a thread
\* that is inside Kiiras, or by nobody.
THEOREM TypeCorrect == Spec => []TypeOK
<1>1. TypeInv => TypeOK
  BY DEF TypeInv
<1>. QED BY <1>1, TypeAlways, PTL

\* No channel hears of a revision twice or after a newer one, however many threads
\* poll a repository and whatever restarts them.
THEOREM AnnouncedOnce == Spec => []NoRepeat
<1>1. AllInv => NoRepeat
  BY DEF AllInv, RevInv
<1>. QED BY <1>1, RevisionsAlways, PTL

\* What was taken for known without an announcement is never announced.
THEOREM LostForGood == Spec => []SkippedStaysSkipped
<1>1. AllInv => SkippedStaysSkipped
  BY DEF AllInv, RevInv
<1>. QED BY <1>1, RevisionsAlways, PTL

\* The title of an announcement belongs to its revision or, where it is fetched
\* apart, to a later one; and so does the author.
THEOREM TitleBelongs == Spec => []TitleFits
<1>1. AllInv => TitleFits
  BY DEF AllInv, FitInv
<1>. QED BY <1>1, RevisionsAlways, PTL

\* Of a row that was emptied nothing is announced but what was known by then: a
\* round that had read the list goes on with it, none that comes later finds one.
THEOREM EmptyRowIsMute == Spec => []EmptiedRowIsMute
<1>1. AllInv => EmptiedRowIsMute
  BY DEF AllInv, EmptyInv
<1>. QED BY <1>1, RevisionsAlways, PTL
=============================================================================
