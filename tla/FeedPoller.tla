----------------------------- MODULE FeedPoller -----------------------------
(***************************************************************************)
(* SvnInfo, GitInfo and HgInfo: one thread per repository (a row of the    *)
(* class's table) asks a web feed for the newest revision and announces a  *)
(* new one on the channels of the row; the commands svn, git and hg start, *)
(* stop and restart the threads and edit the channel lists.                *)
(*                                                                         *)
(* The three classes differ in what one request brings: SvnInfo reads the  *)
(* revision out of the title, the others fetch revision and title apart.   *)
(* All commands are run by the session's thread, one after the other; what *)
(* they wait for, Sleep(2000), the threads do not know of.                 *)
(* Of the list in the column channel only its members are kept: a channel  *)
(* that is added twice is deleted at once.                                 *)
(***************************************************************************)
EXTENDS Integers, Sequences, FiniteSets

CONSTANTS
  Ids,        \* the rows of svninfo, gitinfo or hginfo
  Threads,    \* the threads that may be started (the bound on their number)
  Channels,   \* the channels a row may list
  Rows,       \* what a row may list at the start
  Nobody,     \* nobody holds s_mutex (g_mutex, h_mutex)
  NoId,       \* the id of a thread that was not started
  Commands,   \* the commands given: a subset of {"new", "stop", "reload", "channel"}
  OneFetch,   \* SvnInfo: the title holds the revision
  Failing,    \* a request may fail ("nincs adat")
  MaxRev      \* bound of the model: revisions of a repository

ASSUME PollerAssumption ==
  /\ Nobody \notin Threads
  /\ Rows \subseteq SUBSET Channels
  /\ Commands \subseteq {"new", "stop", "reload", "channel"}
  /\ {OneFetch, Failing} \subseteq BOOLEAN
  /\ MaxRev \in Nat

VARIABLES
  head,       \* the newest revision of each repository
  status,     \* funkcio_status of the class in the table schumix
  channels,   \* the column channel: the channels a row lists
  m_running, a_rev,
  mutex,      \* who holds the mutex of the class
  pc, owner,  \* where each thread is, and its id
  rev, title, author, reschannel, \* the locals of Kiiras; reschannel: those to come
  restarting, \* the ids a reload waits for in Sleep(2000)
  announced,  \* history: the messages sent, for each id
  skipped,    \* history: revisions a_rev took without an announcement
  emptied     \* history: what a_rev was when the last channel of a row was deleted

feedVars == <<head, status>>
localVars == <<rev, title, author, reschannel>>
histVars == <<announced, skipped, emptied>>
vars == <<feedVars, channels, m_running, a_rev, mutex, pc, owner, localVars, restarting, histVars>>

InKiiras == {"title", "author", "reading", "sending"}
PCs == {"unborn", "starting", "polling", "asking", "queued", "waiting", "gone"} \cup InKiiras
Live(id) == {t \in Threads : owner[t] = id /\ pc[t] \notin {"unborn", "gone"}}
Message == [rev : Nat, title : Nat, author : Nat, channel : Channels]

\* Constructor: every row gets a thread.
Init ==
  /\ head = [id \in Ids |-> 1] /\ status = TRUE
  /\ channels \in [Ids -> Rows]
  /\ m_running = [id \in Ids |-> TRUE]
  /\ a_rev = [id \in Ids |-> 0]
  /\ mutex = Nobody
  /\ \E first \in {f \in [Ids -> Threads] : \A i, j \in Ids : f[i] = f[j] => i = j} :
       /\ owner = [t \in Threads |-> IF \E id \in Ids : first[id] = t
                                       THEN CHOOSE id \in Ids : first[id] = t ELSE NoId]
       /\ pc = [t \in Threads |-> IF owner[t] = NoId THEN "unborn" ELSE "starting"]
  /\ rev = [t \in Threads |-> 0] /\ title = [t \in Threads |-> 0]
  /\ author = [t \in Threads |-> 0] /\ reschannel = [t \in Threads |-> {}]
  /\ restarting = {}
  /\ announced = [id \in Ids |-> <<>>] /\ skipped = [id \in Ids |-> {}]
  /\ emptied = [id \in Ids |-> {}]

-----------------------------------------------------------------------------
(* The repositories, and the command funkcio                               *)

Commit(id) ==
  /\ head[id] < MaxRev
  /\ head' = [head EXCEPT ![id] = @ + 1]
  /\ UNCHANGED <<status, channels, m_running, a_rev, mutex, pc, owner, localVars, restarting, histVars>>

Switch ==
  /\ status' = ~status
  /\ UNCHANGED <<head, channels, m_running, a_rev, mutex, pc, owner, localVars, restarting, histVars>>

-----------------------------------------------------------------------------
(* The commands                                                            *)

Start(S) ==
  \E f \in [S -> {t \in Threads : pc[t] = "unborn"}] :
    /\ \A i, j \in S : f[i] = f[j] => i = j
    /\ pc' = [t \in Threads |-> IF \E id \in S : f[id] = t THEN "starting" ELSE pc[t]]
    /\ owner' = [t \in Threads |-> IF \E id \in S : f[id] = t
                                     THEN CHOOSE id \in S : f[id] = t ELSE owner[t]]

SetRunning(S, b) == m_running' = [id \in Ids |-> IF id \in S THEN b ELSE m_running[id]]

NewThread(id) ==
  /\ "new" \in Commands
  /\ restarting = {}
  /\ SetRunning({id}, TRUE)
  /\ Start({id})
  /\ UNCHANGED <<feedVars, channels, a_rev, mutex, localVars, restarting, histVars>>

\* It starts a thread too, one that fetches once and ends.
StopThread(id) ==
  /\ "stop" \in Commands
  /\ restarting = {}
  /\ SetRunning({id}, FALSE)
  /\ Start({id})
  /\ UNCHANGED <<feedVars, channels, a_rev, mutex, localVars, restarting, histVars>>

\* ReloadThread for one id, ReloadAllThread for all of them.
ReloadBegin(S) ==
  /\ "reload" \in Commands
  /\ restarting = {}
  /\ restarting' = S
  /\ SetRunning(S, FALSE)
  /\ UNCHANGED <<feedVars, channels, a_rev, mutex, pc, owner, localVars, histVars>>

ReloadEnd ==
  /\ restarting # {}
  /\ restarting' = {}
  /\ SetRunning(restarting, TRUE)
  /\ Start(restarting)
  /\ UNCHANGED <<feedVars, channels, a_rev, mutex, localVars, histVars>>

\* Faulty: an empty list can be filled (EmptiedRowIsMute).
AddChannelAlways(id, c) ==
  /\ "channel" \in Commands
  /\ restarting = {}
  /\ channels' = [channels EXCEPT ![id] = @ \cup {c}]
  /\ UNCHANGED <<feedVars, m_running, a_rev, mutex, pc, owner, localVars, restarting, histVars>>

\* svn add: a row that lists no channel is left as it is, without a word.
AddChannel(id, c) ==
  /\ "channel" \in Commands
  /\ restarting = {}
  /\ channels[id] # {}
  /\ channels' = [channels EXCEPT ![id] = @ \cup {c}]
  /\ UNCHANGED <<feedVars, m_running, a_rev, mutex, pc, owner, localVars, restarting, histVars>>

\* svn del; a round that has read the list already goes on with it.
DelChannel(id, c) ==
  /\ "channel" \in Commands
  /\ restarting = {}
  /\ channels[id] # {}
  /\ channels' = [channels EXCEPT ![id] = @ \ {c}]
  /\ emptied' = [emptied EXCEPT ![id] = IF channels[id] = {c} THEN @ \cup {a_rev[id]} ELSE @]
  /\ UNCHANGED <<feedVars, m_running, a_rev, mutex, pc, owner, localVars, restarting,
                 announced, skipped>>

-----------------------------------------------------------------------------
(* Thread                                                                  *)

\* Thread t goes on to q, and nothing else happens.
GoOn(t, q) ==
  /\ pc' = [pc EXCEPT ![t] = q]
  /\ UNCHANGED <<feedVars, channels, m_running, a_rev, mutex, owner, localVars, restarting, histVars>>

\* Lekerdezes: the newest revision is taken for known.
Lekerdezes(t) ==
  LET id == owner[t] IN
  /\ pc[t] = "starting" /\ mutex = Nobody
  /\ pc' = [pc EXCEPT ![t] = "polling"]
  /\ \/ /\ a_rev' = [a_rev EXCEPT ![id] = head[id]]
        /\ skipped' = [skipped EXCEPT ![id] =
             IF a_rev[id] = head[id] THEN @ ELSE @ \cup {head[id]}]
     \/ Failing /\ UNCHANGED <<a_rev, skipped>>
  /\ UNCHANGED <<feedVars, channels, m_running, mutex, owner, localVars, restarting,
                 announced, emptied>>

\* Faulty: a thread that has nothing to wait for does not see m_running (StopStops).
LeaveWaiting(t) == pc[t] = "waiting" /\ ~m_running[owner[t]] /\ GoOn(t, "gone")

\* The tests of m_running; while the class is switched off nothing else is done.
Leave(t) == pc[t] \in {"polling", "waiting"} /\ ~m_running[owner[t]] /\ GoOn(t, "gone")

Poll(t) == pc[t] = "polling" /\ m_running[owner[t]] /\ GoOn(t, "asking")

\* A thread that is past both tests makes its round, whatever is said to it.
Ask(t) == pc[t] = "asking" /\ GoOn(t, IF status THEN "queued" ELSE "polling")

\* m_Lido seconds have passed.
Wake(t) == pc[t] = "waiting" /\ m_running[owner[t]] /\ GoOn(t, "polling")

\* Faulty: the revision does not become a_rev (NoRepeat, SkippedStaysSkipped) ...
KiirasForgets(t) ==
  LET id == owner[t] IN
  /\ pc[t] = "queued" /\ mutex = Nobody
  /\ head[id] # a_rev[id]
  /\ mutex' = t
  /\ rev' = [rev EXCEPT ![t] = head[id]]
  /\ title' = [title EXCEPT ![t] = IF OneFetch THEN head[id] ELSE @]
  /\ pc' = [pc EXCEPT ![t] = IF OneFetch THEN "author" ELSE "title"]
  /\ UNCHANGED <<feedVars, channels, m_running, a_rev, owner, author, reschannel, restarting, histVars>>

\* ... and: no title is fetched (TitleFits).
KiirasUntitled(t) ==
  LET id == owner[t] IN
  /\ pc[t] = "queued" /\ mutex = Nobody
  /\ head[id] # a_rev[id]
  /\ mutex' = t
  /\ a_rev' = [a_rev EXCEPT ![id] = head[id]]
  /\ rev' = [rev EXCEPT ![t] = head[id]]
  /\ pc' = [pc EXCEPT ![t] = "author"]
  /\ UNCHANGED <<feedVars, channels, m_running, owner, title, author, reschannel, restarting, histVars>>

\* Kiiras gets the mutex and keeps it to its end.  A revision that is not a_rev
\* becomes a_rev before the rest is fetched.
Kiiras(t) ==
  LET id == owner[t] IN
  /\ pc[t] = "queued" /\ mutex = Nobody
  /\ \/ /\ head[id] # a_rev[id]
        /\ mutex' = t
        /\ a_rev' = [a_rev EXCEPT ![id] = head[id]]
        /\ rev' = [rev EXCEPT ![t] = head[id]]
        /\ title' = [title EXCEPT ![t] = IF OneFetch THEN head[id] ELSE @]
        /\ pc' = [pc EXCEPT ![t] = IF OneFetch THEN "author" ELSE "title"]
     \/ /\ head[id] = a_rev[id] \/ Failing
        /\ pc' = [pc EXCEPT ![t] = "waiting"]
        /\ UNCHANGED <<mutex, a_rev, rev, title>>
  /\ UNCHANGED <<feedVars, channels, m_running, owner, author, reschannel, restarting, histVars>>

\* A return: the locals and the guard of the mutex are gone.
Return(t) ==
  /\ mutex' = Nobody
  /\ pc' = [pc EXCEPT ![t] = "waiting"]
  /\ rev' = [rev EXCEPT ![t] = 0] /\ title' = [title EXCEPT ![t] = 0]
  /\ author' = [author EXCEPT ![t] = 0] /\ reschannel' = [reschannel EXCEPT ![t] = {}]

\* Faulty: the early return keeps the mutex (TypeOK).
GiveUpLocked(t) ==
  /\ pc' = [pc EXCEPT ![t] = "waiting"]
  /\ skipped' = [skipped EXCEPT ![owner[t]] = @ \cup {rev[t]}]
  /\ UNCHANGED <<mutex, localVars>>

\* A return in the middle of Kiiras; the revision is not announced.
GiveUp(t) ==
  /\ Return(t)
  /\ skipped' = [skipped EXCEPT ![owner[t]] = @ \cup {rev[t]}]

titleUrl(t) ==
  /\ pc[t] = "title"
  /\ \/ /\ title' = [title EXCEPT ![t] = head[owner[t]]]
        /\ pc' = [pc EXCEPT ![t] = "author"]
        /\ UNCHANGED <<mutex, rev, author, reschannel, skipped>>
     \/ Failing /\ GiveUp(t)
  /\ UNCHANGED <<feedVars, channels, m_running, a_rev, owner, restarting, announced, emptied>>

authorUrl(t) ==
  /\ pc[t] = "author"
  /\ \/ /\ author' = [author EXCEPT ![t] = head[owner[t]]]
        /\ pc' = [pc EXCEPT ![t] = "reading"]
        /\ UNCHANGED <<mutex, rev, title, reschannel, skipped>>
     \/ Failing /\ GiveUp(t)
  /\ UNCHANGED <<feedVars, channels, m_running, a_rev, owner, restarting, announced, emptied>>

\* The column channel is read once for the round.
ReadChannels(t) ==
  LET id == owner[t] IN
  /\ pc[t] = "reading"
  /\ \/ /\ channels[id] # {}
        /\ reschannel' = [reschannel EXCEPT ![t] = channels[id]]
        /\ pc' = [pc EXCEPT ![t] = "sending"]
        /\ UNCHANGED <<mutex, rev, title, author, skipped>>
     \/ (channels[id] = {} \/ Failing) /\ GiveUp(t)
  /\ UNCHANGED <<feedVars, channels, m_running, a_rev, owner, restarting, announced, emptied>>

\* One channel, and Sleep(1000).  The order is that of the row; here it is any.
SendTo(t, c) ==
  LET id == owner[t]
      m == [rev |-> rev[t], title |-> title[t], author |-> author[t], channel |-> c]
  IN
  /\ pc[t] = "sending" /\ c \in reschannel[t]
  /\ announced' = [announced EXCEPT ![id] = Append(@, m)]
  /\ reschannel' = [reschannel EXCEPT ![t] = @ \ {c}]
  /\ UNCHANGED <<feedVars, channels, m_running, a_rev, mutex, pc, owner, rev, title, author,
                 restarting, skipped, emptied>>

\* Faulty: the mutex is kept (NewsIsAnnounced).
SentLocked(t) == pc[t] = "sending" /\ reschannel[t] = {} /\ GoOn(t, "waiting")

Sent(t) ==
  /\ pc[t] = "sending" /\ reschannel[t] = {}
  /\ Return(t)
  /\ UNCHANGED <<feedVars, channels, m_running, a_rev, owner, restarting, histVars>>

ThreadStep(t) ==
  \/ Lekerdezes(t) \/ Leave(t) \/ Poll(t) \/ Ask(t) \/ Wake(t)
  \/ Kiiras(t) \/ titleUrl(t) \/ authorUrl(t) \/ ReadChannels(t)
  \/ (\E c \in Channels : SendTo(t, c)) \/ Sent(t)

Next ==
  \/ \E id \in Ids :
       \/ Commit(id) \/ NewThread(id) \/ StopThread(id) \/ ReloadBegin({id})
       \/ \E c \in Channels : AddChannel(id, c) \/ DelChannel(id, c)
  \/ ReloadBegin(Ids)
  \/ ReloadEnd
  \/ Switch
  \/ \E t \in Threads : ThreadStep(t)

Spec == Init /\ [][Next]_vars

\* Requests end, and boost::mutex lets everyone in who waits for it.
FairSpec ==
  /\ Spec
  /\ \A t \in Threads : SF_vars(ThreadStep(t))
  /\ WF_vars(ReloadEnd)

-----------------------------------------------------------------------------
(* Properties                                                              *)

\* Types of the variables; the mutex is held by a thread inside Kiiras, or free.
TypeOK ==
  /\ head \in [Ids -> Nat] /\ status \in BOOLEAN
  /\ channels \in [Ids -> SUBSET Channels]
  /\ m_running \in [Ids -> BOOLEAN]
  /\ a_rev \in [Ids -> Nat]
  /\ pc \in [Threads -> PCs]
  /\ mutex \in {t \in Threads : pc[t] \in InKiiras} \cup {Nobody}
  /\ owner \in [Threads -> Ids \cup {NoId}]
  /\ rev \in [Threads -> Nat] /\ title \in [Threads -> Nat] /\ author \in [Threads -> Nat]
  /\ reschannel \in [Threads -> SUBSET Channels]
  /\ restarting \subseteq Ids
  /\ announced \in [Ids -> Seq(Message)]
  /\ skipped \in [Ids -> SUBSET Nat] /\ emptied \in [Ids -> SUBSET Nat]

\* However many threads serve an id by mistake, no channel hears of a revision
\* twice, and none of one that is older than what any channel of the row heard.
NoRepeat ==
  \A id \in Ids : \A i, j \in DOMAIN announced[id] :
    i < j => /\ announced[id][i].rev <= announced[id][j].rev
             /\ announced[id][i].channel = announced[id][j].channel =>
                  announced[id][i].rev # announced[id][j].rev

\* A revision that was taken for known without an announcement is never
\* announced later: a failed request loses it for good.
SkippedStaysSkipped ==
  \A id \in Ids : \A i \in DOMAIN announced[id] : announced[id][i].rev \notin skipped[id]

\* SvnInfo announces a revision under its own title; its author, fetched
\* apart, may be that of a later one, never of an earlier one.
TitleFits ==
  \A id \in Ids : \A i \in DOMAIN announced[id] :
    /\ OneFetch => announced[id][i].title = announced[id][i].rev
    /\ announced[id][i].rev <= announced[id][i].title
    /\ announced[id][i].title <= announced[id][i].author

\* When the last channel of a row is deleted, a round that has read the list may
\* still announce the revision it is at; what is found later never is, for
\* svn add cannot fill an empty list.
EmptiedRowIsMute ==
  \A id \in Ids : \A i \in DOMAIN announced[id] : \A r \in emptied[id] :
    announced[id][i].rev <= r

\* After stop the threads of the id end, however many there are, unless a
\* command starts one.
StopStops == \A id \in Ids : ~m_running[id] ~> Live(id) = {} \/ m_running[id]

\* While requests succeed and nobody edits the rows, every channel of a row hears
\* of every revision that was neither superseded nor skipped, unless the class is
\* off or the id stopped.
NewsIsAnnounced ==
  \A id \in Ids : \A r \in 1 .. MaxRev :
    head[id] = r /\ "channel" \notin Commands ~>
      \/ head[id] # r \/ r \in skipped[id]
      \/ \A c \in channels[id] : \E i \in DOMAIN announced[id] :
           announced[id][i].rev = r /\ announced[id][i].channel = c
      \/ ~status \/ ~m_running[id]
=============================================================================
