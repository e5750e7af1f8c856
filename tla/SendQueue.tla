----------------------------- MODULE SendQueue ------------------------------
(***************************************************************************)
(* The way of a line to the server: IRCSession::WriteLine, called by every *)
(* thread of the bot, Socket::SendLine with its flood limit,               *)
(* Socket::UpdateQueue, called by the session's own thread, and the        *)
(* SocketMgr thread that sends what is in m_outBuf.                        *)
(*                                                                         *)
(* Lines are numbered in the order in which they get the session's mutex.  *)
(* That mutex does not cover UpdateQueue, and m_buffer_mutex covers        *)
(* neither m_sendCount nor m_sendQueue nor SocketMgr's use of m_outBuf: a  *)
(* step of the model is what the locks, or the absence of one, allow.  Of  *)
(* the damage such a data race can do to a buffer the model follows the    *)
(* first: an append, a push_back or an erase without effect.               *)
(***************************************************************************)
EXTENDS Integers, Sequences, FiniteSets

CONSTANTS
  Writers,         \* the threads that call WriteLine
  RunThread,       \* the session's thread, the one that calls UpdateQueue
  Nobody,          \* nobody holds IRCSession::m_mutex
  LinesPerSecond,  \* m_sendPerPeriod
  MaxLines,        \* bound of the model: lines the bot writes in all
  EmptyTexts,      \* WriteLine and SendChatMessage are also called with an empty text
  Breakable        \* the connection may break

ASSUME QueueAssumption ==
  /\ RunThread \in Writers
  /\ Nobody \notin Writers
  /\ LinesPerSecond \in Nat /\ MaxLines \in Nat
  /\ {EmptyTexts, Breakable} \subseteq BOOLEAN

VARIABLES
  holder,       \* the thread that has IRCSession::m_mutex
  pc,           \* where each writer is
  seen,         \* the m_sendCount read by an unfinished m_sendCount++
  m_sendCount, m_sendQueue, m_outBuf,
  newSecond,    \* time(NULL) # m_lastSendTime
  update,       \* where UpdateQueue is
  moved,        \* its c
  erasing,      \* lines sent that SocketMgr has still to erase from m_outBuf
  broken,       \* send() or recv() failed: m_fd = NULL
  wire,         \* the lines sent
  accepted,     \* how many lines got the mutex
  released,     \* lines that entered m_outBuf since UpdateQueue's last round
  overlapped,   \* history: UpdateQueue ran while another thread was in SendLine
  torn          \* history: a data race on m_outBuf or m_sendQueue did damage

sendVars == <<holder, pc, seen, accepted>>
bufVars  == <<m_sendQueue, m_outBuf>>
updVars  == <<update, moved, newSecond>>
mgrVars  == <<erasing, broken, wire>>
vars == <<sendVars, bufVars, m_sendCount, updVars, mgrVars, released, overlapped, torn>>

PCs == {"idle", "wanting", "appending", "counting", "storing", "queueing"}

Cap == IF LinesPerSecond = 0 THEN 1 ELSE LinesPerSecond
InSendLine == \E w \in Writers : pc[w] \in {"appending", "counting", "storing", "queueing"}
Appending  == \E w \in Writers : pc[w] = "appending"
Queueing   == \E w \in Writers : pc[w] = "queueing"
Waiting    == {w \in Writers : pc[w] = "wanting"}

Init ==
  /\ holder = Nobody /\ pc = [w \in Writers |-> "idle"] /\ seen = 0 /\ accepted = 0
  /\ m_sendQueue = <<>> /\ m_outBuf = <<>> /\ m_sendCount = 0
  /\ update = "idle" /\ moved = 0 /\ newSecond = FALSE
  /\ erasing = 0 /\ broken = FALSE /\ wire = <<>>
  /\ released = 0
  /\ overlapped = FALSE /\ torn = FALSE

-----------------------------------------------------------------------------
(* IRCSession::WriteLine and Socket::SendLine                              *)

WriteLine(w) ==
  /\ pc[w] = "idle"
  /\ w = RunThread => update = "idle"
  /\ accepted + Cardinality(Waiting) < MaxLines
  /\ pc' = [pc EXCEPT ![w] = "wanting"]
  /\ UNCHANGED <<holder, seen, accepted, bufVars, m_sendCount, updVars, mgrVars,
                 released, overlapped, torn>>

\* Faulty: one line too many passes (PeriodLimit).
SendLineOffByOne(w) ==
  /\ pc[w] = "wanting" /\ holder = Nobody
  /\ holder' = w
  /\ accepted' = accepted + 1
  /\ pc' = [pc EXCEPT ![w] = IF m_sendCount > LinesPerSecond THEN "queueing" ELSE "appending"]
  /\ IF update # "idle" THEN overlapped' = TRUE ELSE UNCHANGED overlapped
  /\ UNCHANGED <<seen, bufVars, m_sendCount, updVars, mgrVars, released, torn>>

\* The mutex is acquired and m_sendCount tested.
SendLine(w) ==
  /\ pc[w] = "wanting" /\ holder = Nobody
  /\ holder' = w
  /\ accepted' = accepted + 1
  /\ pc' = [pc EXCEPT ![w] = IF m_sendCount >= LinesPerSecond THEN "queueing" ELSE "appending"]
  /\ IF update # "idle" THEN overlapped' = TRUE ELSE UNCHANGED overlapped
  /\ UNCHANGED <<seen, bufVars, m_sendCount, updVars, mgrVars, released, torn>>

\* An empty text: the early return keeps the mutex.
ReturnLocked(w) ==
  /\ EmptyTexts
  /\ pc[w] = "wanting" /\ holder = Nobody
  /\ holder' = w
  /\ pc' = [pc EXCEPT ![w] = "idle"]
  /\ UNCHANGED <<seen, accepted, bufVars, m_sendCount, updVars, mgrVars, released,
                 overlapped, torn>>

\* The append; between SocketMgr's send and its erase it may be lost.
AppendLine(w) ==
  /\ pc[w] = "appending"
  /\ update # "moving"
  /\ pc' = [pc EXCEPT ![w] = "counting"]
  /\ released' = released + 1
  /\ \/ /\ m_outBuf' = Append(m_outBuf, accepted)
        /\ UNCHANGED torn
     \/ /\ erasing > 0 /\ ~torn
        /\ torn' = TRUE
        /\ UNCHANGED m_outBuf
  /\ UNCHANGED <<holder, seen, accepted, m_sendQueue, m_sendCount, updVars, mgrVars, overlapped>>

\* m_sendCount++ is a read and a write; then the mutex is released.
ReadCount(w) ==
  /\ pc[w] = "counting"
  /\ seen' = m_sendCount
  /\ pc' = [pc EXCEPT ![w] = "storing"]
  /\ UNCHANGED <<holder, accepted, bufVars, m_sendCount, updVars, mgrVars, released,
                 overlapped, torn>>

StoreCount(w) ==
  /\ pc[w] = "storing"
  /\ m_sendCount' = seen + 1
  /\ pc' = [pc EXCEPT ![w] = "idle"]
  /\ holder' = Nobody
  /\ UNCHANGED <<seen, accepted, bufVars, updVars, mgrVars, released, overlapped, torn>>

\* push_back on the deque, without m_buffer_mutex; while UpdateQueue pops
\* from it the line may be lost.
QueueLine(w) ==
  /\ pc[w] = "queueing"
  /\ pc' = [pc EXCEPT ![w] = "idle"]
  /\ holder' = Nobody
  /\ \/ /\ m_sendQueue' = Append(m_sendQueue, accepted)
        /\ UNCHANGED torn
     \/ /\ update = "moving" /\ ~torn
        /\ torn' = TRUE
        /\ UNCHANGED m_sendQueue
  /\ UNCHANGED <<seen, accepted, m_outBuf, m_sendCount, updVars, mgrVars, released, overlapped>>

-----------------------------------------------------------------------------
(* Socket::UpdateQueue, in the session's thread, at most once a second     *)

UpdateQueue ==
  /\ update = "idle" /\ pc[RunThread] = "idle"
  /\ newSecond
  /\ newSecond' = FALSE
  /\ update' = "moving"
  /\ IF InSendLine THEN overlapped' = TRUE ELSE UNCHANGED overlapped
  /\ UNCHANGED <<sendVars, bufVars, m_sendCount, moved, mgrVars, released, torn>>

\* Faulty: the lines moved stay in the queue (EachLineOnce) ...
MoveLinesCopied ==
  LET c == IF Len(m_sendQueue) < Cap THEN Len(m_sendQueue) ELSE Cap IN
  /\ update = "moving"
  /\ update' = "setting"
  /\ moved' = c
  /\ m_outBuf' = m_outBuf \o SubSeq(m_sendQueue, 1, c)
  /\ released' = c
  /\ UNCHANGED <<sendVars, m_sendQueue, m_sendCount, newSecond, mgrVars, overlapped, torn>>

\* ... and: a round stops one line early (LinesAreSent).
MoveLinesShort ==
  LET c == IF Len(m_sendQueue) < Cap THEN Len(m_sendQueue) ELSE Cap - 1 IN
  /\ update = "moving"
  /\ update' = "setting"
  /\ moved' = c
  /\ m_outBuf' = m_outBuf \o SubSeq(m_sendQueue, 1, c)
  /\ m_sendQueue' = SubSeq(m_sendQueue, c + 1, Len(m_sendQueue))
  /\ released' = c
  /\ UNCHANGED <<sendVars, m_sendCount, newSecond, mgrVars, overlapped, torn>>

\* The loop tests its limit after the first line, so it moves one at least.
MoveLines ==
  LET c == IF Len(m_sendQueue) < Cap THEN Len(m_sendQueue) ELSE Cap IN
  /\ update = "moving"
  /\ update' = "setting"
  /\ moved' = c
  /\ m_outBuf' = m_outBuf \o SubSeq(m_sendQueue, 1, c)
  /\ m_sendQueue' = SubSeq(m_sendQueue, c + 1, Len(m_sendQueue))
  /\ released' = c
  /\ UNCHANGED <<sendVars, m_sendCount, newSecond, mgrVars, overlapped, torn>>

\* Faulty: the count is lowered by the limit, not set (TypeOK, InOrder, BurstLimit).
SetCountLowered ==
  /\ update = "setting"
  /\ update' = "idle"
  /\ m_sendCount' = m_sendCount - LinesPerSecond
  /\ UNCHANGED <<sendVars, bufVars, moved, newSecond, mgrVars, released, overlapped, torn>>

SetCount ==
  /\ update = "setting"
  /\ update' = "idle"
  /\ m_sendCount' = moved
  /\ UNCHANGED <<sendVars, bufVars, moved, newSecond, mgrVars, released, overlapped, torn>>

Tick ==
  /\ newSecond' = TRUE
  /\ UNCHANGED <<sendVars, bufVars, m_sendCount, update, moved, mgrVars, released,
                 overlapped, torn>>

-----------------------------------------------------------------------------
(* SocketMgr::Run, which takes no lock of the Socket                       *)

Send(n) ==
  /\ ~broken /\ erasing = 0
  /\ erasing' = n
  /\ wire' = wire \o SubSeq(m_outBuf, 1, n)
  /\ UNCHANGED <<sendVars, bufVars, m_sendCount, updVars, broken, released, overlapped, torn>>

\* While another thread appends, the erase may be lost.
Erase ==
  /\ erasing > 0
  /\ erasing' = 0
  /\ \/ /\ m_outBuf' = SubSeq(m_outBuf, erasing + 1, Len(m_outBuf))
        /\ UNCHANGED torn
     \/ /\ Appending \/ (update = "moving" /\ m_sendQueue # <<>>)
        /\ ~torn
        /\ torn' = TRUE
        /\ UNCHANGED m_outBuf
  /\ UNCHANGED <<sendVars, m_sendQueue, m_sendCount, updVars, broken, wire, released, overlapped>>

Break ==
  /\ Breakable
  /\ ~broken /\ erasing = 0
  /\ broken' = TRUE
  /\ UNCHANGED <<sendVars, bufVars, m_sendCount, updVars, erasing, wire, released,
                 overlapped, torn>>

-----------------------------------------------------------------------------
InWrite(w) == SendLine(w) \/ ReturnLocked(w) \/ AppendLine(w) \/ ReadCount(w)
              \/ StoreCount(w) \/ QueueLine(w)
Updating   == UpdateQueue \/ MoveLines \/ SetCount
Sending    == (\E n \in 1 .. Len(m_outBuf) : Send(n)) \/ Erase

Next ==
  \/ \E w \in Writers : WriteLine(w) \/ InWrite(w)
  \/ Updating
  \/ Tick
  \/ Sending
  \/ Break

Spec == Init /\ [][Next]_vars

\* Every thread is scheduled and time passes; a mutex that is free again and
\* again is acquired in the end (UpdateQueue has it once a second at most).
FairSpec ==
  /\ Spec
  /\ \A w \in Writers : SF_vars(InWrite(w))
  /\ WF_vars(Updating)
  /\ WF_vars(Tick)
  /\ WF_vars(Sending)

-----------------------------------------------------------------------------
(* Properties                                                              *)

\* Types of the variables; no number but those of accepted lines is in a buffer.
TypeOK ==
  /\ holder \in Writers \cup {Nobody}
  /\ pc \in [Writers -> PCs]
  /\ seen \in Nat /\ m_sendCount \in Nat /\ moved \in Nat /\ erasing \in Nat
  /\ accepted \in Nat /\ released \in Nat
  /\ m_sendQueue \in Seq(Nat) /\ m_outBuf \in Seq(Nat) /\ wire \in Seq(Nat)
  /\ update \in {"idle", "moving", "setting"}
  /\ newSecond \in BOOLEAN /\ broken \in BOOLEAN
  /\ overlapped \in BOOLEAN /\ torn \in BOOLEAN

\* The lines on their way, in order: sent, in m_outBuf, queued.
Pipeline == wire \o SubSeq(m_outBuf, erasing + 1, Len(m_outBuf)) \o m_sendQueue

\* The line that is between SendLine's test and its append or push_back.
InHand == IF Appending \/ Queueing THEN {accepted} ELSE {}

\* Unless a data race has corrupted a buffer, every line SendLine was given
\* is in exactly one place: none is lost or sent twice, however the lock-free
\* reads of m_sendCount, the rounds of UpdateQueue and the sends fall.
EachLineOnce ==
  ~torn =>
    /\ \A i, j \in DOMAIN Pipeline : Pipeline[i] = Pipeline[j] => i = j
    /\ {Pipeline[i] : i \in DOMAIN Pipeline} = (1 .. accepted) \ InHand

\* While UpdateQueue never meets a thread inside SendLine, the two ways a
\* line can take, straight to m_outBuf or through m_sendQueue, keep the order
\* of the calls: no line overtakes a queued one.
InOrder ==
  ~overlapped /\ ~torn =>
    \A i, j \in DOMAIN Pipeline : i < j => Pipeline[i] < Pipeline[j]

\* ... and at most LinesPerSecond lines enter m_outBuf from one round of
\* UpdateQueue to the next: the flood limit (one line if it is 0).
PeriodLimit == ~overlapped => released <= Cap

\* Whatever the interleaving of m_sendCount++ in one thread with
\* m_sendCount = c in the other, a round never lets more than twice the limit
\* through.
BurstLimit == released <= Cap + LinesPerSecond

\* A line that was accepted is sent, unless the connection breaks, a race
\* damages a buffer or the mutex was left locked.
Leaked == \E w \in Writers : holder = w /\ pc[w] \in {"idle", "wanting"}
Abandoned == broken \/ torn \/ Leaked
LinesAreSent ==
  \A n \in 1 .. MaxLines :
    accepted >= n ~> Abandoned \/ \E i \in DOMAIN wire : wire[i] = n
=============================================================================
