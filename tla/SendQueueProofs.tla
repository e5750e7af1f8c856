-------------------------- MODULE SendQueueProofs ---------------------------
(***************************************************************************)
(* Theorems about SendQueue, for any number of writers and any limit.      *)
(***************************************************************************)
EXTENDS SendQueue, SequenceTheorems, TLAPS

-----------------------------------------------------------------------------
(* Inductive invariants                                                    *)

\* Only the thread that has IRCSession::m_mutex is inside SendLine.
LockInv ==
  \A w \in Writers :
    pc[w] \in {"appending", "counting", "storing", "queueing"} => holder = w

\* Lines SendLine lets through while m_sendCount goes up from n to the limit.
Remaining(n) == IF n < LinesPerSecond THEN LinesPerSecond - n ELSE 0

\* The lines released in this round, with those that may still be released
\* before m_sendCount is set again, are at most b.
Within(b) ==
  /\ ~InSendLine => released + Remaining(m_sendCount) <= b
  /\ \A w \in Writers :
       /\ pc[w] = "appending" => released + 1 + Remaining(m_sendCount + 1) <= b
       /\ pc[w] = "counting"  => released + Remaining(m_sendCount + 1) <= b
       /\ pc[w] = "storing"   => released + Remaining(seen + 1) <= b
       /\ pc[w] = "queueing"  => released + Remaining(m_sendCount) <= b

\* Between the move of c lines and m_sendCount = c the old count is in force,
\* so that the round may let c lines and a whole limit through; afterwards
\* what is left of the limit comes on top, and c is gone from it.
BurstInv ==
  /\ moved <= Cap
  /\ \A w \in Writers : pc[w] = "appending" => LinesPerSecond > 0
  /\ update = "setting" => Within(moved + LinesPerSecond)
  /\ update # "setting" => Within(Cap + LinesPerSecond)

\* Without an overlap nobody is inside SendLine while UpdateQueue runs.
PeriodInv ==
  ~overlapped =>
    /\ update # "idle" => ~InSendLine
    /\ update = "idle" => Within(Cap)
    /\ update = "moving" => released <= Cap
    /\ update = "setting" => released = moved

-----------------------------------------------------------------------------
(* Type correctness                                                        *)

LEMMA InitType == Init => TypeOK
<1> SUFFICES ASSUME Init PROVE TypeOK
  OBVIOUS
<1>1. newSecond \in BOOLEAN /\ broken \in BOOLEAN /\ overlapped \in BOOLEAN /\ torn \in BOOLEAN
  BY Zenon DEF Init
<1>2. pc \in [Writers -> PCs]
  BY DEF Init, PCs
<1>3. m_sendQueue \in Seq(Nat) /\ m_outBuf \in Seq(Nat) /\ wire \in Seq(Nat)
  BY DEF Init
<1>. QED BY <1>1, <1>2, <1>3, QueueAssumption DEF Init, TypeOK

LEMMA SliceType ==
  ASSUME NEW s \in Seq(Nat), NEW m \in Nat \ {0}, NEW n \in 0 .. Len(s)
  PROVE  SubSeq(s, m, n) \in Seq(Nat)
BY SubSeqProperties

LEMMA CapNat == Cap \in Nat \ {0} /\ Cap <= LinesPerSecond + 1 /\ LinesPerSecond <= Cap
BY QueueAssumption DEF Cap

LEMMA NextType == TypeOK /\ [Next]_vars => TypeOK'
<1> SUFFICES ASSUME TypeOK, [Next]_vars PROVE TypeOK'
  OBVIOUS
<1> USE DEF TypeOK, PCs
<1>1. ASSUME NEW w \in Writers, WriteLine(w) PROVE TypeOK'
  BY <1>1 DEF WriteLine, bufVars, updVars, mgrVars
<1>2. ASSUME NEW w \in Writers, SendLine(w) PROVE TypeOK'
  <2>1. overlapped' \in BOOLEAN
    BY <1>2, Zenon DEF SendLine
  <2>2. holder' \in Writers \cup {Nobody} /\ pc' \in [Writers -> PCs] /\ accepted' \in Nat
    BY <1>2 DEF SendLine
  <2>3. UNCHANGED <<seen, bufVars, m_sendCount, updVars, mgrVars, released, torn>>
    BY <1>2 DEF SendLine
  <2>. QED BY <2>1, <2>2, <2>3 DEF bufVars, updVars, mgrVars
<1>3. ASSUME NEW w \in Writers, ReturnLocked(w) PROVE TypeOK'
  BY <1>3 DEF ReturnLocked, bufVars, updVars, mgrVars
<1>4. ASSUME NEW w \in Writers, AppendLine(w) PROVE TypeOK'
  <2>1. released' \in Nat
    BY <1>4 DEF AppendLine
  <2>0. m_outBuf' \in {m_outBuf, Append(m_outBuf, accepted)}
    BY <1>4, Zenon DEF AppendLine
  <2>2. Append(m_outBuf, accepted) \in Seq(Nat)
    BY AppendProperties
  <2>3. torn' \in BOOLEAN
    BY <1>4, Zenon DEF AppendLine
  <2>4. pc' \in [Writers -> PCs]
    BY <1>4 DEF AppendLine
  <2>5. UNCHANGED <<holder, seen, accepted, m_sendQueue, m_sendCount, updVars, mgrVars, overlapped>>
    BY <1>4 DEF AppendLine
  <2>. QED BY <2>0, <2>1, <2>2, <2>3, <2>4, <2>5 DEF updVars, mgrVars
<1>5. ASSUME NEW w \in Writers, ReadCount(w) PROVE TypeOK'
  BY <1>5 DEF ReadCount, bufVars, updVars, mgrVars
<1>6. ASSUME NEW w \in Writers, StoreCount(w) PROVE TypeOK'
  BY <1>6 DEF StoreCount, bufVars, updVars, mgrVars
<1>7. ASSUME NEW w \in Writers, QueueLine(w) PROVE TypeOK'
  <2>0. m_sendQueue' \in {m_sendQueue, Append(m_sendQueue, accepted)}
    BY <1>7, Zenon DEF QueueLine
  <2>1. Append(m_sendQueue, accepted) \in Seq(Nat)
    BY AppendProperties
  <2>2. torn' \in BOOLEAN
    BY <1>7, Zenon DEF QueueLine
  <2>3. pc' \in [Writers -> PCs] /\ holder' \in Writers \cup {Nobody}
    BY <1>7 DEF QueueLine
  <2>4. UNCHANGED <<seen, accepted, m_outBuf, m_sendCount, updVars, mgrVars, released, overlapped>>
    BY <1>7 DEF QueueLine
  <2>. QED BY <2>0, <2>1, <2>2, <2>3, <2>4 DEF updVars, mgrVars
<1>8. ASSUME UpdateQueue PROVE TypeOK'
  <2>1. overlapped' \in BOOLEAN
    BY <1>8, Zenon DEF UpdateQueue
  <2>2. newSecond' \in BOOLEAN /\ update' \in {"idle", "moving", "setting"}
    BY <1>8 DEF UpdateQueue
  <2>3. UNCHANGED <<sendVars, bufVars, m_sendCount, moved, mgrVars, released, torn>>
    BY <1>8 DEF UpdateQueue
  <2>. QED BY <2>1, <2>2, <2>3 DEF sendVars, bufVars, mgrVars
<1>9. ASSUME MoveLines PROVE TypeOK'
  <2> DEFINE c == IF Len(m_sendQueue) < Cap THEN Len(m_sendQueue) ELSE Cap
  <2>1. c \in 0 .. Len(m_sendQueue)
    BY CapNat
  <2>2. SubSeq(m_sendQueue, 1, c) \in Seq(Nat)
    BY <2>1, SliceType
  <2>3. SubSeq(m_sendQueue, c + 1, Len(m_sendQueue)) \in Seq(Nat)
    BY <2>1, SliceType
  <2> HIDE DEF c
  <2>4. /\ m_outBuf' = m_outBuf \o SubSeq(m_sendQueue, 1, c)
        /\ m_sendQueue' = SubSeq(m_sendQueue, c + 1, Len(m_sendQueue))
        /\ moved' = c /\ released' = c
        /\ update' = "setting"
    BY <1>9 DEF MoveLines, c
  <2>5. m_outBuf' \in Seq(Nat)
    BY <2>2, <2>4, ConcatProperties
  <2>6. moved' \in Nat /\ released' \in Nat
    BY <2>1, <2>4
  <2>. QED BY <2>3, <2>4, <2>5, <2>6, <1>9 DEF MoveLines, sendVars, mgrVars
<1>10. ASSUME SetCount PROVE TypeOK'
  BY <1>10 DEF SetCount, sendVars, bufVars, mgrVars
<1>11. ASSUME Tick PROVE TypeOK'
  BY <1>11 DEF Tick, sendVars, bufVars, mgrVars
<1>12. ASSUME NEW n \in 1 .. Len(m_outBuf), Send(n) PROVE TypeOK'
  <2>1. SubSeq(m_outBuf, 1, n) \in Seq(Nat)
    BY SliceType
  <2>2. wire' \in Seq(Nat) /\ erasing' \in Nat
    BY <2>1, <1>12 DEF Send
  <2>. QED BY <2>2, <1>12 DEF Send, sendVars, bufVars, updVars
<1>13. ASSUME Erase PROVE TypeOK'
  <2>1. SubSeq(m_outBuf, erasing + 1, Len(m_outBuf)) \in Seq(Nat)
    BY SliceType
  <2>. QED BY <2>1, <1>13 DEF Erase, sendVars, updVars
<1>14. ASSUME Break PROVE TypeOK'
  BY <1>14 DEF Break, sendVars, bufVars, updVars
<1>15. CASE UNCHANGED vars
  BY <1>15 DEF vars, sendVars, bufVars, updVars, mgrVars
<1>. QED
  BY <1>1, <1>2, <1>3, <1>4, <1>5, <1>6, <1>7, <1>8, <1>9, <1>10, <1>11, <1>12, <1>13,
     <1>14, <1>15 DEF Next, InWrite, Updating, Sending

\* The variables keep their types in every run, whatever the number of
\* writers and lines and whatever the limit.
THEOREM TypeCorrect == Spec => []TypeOK
BY InitType, NextType, PTL DEF Spec

-----------------------------------------------------------------------------
(* The flood limit                                                         *)

LEMMA NextLock == TypeOK /\ LockInv /\ [Next]_vars => LockInv'
<1> SUFFICES ASSUME TypeOK, LockInv, [Next]_vars PROVE LockInv'
  OBVIOUS
<1> USE DEF LockInv, TypeOK
<1>1. ASSUME NEW w \in Writers, WriteLine(w) PROVE LockInv'
  BY <1>1 DEF WriteLine
<1>2. ASSUME NEW w \in Writers, InWrite(w) PROVE LockInv'
  <2>1. CASE SendLine(w)
    BY <2>1, QueueAssumption DEF SendLine
  <2>2. CASE ReturnLocked(w)
    BY <2>2, QueueAssumption DEF ReturnLocked
  <2>3. CASE AppendLine(w) \/ ReadCount(w)
    BY <2>3 DEF AppendLine, ReadCount
  <2>4. CASE StoreCount(w) \/ QueueLine(w)
    BY <2>4 DEF StoreCount, QueueLine
  <2>. QED BY <1>2, <2>1, <2>2, <2>3, <2>4 DEF InWrite
<1>3. CASE UNCHANGED sendVars
  BY <1>3 DEF sendVars
<1>. QED
  BY <1>1, <1>2, <1>3 DEF Next, Updating, Sending, UpdateQueue, MoveLines, SetCount, Tick,
     Send, Erase, Break, vars

LEMMA WithinBounds ==
  ASSUME TypeOK, NEW b \in Nat, Within(b)
  PROVE  released <= b
<1>1. CASE ~InSendLine
  BY <1>1, QueueAssumption DEF Within, Remaining, TypeOK
<1>2. ASSUME NEW w \in Writers, pc[w] \in {"appending", "counting", "storing", "queueing"}
      PROVE  released <= b
  <2>1. Remaining(m_sendCount) \in Nat /\ Remaining(m_sendCount + 1) \in Nat
        /\ Remaining(seen + 1) \in Nat
    BY QueueAssumption DEF Remaining, TypeOK
  <2>. QED BY <1>2, <2>1 DEF Within, TypeOK
<1>. QED BY <1>1, <1>2 DEF InSendLine

LEMMA WithinCap == TypeOK /\ Within(Cap) => released <= Cap
BY WithinBounds, CapNat

\* A step of a writer uses up what Within leaves it, and no more.
LEMMA WriterWithin ==
  ASSUME TypeOK, LockInv, NEW w \in Writers, WriteLine(w) \/ InWrite(w),
         NEW b \in Nat, Within(b),
         pc[w] = "appending" => LinesPerSecond > 0
  PROVE  Within(b)' /\ (pc'[w] = "appending" => LinesPerSecond > 0)
<1> USE QueueAssumption DEF TypeOK, LockInv, Within, Remaining, InSendLine
<1>1. CASE WriteLine(w)
  BY <1>1 DEF WriteLine
<1>2. CASE SendLine(w)
  <2>1. ~InSendLine
    BY <1>2 DEF SendLine
  <2>. QED BY <2>1, <1>2 DEF SendLine
<1>3. CASE ReturnLocked(w)
  <2>1. ~InSendLine
    BY <1>3 DEF ReturnLocked
  <2>. QED BY <2>1, <1>3 DEF ReturnLocked
<1>4. CASE AppendLine(w)
  BY <1>4 DEF AppendLine
<1>5. CASE ReadCount(w)
  BY <1>5 DEF ReadCount
<1>6. CASE StoreCount(w)
  BY <1>6 DEF StoreCount
<1>7. CASE QueueLine(w)
  BY <1>7 DEF QueueLine
<1>. QED BY <1>1, <1>2, <1>3, <1>4, <1>5, <1>6, <1>7 DEF InWrite

\* What the other threads do leaves the writers, and what they count, alone.
LEMMA OthersWithin ==
  ASSUME NEW b \in Nat, Within(b),
         UNCHANGED <<pc, seen, m_sendCount, released>>
  PROVE  Within(b)'
BY DEF Within, Remaining, InSendLine

LEMMA NextBurst ==
  TypeOK /\ LockInv /\ BurstInv /\ [Next]_vars => BurstInv'
<1> SUFFICES ASSUME TypeOK, LockInv, BurstInv, [Next]_vars PROVE BurstInv'
  OBVIOUS
<1>0. PICK b \in Nat : b = (IF update = "setting" THEN moved ELSE Cap) + LinesPerSecond
  BY CapNat, QueueAssumption DEF TypeOK
<1>b. Within(b)
  BY <1>0 DEF BurstInv
<1>1. ASSUME NEW w \in Writers, WriteLine(w) \/ InWrite(w) PROVE BurstInv'
  <2>1. Within(b)' /\ (pc'[w] = "appending" => LinesPerSecond > 0)
    BY <1>b, <1>1, WriterWithin DEF BurstInv
  <2>2. UNCHANGED <<update, moved>> /\ \A v \in Writers \ {w} : pc'[v] = pc[v]
    BY <1>1 DEF WriteLine, InWrite, SendLine, ReturnLocked, AppendLine, ReadCount, StoreCount,
       QueueLine, updVars, TypeOK
  <2>. QED BY <1>0, <2>1, <2>2 DEF BurstInv, Cap
<1>2. CASE UNCHANGED <<pc, seen, m_sendCount, released, update, moved>>
  <2>1. Within(b)'
    BY <1>b, <1>2, OthersWithin
  <2>. QED BY <1>0, <1>2, <2>1 DEF BurstInv, Cap
<1>3. CASE UpdateQueue
  <2>1. Within(b)'
    BY <1>b, <1>3, OthersWithin DEF UpdateQueue, sendVars
  <2>. QED BY <1>0, <1>3, <2>1 DEF UpdateQueue, sendVars, BurstInv, Cap
<1>4. CASE MoveLines
  <2>1. moved' \in Nat /\ moved' <= Cap /\ released' = moved' /\ update' = "setting"
    BY <1>4, CapNat DEF MoveLines, TypeOK
  <2>2. UNCHANGED <<pc, seen, m_sendCount>>
    BY <1>4 DEF MoveLines, sendVars
  <2>3. /\ Remaining(m_sendCount) \in 0 .. LinesPerSecond
        /\ Remaining(m_sendCount + 1) \in 0 .. LinesPerSecond
        /\ Remaining(seen + 1) \in 0 .. LinesPerSecond
        /\ LinesPerSecond > 0 => 1 + Remaining(m_sendCount + 1) <= LinesPerSecond
    BY QueueAssumption DEF Remaining, TypeOK
  <2>4. /\ Remaining(m_sendCount)' = Remaining(m_sendCount)
        /\ Remaining(m_sendCount + 1)' = Remaining(m_sendCount + 1)
        /\ Remaining(seen + 1)' = Remaining(seen + 1)
    BY <2>2 DEF Remaining
  <2>5. Within(moved + LinesPerSecond)'
    BY <2>1, <2>2, <2>3, <2>4, QueueAssumption DEF Within, BurstInv, TypeOK
  <2>. QED BY <2>1, <2>2, <2>5 DEF BurstInv
<1>5. CASE SetCount
  <2>1. UNCHANGED <<pc, seen, released, moved>> /\ m_sendCount' = moved
    /\ update = "setting" /\ update' = "idle"
    BY <1>5 DEF SetCount, sendVars
  <2>2. Within(Cap + LinesPerSecond)'
    BY <2>1, CapNat, QueueAssumption DEF Within, Remaining, InSendLine, BurstInv, TypeOK
  <2>. QED BY <2>1, <2>2 DEF BurstInv
<1>. QED
  BY <1>1, <1>2, <1>3, <1>4, <1>5 DEF Next, Updating, Sending, Tick, Send, Erase, Break, vars,
     sendVars, updVars

LEMMA BurstInvariant == Spec => [](TypeOK /\ LockInv /\ BurstInv)
<1>1. Init => TypeOK /\ LockInv /\ BurstInv
  <2>1. Init => LockInv
    BY DEF Init, LockInv
  <2>2. Init => BurstInv
    BY CapNat, QueueAssumption DEF Init, BurstInv, Within, Remaining, InSendLine
  <2>. QED BY <2>1, <2>2, InitType
<1>2. TypeOK /\ LockInv /\ BurstInv /\ [Next]_vars => (TypeOK /\ LockInv /\ BurstInv)'
  BY NextType, NextLock, NextBurst
<1>. QED BY <1>1, <1>2, PTL DEF Spec

\* However m_sendCount++ in the writers and m_sendCount = c in UpdateQueue
\* interleave, one round lets at most twice the limit into m_outBuf.
THEOREM BurstIsBounded == Spec => []BurstLimit
<1>1. TypeOK /\ LockInv /\ BurstInv => BurstLimit
  <2> SUFFICES ASSUME TypeOK, LockInv, BurstInv PROVE BurstLimit
    OBVIOUS
  <2> DEFINE b == (IF update = "setting" THEN moved ELSE Cap) + LinesPerSecond
  <2>1. Within(b) /\ b \in Nat /\ b <= Cap + LinesPerSecond
    BY CapNat, QueueAssumption DEF BurstInv, TypeOK
  <2>2. released <= b
    BY <2>1, WithinBounds
  <2>. QED BY <2>1, <2>2, CapNat, QueueAssumption DEF BurstLimit, TypeOK
<1>. QED BY <1>1, BurstInvariant, PTL

LEMMA NextPeriod ==
  TypeOK /\ LockInv /\ BurstInv /\ PeriodInv /\ [Next]_vars => PeriodInv'
<1> SUFFICES ASSUME TypeOK, LockInv, BurstInv, PeriodInv, [Next]_vars, ~overlapped'
    PROVE  PeriodInv'
  BY DEF PeriodInv
<1>0. ~overlapped
  BY DEF Next, InWrite, Updating, Sending, WriteLine, SendLine, ReturnLocked, AppendLine,
     ReadCount, StoreCount, QueueLine, UpdateQueue, MoveLines, SetCount, Tick, Send, Erase,
     Break, vars, TypeOK
<1>1. ASSUME NEW w \in Writers, WriteLine(w) \/ InWrite(w) PROVE PeriodInv'
  <2>1. UNCHANGED <<update, moved>>
    BY <1>1 DEF WriteLine, InWrite, SendLine, ReturnLocked, AppendLine, ReadCount, StoreCount,
       QueueLine, updVars
  <2>2. CASE update = "idle"
    <3>1. Within(Cap)'
      BY <1>0, <1>1, <2>2, CapNat, WriterWithin DEF PeriodInv, BurstInv
    <3>. QED BY <3>1, <2>1, <2>2 DEF PeriodInv, Cap
  <2>3. CASE update # "idle"
    <3>1. ~InSendLine
      BY <1>0, <2>3 DEF PeriodInv
    <3>2. WriteLine(w) \/ ReturnLocked(w)
      BY <1>1, <2>3, <3>1 DEF InWrite, SendLine, AppendLine, ReadCount, StoreCount, QueueLine,
         InSendLine
    <3>3. ~InSendLine' /\ UNCHANGED released
      BY <3>1, <3>2 DEF WriteLine, ReturnLocked, InSendLine, TypeOK
    <3>. QED BY <1>0, <2>1, <2>3, <3>3 DEF PeriodInv
  <2>. QED BY <2>2, <2>3
<1>2. CASE UNCHANGED <<pc, seen, m_sendCount, released, update, moved>>
  BY <1>0, <1>2, CapNat, OthersWithin DEF PeriodInv, InSendLine
<1>3. CASE UpdateQueue
  <2>1. ~InSendLine
    BY <1>3 DEF UpdateQueue
  <2>2. UNCHANGED <<pc, released>> /\ update' = "moving"
    BY <1>3 DEF UpdateQueue, sendVars
  <2>3. released <= Cap
    BY <1>0, <1>3, WithinCap DEF UpdateQueue, PeriodInv
  <2>. QED BY <1>0, <2>1, <2>2, <2>3 DEF PeriodInv, InSendLine, Cap
<1>4. CASE MoveLines
  <2>1. moved' \in Nat /\ moved' <= Cap /\ released' = moved' /\ update' = "setting"
    BY <1>4, CapNat DEF MoveLines, TypeOK
  <2>2. ~InSendLine'
    BY <1>0, <1>4 DEF PeriodInv, MoveLines, sendVars, InSendLine
  <2>. QED BY <2>1, <2>2 DEF PeriodInv
<1>5. CASE SetCount
  <2>1. ~InSendLine' /\ released' = moved /\ m_sendCount' = moved /\ update' = "idle"
    BY <1>0, <1>5 DEF PeriodInv, SetCount, sendVars, InSendLine
  <2>2. Within(Cap)' /\ released' <= Cap
    BY <2>1, CapNat, QueueAssumption DEF Within, Remaining, InSendLine, BurstInv, TypeOK
  <2>. QED BY <2>1, <2>2 DEF PeriodInv
<1>. QED
  BY <1>1, <1>2, <1>3, <1>4, <1>5 DEF Next, Updating, Sending, Tick, Send, Erase, Break, vars,
     sendVars, updVars

\* While UpdateQueue and SendLine never overlap, a round lets no more than
\* LinesPerSecond lines through: the flood limit as it is meant.
THEOREM FloodLimitHolds == Spec => []PeriodLimit
<1>1. Init => PeriodInv
  BY CapNat, QueueAssumption DEF Init, PeriodInv, Within, Remaining, InSendLine
<1>2. TypeOK /\ BurstInv /\ PeriodInv => PeriodLimit
  BY WithinCap DEF PeriodInv, PeriodLimit, BurstInv, TypeOK
<1>. QED BY <1>1, <1>2, BurstInvariant, NextPeriod, PTL DEF Spec

-----------------------------------------------------------------------------
(* The lines on their way                                                  *)

\* What SocketMgr has still to erase is in m_outBuf.
ShapeInv == erasing <= Len(m_outBuf)

\* The part of the pipeline in front of the queue.
Front == wire \o SubSeq(m_outBuf, erasing + 1, Len(m_outBuf))

Lines(s)  == {s[i] : i \in DOMAIN s}
Once(s)   == \A i, j \in DOMAIN s : s[i] = s[j] => i = j
Rising(s) == \A i, j \in DOMAIN s : i < j => s[i] < s[j]

LEMMA FrontType ==
  ASSUME TypeOK, ShapeInv
  PROVE  Front \in Seq(Nat) /\ Pipeline \in Seq(Nat) /\ Pipeline = Front \o m_sendQueue
<1>1. SubSeq(m_outBuf, erasing + 1, Len(m_outBuf)) \in Seq(Nat)
  BY SliceType DEF TypeOK, ShapeInv
<1>2. Front \in Seq(Nat)
  BY <1>1, ConcatProperties DEF Front, TypeOK
<1>3. Pipeline = Front \o m_sendQueue
  BY DEF Pipeline, Front
<1>. QED BY <1>2, <1>3, ConcatProperties DEF TypeOK

\* A new line put between two parts of a sequence is there once, if it was not
\* there before, and the others stay as they are.
LEMMA InsertOnce ==
  ASSUME NEW s \in Seq(Nat), NEW t \in Seq(Nat), NEW n \in Nat
  PROVE  /\ Lines((s \o <<n>>) \o t) = Lines(s \o t) \cup {n}
         /\ Once(s \o t) /\ n \notin Lines(s \o t) => Once((s \o <<n>>) \o t)
<1> DEFINE a == s \o t
           m == s \o <<n>>
           b == m \o t
           F(i) == IF i <= Len(s) THEN i ELSE i - 1
<1>1. a \in Seq(Nat) /\ DOMAIN a = 1 .. Len(s) + Len(t)
      /\ \A i \in 1 .. Len(s) + Len(t) : a[i] = IF i <= Len(s) THEN s[i] ELSE t[i - Len(s)]
  BY ConcatProperties, LenProperties
<1>2. m \in Seq(Nat) /\ Len(m) = Len(s) + 1
      /\ \A i \in 1 .. Len(s) + 1 : m[i] = IF i <= Len(s) THEN s[i] ELSE n
  BY ConcatProperties
<1>3. b \in Seq(Nat) /\ DOMAIN b = 1 .. Len(s) + Len(t) + 1
      /\ \A i \in 1 .. Len(s) + Len(t) + 1 : b[i] = IF i <= Len(m) THEN m[i] ELSE t[i - Len(m)]
  BY <1>2, ConcatProperties, LenProperties
<1>4. Len(s) \in Nat /\ Len(t) \in Nat
  BY LenProperties
<1> HIDE DEF a, m, b
<1>5. b[Len(s) + 1] = n /\ Len(s) + 1 \in DOMAIN b
  <2>1. Len(s) + 1 \in 1 .. Len(s) + Len(t) + 1 /\ Len(s) + 1 <= Len(m)
    BY <1>2, <1>4
  <2>2. b[Len(s) + 1] = m[Len(s) + 1]
    BY <2>1, <1>3
  <2>3. m[Len(s) + 1] = n
    BY <1>2, <1>4
  <2>. QED BY <2>1, <2>2, <2>3, <1>3
<1>6. \A i \in DOMAIN b : i # Len(s) + 1 => F(i) \in DOMAIN a /\ b[i] = a[F(i)]
  <2> SUFFICES ASSUME NEW i \in DOMAIN b, i # Len(s) + 1
               PROVE  F(i) \in DOMAIN a /\ b[i] = a[F(i)]
    OBVIOUS
  <2>0. i \in 1 .. Len(s) + Len(t) + 1
    BY <1>3
  <2>1. CASE i <= Len(s)
    <3>1. i \in 1 .. Len(s) + Len(t) /\ i <= Len(m) /\ i \in 1 .. Len(s) + 1
      BY <2>0, <2>1, <1>2, <1>4
    <3>2. b[i] = m[i] /\ m[i] = s[i] /\ a[i] = s[i] /\ i \in DOMAIN a
      BY <3>1, <2>0, <2>1, <1>1, <1>2, <1>3
    <3>. QED BY <3>2, <2>1
  <2>2. CASE i > Len(s) + 1
    <3>1. i - 1 \in 1 .. Len(s) + Len(t) /\ ~(i <= Len(m)) /\ ~(i - 1 <= Len(s))
          /\ i - Len(m) = i - 1 - Len(s) /\ ~(i <= Len(s))
      BY <2>0, <2>2, <1>2, <1>4
    <3>2. b[i] = t[i - Len(m)] /\ a[i - 1] = t[i - 1 - Len(s)] /\ i - 1 \in DOMAIN a
      BY <3>1, <2>0, <1>1, <1>3
    <3>3. F(i) = i - 1
      BY <3>1
    <3>4. b[i] = a[i - 1]
      BY <3>1, <3>2
    <3>. QED BY <3>2, <3>3, <3>4
  <2>. QED BY <2>0, <2>1, <2>2, <1>4
<1>7. \A i \in DOMAIN a : \E j \in DOMAIN b : b[j] = a[i]
  <2> SUFFICES ASSUME NEW i \in DOMAIN a PROVE \E j \in DOMAIN b : b[j] = a[i]
    OBVIOUS
  <2> DEFINE j == IF i <= Len(s) THEN i ELSE i + 1
  <2>1. j \in DOMAIN b /\ j # Len(s) + 1 /\ F(j) = i
    <3>1. i \in 1 .. Len(s) + Len(t)
      BY <1>1
    <3>2. j \in 1 .. Len(s) + Len(t) + 1 /\ j # Len(s) + 1 /\ F(j) = i
      BY <3>1, <1>4
    <3>. QED BY <3>2, <1>3
  <2>. QED BY <2>1, <1>6
<1>8. Lines(b) = Lines(a) \cup {n}
  <2> HIDE DEF F
  <2>1. \A x \in Lines(b) : x \in Lines(a) \cup {n}
    BY <1>5, <1>6 DEF Lines
  <2>2. \A x \in Lines(a) \cup {n} : x \in Lines(b)
    BY <1>5, <1>7 DEF Lines
  <2>. QED BY <2>1, <2>2
<1>9. ASSUME Once(a), n \notin Lines(a) PROVE Once(b)
  <2> SUFFICES ASSUME NEW i \in DOMAIN b, NEW j \in DOMAIN b, b[i] = b[j] PROVE i = j
    BY DEF Once
  <2>1. CASE i = Len(s) + 1 \/ j = Len(s) + 1
    BY <2>1, <1>5, <1>6, <1>9 DEF Lines
  <2>2. CASE i # Len(s) + 1 /\ j # Len(s) + 1
    <3>1. F(i) = F(j)
      BY <2>2, <1>6, <1>9 DEF Once
    <3>2. i \in Nat /\ j \in Nat
      BY <1>3
    <3>. QED BY <3>1, <3>2, <2>2, <1>4
  <2>. QED BY <2>1, <2>2
<1>. QED BY <1>8, <1>9 DEF a, b, m

\* A line larger than all others goes to the end of a rising sequence.
LEMMA AppendRising ==
  ASSUME NEW s \in Seq(Nat), NEW n \in Nat, Rising(s), \A x \in Lines(s) : x < n
  PROVE  Rising(s \o <<n>>)
<1> DEFINE m == s \o <<n>>
<1>1. m \in Seq(Nat) /\ DOMAIN m = 1 .. Len(s) + 1 /\ Len(s) \in Nat
      /\ \A i \in 1 .. Len(s) + 1 : m[i] = IF i <= Len(s) THEN s[i] ELSE n
  BY ConcatProperties, LenProperties
<1>2. DOMAIN s = 1 .. Len(s)
  BY LenProperties
<1> HIDE DEF m
<1>3. Rising(m)
  BY <1>1, <1>2 DEF Rising, Lines
<1>. QED BY <1>3 DEF m

LEMMA JoinLines ==
  ASSUME NEW s \in Seq(Nat), NEW t \in Seq(Nat), NEW u \in Seq(Nat)
  PROVE  (s \o t) \o u = s \o (t \o u)
BY ConcatAssociative

\* A suffix of a concatenation that begins in the first part.
LEMMA SuffixOfConcat ==
  ASSUME NEW s \in Seq(Nat), NEW t \in Seq(Nat), NEW e \in 0 .. Len(s)
  PROVE  SubSeq(s \o t, e + 1, Len(s \o t)) = SubSeq(s, e + 1, Len(s)) \o t
<1> DEFINE a == s \o t
           x == SubSeq(a, e + 1, Len(a))
           y == SubSeq(s, e + 1, Len(s))
           z == y \o t
<1>0. Len(s) \in Nat /\ Len(t) \in Nat
  BY LenProperties
<1>1. a \in Seq(Nat) /\ Len(a) = Len(s) + Len(t)
      /\ \A i \in 1 .. Len(s) + Len(t) : a[i] = IF i <= Len(s) THEN s[i] ELSE t[i - Len(s)]
  BY ConcatProperties
<1> HIDE DEF a
<1>2. x \in Seq(Nat) /\ Len(x) = Len(a) - e /\ \A i \in 1 .. Len(a) - e : x[i] = a[e + i]
  <2>1. \A i \in e + 1 .. Len(a) : a[i] \in Nat
    BY <1>1
  <2>2. /\ x \in Seq(Nat)
        /\ Len(x) = IF e + 1 <= Len(a) THEN Len(a) - (e + 1) + 1 ELSE 0
        /\ \A i \in 1 .. Len(a) - (e + 1) + 1 : x[i] = a[e + 1 + i - 1]
    BY <2>1, <1>0, <1>1, SubSeqProperties
  <2>3. Len(a) \in Nat /\ e <= Len(a)
    BY <1>0, <1>1
  <2> HIDE DEF x
  <2>. QED BY <2>2, <2>3
<1>3. y \in Seq(Nat) /\ Len(y) = Len(s) - e /\ \A i \in 1 .. Len(s) - e : y[i] = s[e + i]
  <2>1. \A i \in e + 1 .. Len(s) : s[i] \in Nat
    OBVIOUS
  <2>2. /\ y \in Seq(Nat)
        /\ Len(y) = IF e + 1 <= Len(s) THEN Len(s) - (e + 1) + 1 ELSE 0
        /\ \A i \in 1 .. Len(s) - (e + 1) + 1 : y[i] = s[e + 1 + i - 1]
    BY <2>1, <1>0, SubSeqProperties
  <2> HIDE DEF y
  <2>. QED BY <2>2, <1>0
<1> HIDE DEF x, y
<1>4. z \in Seq(Nat) /\ Len(z) = Len(y) + Len(t)
      /\ \A i \in 1 .. Len(y) + Len(t) : z[i] = IF i <= Len(y) THEN y[i] ELSE t[i - Len(y)]
  BY <1>3, ConcatProperties
<1> HIDE DEF z
<1>5. ASSUME NEW i \in 1 .. Len(x) PROVE x[i] = z[i]
  <2>1. i \in 1 .. Len(a) - e /\ i \in 1 .. Len(y) + Len(t) /\ e + i \in 1 .. Len(s) + Len(t)
    BY <1>0, <1>1, <1>2, <1>3
  <2>2. CASE i <= Len(s) - e
    <3>1. i \in 1 .. Len(s) - e /\ i <= Len(y) /\ e + i <= Len(s)
      BY <2>2, <1>0, <1>3
    <3>. QED BY <3>1, <2>1, <1>1, <1>2, <1>3, <1>4
  <2>3. CASE ~(i <= Len(s) - e)
    <3>1. ~(i <= Len(y)) /\ ~(e + i <= Len(s)) /\ e + i - Len(s) = i - Len(y)
      BY <2>3, <1>0, <1>3
    <3>0. i \in 1 .. Len(a) - e
      BY <2>1
    <3>2. x[i] = a[e + i]
      BY <3>0, <1>2
    <3>4. a[e + i] = t[e + i - Len(s)]
      <4>1. e + i \in 1 .. Len(s) + Len(t)
        BY <2>1
      <4>2. a[e + i] = IF e + i <= Len(s) THEN s[e + i] ELSE t[(e + i) - Len(s)]
        BY <4>1, <1>1
      <4>. QED BY <3>1, <4>2
    <3>3. z[i] = t[i - Len(y)]
      BY <3>1, <2>1, <1>4
    <3>. QED BY <3>1, <3>2, <3>3, <3>4
  <2>. QED BY <2>2, <2>3
<1>6. Len(x) = Len(z)
  BY <1>0, <1>1, <1>2, <1>3, <1>4
<1>7. x = z
  BY <1>2, <1>4, <1>5, <1>6, SeqEqual
<1>. QED BY <1>7 DEF a, x, y, z

-----------------------------------------------------------------------------
(* What a step does to the lines on their way                              *)

LEMMA NextShape == TypeOK /\ ShapeInv /\ [Next]_vars => ShapeInv'
<1> SUFFICES ASSUME TypeOK, ShapeInv, [Next]_vars PROVE ShapeInv'
  OBVIOUS
<1> USE DEF ShapeInv, TypeOK
<1>1. CASE UNCHANGED <<m_outBuf, erasing>>
  BY <1>1
<1>2. ASSUME NEW w \in Writers, AppendLine(w) PROVE ShapeInv'
  <2>1. m_outBuf' \in {m_outBuf, Append(m_outBuf, accepted)} /\ erasing' = erasing
    BY <1>2, Zenon DEF AppendLine, mgrVars
  <2>2. Len(Append(m_outBuf, accepted)) = Len(m_outBuf) + 1
    BY AppendProperties
  <2>. QED BY <2>1, <2>2
<1>3. CASE MoveLines
  <2> DEFINE c == IF Len(m_sendQueue) < Cap THEN Len(m_sendQueue) ELSE Cap
  <2>1. c \in 0 .. Len(m_sendQueue)
    BY CapNat
  <2>2. SubSeq(m_sendQueue, 1, c) \in Seq(Nat)
    BY <2>1, SliceType
  <2>3. m_outBuf' = m_outBuf \o SubSeq(m_sendQueue, 1, c) /\ erasing' = erasing
    BY <1>3 DEF MoveLines, mgrVars
  <2> HIDE DEF c
  <2>. QED BY <2>2, <2>3, ConcatProperties, LenProperties
<1>4. ASSUME NEW n \in 1 .. Len(m_outBuf), Send(n) PROVE ShapeInv'
  BY <1>4 DEF Send, bufVars
<1>5. CASE Erase
  <2>1. erasing' = 0 /\ m_outBuf' \in {m_outBuf, SubSeq(m_outBuf, erasing + 1, Len(m_outBuf))}
    BY <1>5, Zenon DEF Erase
  <2>2. SubSeq(m_outBuf, erasing + 1, Len(m_outBuf)) \in Seq(Nat)
    BY SliceType
  <2>3. m_outBuf' \in Seq(Nat)
    BY <2>1, <2>2
  <2>. QED BY <2>1, <2>3, LenProperties
<1>. QED
  BY <1>1, <1>2, <1>3, <1>4, <1>5 DEF Next, InWrite, Updating, Sending, WriteLine, SendLine,
     ReturnLocked, ReadCount, StoreCount, QueueLine, UpdateQueue, SetCount, Tick, Break, vars,
     bufVars, mgrVars

\* A send puts on the wire what it takes from m_outBuf ...
LEMMA SendConserves ==
  ASSUME TypeOK, ShapeInv, NEW n \in 1 .. Len(m_outBuf), Send(n)
  PROVE  Pipeline' = Pipeline
<1> USE DEF TypeOK
<1>1. /\ erasing = 0 /\ erasing' = n /\ wire' = wire \o SubSeq(m_outBuf, 1, n)
      /\ UNCHANGED <<m_outBuf, m_sendQueue>>
  BY DEF Send, bufVars
<1> DEFINE x == SubSeq(m_outBuf, 1, n)
           y == SubSeq(m_outBuf, n + 1, Len(m_outBuf))
<1>2. x \in Seq(Nat) /\ y \in Seq(Nat)
  BY SliceType
<1>3. x \o y = SubSeq(m_outBuf, 1, Len(m_outBuf))
  <2>1. 1 \in 1 .. Len(m_outBuf) + 1 /\ n \in 1 - 1 .. Len(m_outBuf)
        /\ Len(m_outBuf) \in n .. Len(m_outBuf)
    BY LenProperties
  <2>. QED BY <2>1, ConcatAdjacentSubSeq
<1> HIDE DEF x, y
<1>4. (wire \o x) \o y = wire \o (x \o y)
  BY <1>2, JoinLines
<1>5. Front' = (wire \o x) \o y
  BY <1>1 DEF Front, x, y
<1>6. Front = wire \o SubSeq(m_outBuf, 1, Len(m_outBuf))
  BY <1>1 DEF Front
<1>7. Front' = Front
  BY <1>3, <1>4, <1>5, <1>6
<1>. QED BY <1>1, <1>7 DEF Pipeline, Front

\* ... an erase that takes effect removes just that ...
LEMMA EraseConserves ==
  ASSUME TypeOK, ShapeInv, erasing' = 0, UNCHANGED <<wire, m_sendQueue>>,
         m_outBuf' = SubSeq(m_outBuf, erasing + 1, Len(m_outBuf))
  PROVE  Pipeline' = Pipeline
<1> DEFINE x == SubSeq(m_outBuf, erasing + 1, Len(m_outBuf))
<1>1. x \in Seq(Nat)
  BY SliceType DEF TypeOK, ShapeInv
<1>2. SubSeq(x, 1, Len(x)) = x
  BY <1>1, SubSeqFull
<1>3. SubSeq(m_outBuf', erasing' + 1, Len(m_outBuf')) = x
  <2>1. m_outBuf' = x /\ erasing' + 1 = 1
    OBVIOUS
  <2> HIDE DEF x
  <2>. QED BY <1>2, <2>1
<1>. QED BY <1>3 DEF Pipeline

\* ... and a round of UpdateQueue moves lines from the front of m_sendQueue
\* to the end of m_outBuf.
LEMMA MoveConserves ==
  ASSUME TypeOK, ShapeInv, MoveLines
  PROVE  Pipeline' = Pipeline
<1> USE DEF TypeOK, ShapeInv
<1> DEFINE c == IF Len(m_sendQueue) < Cap THEN Len(m_sendQueue) ELSE Cap
           x == SubSeq(m_sendQueue, 1, c)
           y == SubSeq(m_sendQueue, c + 1, Len(m_sendQueue))
           b == SubSeq(m_outBuf, erasing + 1, Len(m_outBuf))
<1>1. c \in 0 .. Len(m_sendQueue)
  BY CapNat
<1>2. m_outBuf' = m_outBuf \o x /\ m_sendQueue' = y /\ UNCHANGED <<wire, erasing>>
  BY DEF MoveLines, mgrVars
<1> HIDE DEF c
<1>3. x \in Seq(Nat) /\ y \in Seq(Nat) /\ b \in Seq(Nat)
  BY <1>1, SliceType
<1>4. x \o y = m_sendQueue
  <2>1. 1 \in 1 .. Len(m_sendQueue) + 1 /\ c \in 1 - 1 .. Len(m_sendQueue)
        /\ Len(m_sendQueue) \in c .. Len(m_sendQueue)
    BY <1>1, LenProperties
  <2>2. x \o y = SubSeq(m_sendQueue, 1, Len(m_sendQueue))
    BY <2>1, ConcatAdjacentSubSeq
  <2>. QED BY <2>2, SubSeqFull
<1>5. SubSeq(m_outBuf', erasing' + 1, Len(m_outBuf')) = b \o x
  <2>1. erasing \in 0 .. Len(m_outBuf)
    BY LenProperties
  <2>2. SubSeq(m_outBuf \o x, erasing + 1, Len(m_outBuf \o x)) = b \o x
    BY <2>1, <1>3, SuffixOfConcat
  <2>. QED BY <2>2, <1>2
<1> HIDE DEF x, y, b
<1>6. Pipeline' = (wire \o (b \o x)) \o y
  BY <1>2, <1>5 DEF Pipeline
<1>7. wire \o (b \o x) = (wire \o b) \o x
  BY <1>3, JoinLines
<1>8. wire \o b \in Seq(Nat)
  BY <1>3, ConcatProperties
<1>9. ((wire \o b) \o x) \o y = (wire \o b) \o (x \o y)
  BY <1>3, <1>8, JoinLines
<1>10. Pipeline = (wire \o b) \o m_sendQueue
  BY DEF Pipeline, b
<1>. QED BY <1>4, <1>6, <1>7, <1>9, <1>10

\* The append in SendLine puts the line between the front and the queue.
LEMMA AppendAdds ==
  ASSUME TypeOK, ShapeInv, UNCHANGED <<wire, erasing, m_sendQueue>>,
         m_outBuf' = Append(m_outBuf, accepted)
  PROVE  Pipeline' = (Front \o <<accepted>>) \o m_sendQueue
<1> USE DEF TypeOK, ShapeInv
<1> DEFINE b == SubSeq(m_outBuf, erasing + 1, Len(m_outBuf))
           x == <<accepted>>
<1>1. x \in Seq(Nat) /\ b \in Seq(Nat)
  BY SliceType
<1>2. m_outBuf' = m_outBuf \o x
  BY AppendIsConcat
<1>3. SubSeq(m_outBuf', erasing' + 1, Len(m_outBuf')) = b \o x
  <2>1. erasing \in 0 .. Len(m_outBuf)
    BY LenProperties
  <2>2. SubSeq(m_outBuf \o x, erasing + 1, Len(m_outBuf \o x)) = b \o x
    BY <2>1, <1>1, SuffixOfConcat
  <2>. QED BY <2>2, <1>2
<1> HIDE DEF x, b
<1>4. Pipeline' = (wire \o (b \o x)) \o m_sendQueue
  BY <1>3 DEF Pipeline
<1>5. wire \o (b \o x) = (wire \o b) \o x
  BY <1>1, JoinLines
<1>. QED BY <1>4, <1>5 DEF Front, x, b

\* The push_back puts it behind the queue.
LEMMA QueueAdds ==
  ASSUME TypeOK, ShapeInv, UNCHANGED <<wire, erasing, m_outBuf>>,
         m_sendQueue' = Append(m_sendQueue, accepted)
  PROVE  Pipeline' = Pipeline \o <<accepted>>
<1> DEFINE x == <<accepted>>
<1>1. x \in Seq(Nat)
  BY DEF TypeOK
<1>2. m_sendQueue' = m_sendQueue \o x
  BY AppendIsConcat DEF TypeOK
<1> HIDE DEF x
<1>3. Front \in Seq(Nat) /\ Pipeline = Front \o m_sendQueue
  BY FrontType
<1>4. Pipeline' = Front \o (m_sendQueue \o x)
  BY <1>2 DEF Pipeline, Front
<1>5. (Front \o m_sendQueue) \o x = Front \o (m_sendQueue \o x)
  BY <1>1, <1>3, JoinLines DEF TypeOK
<1>. QED BY <1>3, <1>4, <1>5 DEF x

\* What a step does to the pipeline when it does no damage.
Adding(w) ==
  \/ pc[w] = "appending" /\ Pipeline' = (Front \o <<accepted>>) \o m_sendQueue
  \/ pc[w] = "queueing" /\ Pipeline' = Pipeline \o <<accepted>>

LEMMA StepsOnPipeline ==
  ASSUME TypeOK, ShapeInv, [Next]_vars, ~torn'
  PROVE  /\ ~torn
         /\ \/ Pipeline' = Pipeline /\ UNCHANGED sendVars
            \/ Pipeline' = Pipeline /\ \E w \in Writers : WriteLine(w) \/ SendLine(w)
                   \/ ReturnLocked(w) \/ ReadCount(w) \/ StoreCount(w)
            \/ \E w \in Writers : (AppendLine(w) \/ QueueLine(w)) /\ Adding(w)
<1>0. ~torn
  BY Zenon DEF Next, InWrite, Updating, Sending, WriteLine, SendLine, ReturnLocked, AppendLine,
     ReadCount, StoreCount, QueueLine, UpdateQueue, MoveLines, SetCount, Tick, Send, Erase,
     Break, vars
<1>1. ASSUME NEW w \in Writers, WriteLine(w) \/ SendLine(w) \/ ReturnLocked(w) \/ ReadCount(w)
                                 \/ StoreCount(w)
      PROVE  Pipeline' = Pipeline
  <2>1. UNCHANGED <<wire, erasing, m_outBuf, m_sendQueue>>
    BY <1>1 DEF WriteLine, SendLine, ReturnLocked, ReadCount, StoreCount, bufVars, mgrVars
  <2>. QED BY <2>1, Zenon DEF Pipeline
<1>2. ASSUME NEW w \in Writers, AppendLine(w) PROVE Adding(w)
  <2>1. m_outBuf' = Append(m_outBuf, accepted)
    BY <1>2, Zenon DEF AppendLine
  <2>2. UNCHANGED <<wire, erasing, m_sendQueue>> /\ pc[w] = "appending"
    BY <1>2 DEF AppendLine, mgrVars
  <2>3. Pipeline' = (Front \o <<accepted>>) \o m_sendQueue
    BY <2>1, <2>2, AppendAdds
  <2>. QED BY <2>2, <2>3 DEF Adding
<1>3. ASSUME NEW w \in Writers, QueueLine(w) PROVE Adding(w)
  <2>1. m_sendQueue' = Append(m_sendQueue, accepted)
    BY <1>3, Zenon DEF QueueLine
  <2>2. UNCHANGED <<wire, erasing, m_outBuf>> /\ pc[w] = "queueing"
    BY <1>3 DEF QueueLine, mgrVars
  <2>3. Pipeline' = Pipeline \o <<accepted>>
    BY <2>1, <2>2, QueueAdds
  <2>. QED BY <2>2, <2>3 DEF Adding
<1>4. CASE UpdateQueue \/ SetCount \/ Tick \/ Break \/ UNCHANGED vars
  <2>1. UNCHANGED <<wire, erasing, m_outBuf, m_sendQueue, sendVars>>
    BY <1>4 DEF UpdateQueue, SetCount, Tick, Break, vars, bufVars, mgrVars
  <2>2. Pipeline' = Pipeline
    BY <2>1, Zenon DEF Pipeline
  <2>. QED BY <1>0, <2>1, <2>2
<1>5. CASE MoveLines
  <2>1. UNCHANGED sendVars
    BY <1>5 DEF MoveLines
  <2>. QED BY <1>0, <1>5, <2>1, MoveConserves
<1>6. ASSUME NEW n \in 1 .. Len(m_outBuf), Send(n)
      PROVE  Pipeline' = Pipeline /\ UNCHANGED sendVars
  BY <1>6, SendConserves DEF Send
<1>7. CASE Erase
  <2>1. m_outBuf' = SubSeq(m_outBuf, erasing + 1, Len(m_outBuf))
    BY <1>7, Zenon DEF Erase
  <2>2. erasing' = 0 /\ UNCHANGED <<wire, m_sendQueue, sendVars>>
    BY <1>7 DEF Erase
  <2>. QED BY <1>0, <2>1, <2>2, EraseConserves
<1>. QED
  BY <1>0, <1>1, <1>2, <1>3, <1>4, <1>5, <1>6, <1>7, Zenon DEF Next, InWrite, Updating, Sending

LEMMA PipelineLines ==
  ASSUME TypeOK, ShapeInv
  PROVE  EachLineOnce <=> (~torn => Once(Pipeline) /\ Lines(Pipeline) = (1 .. accepted) \ InHand)
BY Zenon DEF EachLineOnce, Once, Lines

\* The line in hand changes only when a thread enters SendLine or leaves it
\* with the line put down.
LEMMA HandSteps ==
  ASSUME TypeOK, LockInv, NEW w \in Writers
  PROVE  /\ WriteLine(w) \/ ReturnLocked(w) \/ ReadCount(w) \/ StoreCount(w)
              => accepted' = accepted /\ InHand' = InHand
         /\ SendLine(w) => accepted' = accepted + 1 /\ InHand = {} /\ InHand' = {accepted + 1}
         /\ AppendLine(w) \/ QueueLine(w)
              => accepted' = accepted /\ InHand = {accepted} /\ InHand' = {}
<1> USE DEF TypeOK, LockInv, InHand, Appending, Queueing
<1>1. ASSUME WriteLine(w) \/ ReturnLocked(w) \/ ReadCount(w) \/ StoreCount(w)
      PROVE  accepted' = accepted /\ InHand' = InHand
  <2>1. accepted' = accepted
    BY <1>1 DEF WriteLine, ReturnLocked, ReadCount, StoreCount
  <2>2. /\ pc[w] \notin {"appending", "queueing"} /\ pc'[w] \notin {"appending", "queueing"}
        /\ \A v \in Writers \ {w} : pc'[v] = pc[v]
    BY <1>1 DEF WriteLine, ReturnLocked, ReadCount, StoreCount
  <2>3. InHand' = InHand
    BY <2>1, <2>2
  <2>. QED BY <2>1, <2>3
<1>2. ASSUME SendLine(w)
      PROVE  accepted' = accepted + 1 /\ InHand = {} /\ InHand' = {accepted + 1}
  <2>1. accepted' = accepted + 1 /\ holder = Nobody
        /\ pc'[w] \in {"appending", "queueing"}
    BY <1>2 DEF SendLine
  <2>2. \A v \in Writers : ~(pc[v] \in {"appending", "queueing"})
    BY <2>1, QueueAssumption
  <2>. QED BY <2>1, <2>2
<1>3. ASSUME AppendLine(w) \/ QueueLine(w)
      PROVE  accepted' = accepted /\ InHand = {accepted} /\ InHand' = {}
  <2>1. accepted' = accepted /\ pc[w] \in {"appending", "queueing"} /\ holder = w
    BY <1>3 DEF AppendLine, QueueLine
  <2>2. \A v \in Writers : ~(pc'[v] \in {"appending", "queueing"})
    BY <1>3, <2>1 DEF AppendLine, QueueLine
  <2>. QED BY <2>1, <2>2
<1>. QED BY <1>1, <1>2, <1>3

\* Lines are numbered from 1, the one in hand too.
HandInv == InHand \subseteq 1 .. accepted

LEMMA NextHand == TypeOK /\ LockInv /\ HandInv /\ [Next]_vars => HandInv'
<1> SUFFICES ASSUME TypeOK, LockInv, HandInv, [Next]_vars PROVE HandInv'
  OBVIOUS
<1>0. accepted \in Nat
  BY DEF TypeOK
<1>1. ASSUME NEW w \in Writers, WriteLine(w) \/ InWrite(w) PROVE HandInv'
  <2>1. CASE SendLine(w)
    <3>1. accepted' = accepted + 1 /\ InHand' = {accepted + 1}
      BY <2>1, HandSteps
    <3>. QED BY <3>1, <1>0 DEF HandInv
  <2>2. CASE ~SendLine(w)
    <3>1. accepted' = accepted /\ InHand' \in {InHand, {}}
      BY <1>1, <2>2, HandSteps DEF InWrite
    <3>. QED BY <3>1 DEF HandInv
  <2>. QED BY <2>1, <2>2
<1>2. CASE UNCHANGED sendVars
  BY <1>2, Zenon DEF HandInv, InHand, Appending, Queueing, sendVars
<1>. QED
  BY <1>1, <1>2 DEF Next, Updating, Sending, UpdateQueue, MoveLines, SetCount, Tick, Send, Erase,
     Break, vars

\* An accepted line that is put down is a new one for the pipeline.
LEMMA NextOnce ==
  TypeOK /\ LockInv /\ ShapeInv /\ HandInv /\ EachLineOnce /\ [Next]_vars => EachLineOnce'
<1> SUFFICES ASSUME TypeOK, LockInv, ShapeInv, HandInv, EachLineOnce, [Next]_vars, ~torn'
             PROVE  Once(Pipeline)' /\ Lines(Pipeline)' = ((1 .. accepted) \ InHand)'
  BY Zenon DEF EachLineOnce, Once, Lines
<1>0. accepted \in Nat /\ m_sendQueue \in Seq(Nat)
  BY DEF TypeOK
<1>1. Once(Pipeline) /\ Lines(Pipeline) = (1 .. accepted) \ InHand
  BY StepsOnPipeline, PipelineLines
<1>2. CASE Pipeline' = Pipeline /\ UNCHANGED sendVars
  <2>1. accepted' = accepted /\ InHand' = InHand
    BY <1>2, Zenon DEF sendVars, InHand, Appending, Queueing
  <2>. QED BY <1>1, <1>2, <2>1, Zenon DEF Once, Lines
<1>3. ASSUME NEW w \in Writers, Pipeline' = Pipeline,
             WriteLine(w) \/ SendLine(w) \/ ReturnLocked(w) \/ ReadCount(w) \/ StoreCount(w)
      PROVE  Once(Pipeline)' /\ Lines(Pipeline)' = ((1 .. accepted) \ InHand)'
  <2>1. Once(Pipeline)' /\ Lines(Pipeline)' = Lines(Pipeline)
    BY <1>1, <1>3, Zenon DEF Once, Lines
  <2>2. (1 .. accepted') \ InHand' = (1 .. accepted) \ InHand
    <3>1. CASE SendLine(w)
      <4>1. accepted' = accepted + 1 /\ InHand = {} /\ InHand' = {accepted + 1}
        BY <3>1, HandSteps
      <4>. QED BY <4>1, <1>0
    <3>2. CASE ~SendLine(w)
      <4>1. accepted' = accepted /\ InHand' = InHand
        BY <1>3, <3>2, HandSteps
      <4>. QED BY <4>1
    <3>. QED BY <3>1, <3>2
  <2>. QED BY <1>1, <2>1, <2>2
<1>4. ASSUME NEW w \in Writers, AppendLine(w) \/ QueueLine(w), Adding(w)
      PROVE  Once(Pipeline)' /\ Lines(Pipeline)' = ((1 .. accepted) \ InHand)'
  <2>1. accepted' = accepted /\ InHand = {accepted} /\ InHand' = {}
    BY <1>4, HandSteps
  <2>2. accepted > 0
    BY <2>1, <1>0 DEF HandInv
  <2>3. accepted \notin Lines(Pipeline)
    BY <1>1, <2>1
  <2>4. Once(Pipeline)' /\ Lines(Pipeline)' = Lines(Pipeline) \cup {accepted}
    <3>1. CASE Pipeline' = (Front \o <<accepted>>) \o m_sendQueue
      <4>1. Front \in Seq(Nat) /\ Pipeline = Front \o m_sendQueue
        BY FrontType
      <4>2. /\ Lines((Front \o <<accepted>>) \o m_sendQueue) = Lines(Pipeline) \cup {accepted}
            /\ Once((Front \o <<accepted>>) \o m_sendQueue)
        BY <4>1, <1>0, <1>1, <2>3, InsertOnce
      <4>. QED BY <3>1, <4>2, Zenon DEF Once, Lines
    <3>2. CASE Pipeline' = Pipeline \o <<accepted>>
      <4>1. Pipeline \in Seq(Nat) /\ Pipeline \o <<accepted>> \in Seq(Nat)
        BY <1>0, FrontType, ConcatProperties
      <4>2. (Pipeline \o <<accepted>>) \o <<>> = Pipeline \o <<accepted>>
            /\ Pipeline \o <<>> = Pipeline
        BY <4>1, ConcatEmptySeq
      <4>3. <<>> \in Seq(Nat)
        OBVIOUS
      <4>4. /\ Lines((Pipeline \o <<accepted>>) \o <<>>) = Lines(Pipeline \o <<>>) \cup {accepted}
            /\ Once(Pipeline \o <<>>) /\ accepted \notin Lines(Pipeline \o <<>>)
                 => Once((Pipeline \o <<accepted>>) \o <<>>)
        BY <4>1, <4>3, <1>0, InsertOnce
      <4>5. Lines(Pipeline \o <<accepted>>) = Lines(Pipeline) \cup {accepted}
            /\ Once(Pipeline \o <<accepted>>)
        BY <4>2, <4>4, <1>1, <2>3
      <4>. QED BY <3>2, <4>5, Zenon DEF Once, Lines
    <3>. QED BY <1>4, <3>1, <3>2 DEF Adding
  <2>5. ((1 .. accepted) \ {accepted}) \cup {accepted} = 1 .. accepted
    BY <2>2, <1>0
  <2>. QED BY <1>1, <2>1, <2>4, <2>5
<1>. QED BY <1>2, <1>3, <1>4, StepsOnPipeline

LineInv == TypeOK /\ LockInv /\ ShapeInv /\ HandInv /\ EachLineOnce

LEMMA LineInvariant == Spec => []LineInv
<1>1. Init => LineInv
  <2> SUFFICES ASSUME Init PROVE LineInv
    OBVIOUS
  <2>1. TypeOK /\ LockInv /\ ShapeInv
    BY InitType DEF Init, LockInv, ShapeInv
  <2>2. InHand = {} /\ accepted = 0
    BY DEF Init, InHand, Appending, Queueing
  <2>3. Pipeline = <<>>
    <3>1. wire = <<>> /\ m_outBuf = <<>> /\ m_sendQueue = <<>> /\ erasing = 0 /\ Len(m_outBuf) = 0
      BY DEF Init
    <3>2. SubSeq(m_outBuf, erasing + 1, Len(m_outBuf)) = <<>>
      BY <3>1, SubSeqEmpty
    <3>3. <<>> \o <<>> = <<>>
      BY ConcatEmptySeq
    <3>. QED BY <3>1, <3>2, <3>3 DEF Pipeline
  <2>4. Once(Pipeline) /\ Lines(Pipeline) = (1 .. accepted) \ InHand
    BY <2>2, <2>3 DEF Once, Lines
  <2>. QED BY <2>1, <2>2, <2>4, PipelineLines DEF LineInv, HandInv
<1>2. LineInv /\ [Next]_vars => LineInv'
  BY NextType, NextLock, NextShape, NextHand, NextOnce DEF LineInv
<1>. QED BY <1>1, <1>2, PTL DEF Spec

\* As long as no data race damages a buffer, each accepted line is in exactly
\* one place on its way, or in the hand of the thread inside SendLine.
THEOREM NoLineLostOrDoubled == Spec => []EachLineOnce
BY LineInvariant, PTL DEF LineInv

-----------------------------------------------------------------------------
(* The order of the lines                                                  *)

\* Without an overlap a line goes straight to m_outBuf only past an empty
\* queue, and a queue that is not empty means that the limit is reached.
QueueInv ==
  ~overlapped =>
    /\ \A w \in Writers :
         /\ pc[w] \in {"appending", "counting", "storing"} => m_sendQueue = <<>>
         /\ pc[w] = "queueing" => m_sendCount >= LinesPerSecond
    /\ update = "idle" /\ m_sendQueue # <<>> => m_sendCount >= LinesPerSecond
    /\ update = "setting" /\ m_sendQueue # <<>> => moved >= LinesPerSecond

LEMMA NextQueue ==
  TypeOK /\ LockInv /\ PeriodInv /\ QueueInv /\ [Next]_vars => QueueInv'
<1> SUFFICES ASSUME TypeOK, LockInv, PeriodInv, QueueInv, [Next]_vars, ~overlapped'
    PROVE  QueueInv'
  BY DEF QueueInv
<1>0. ~overlapped
  BY Zenon DEF Next, InWrite, Updating, Sending, WriteLine, SendLine, ReturnLocked, AppendLine,
     ReadCount, StoreCount, QueueLine, UpdateQueue, MoveLines, SetCount, Tick, Send, Erase,
     Break, vars
<1>q. /\ \A w \in Writers :
           /\ pc[w] \in {"appending", "counting", "storing"} => m_sendQueue = <<>>
           /\ pc[w] = "queueing" => m_sendCount >= LinesPerSecond
      /\ update = "idle" /\ m_sendQueue # <<>> => m_sendCount >= LinesPerSecond
      /\ update = "setting" /\ m_sendQueue # <<>> => moved >= LinesPerSecond
      /\ update # "idle" => ~InSendLine
  BY <1>0 DEF QueueInv, PeriodInv
<1>t. /\ pc \in [Writers -> PCs] /\ m_sendCount \in Nat /\ moved \in Nat /\ seen \in Nat
      /\ update \in {"idle", "moving", "setting"} /\ m_sendQueue \in Seq(Nat)
      /\ LinesPerSecond \in Nat
  BY QueueAssumption DEF TypeOK
<1> USE <1>q, <1>t DEF InSendLine
<1>1. ASSUME NEW w \in Writers, WriteLine(w) \/ ReturnLocked(w) PROVE QueueInv'
  <2>1. UNCHANGED <<m_sendQueue, m_sendCount, update, moved>>
        /\ \A v \in Writers : pc'[v] = pc[v] \/ pc'[v] \in {"idle", "wanting"}
    BY <1>1 DEF WriteLine, ReturnLocked, bufVars, updVars
  <2>. QED BY <2>1 DEF QueueInv
<1>2. ASSUME NEW w \in Writers, SendLine(w) PROVE QueueInv'
  <2>1. update = "idle"
    BY <1>2, Zenon DEF SendLine
  <2>2. UNCHANGED <<m_sendQueue, m_sendCount, update, moved>>
        /\ pc'[w] = (IF m_sendCount >= LinesPerSecond THEN "queueing" ELSE "appending")
        /\ \A v \in Writers \ {w} : pc'[v] = pc[v]
    BY <1>2 DEF SendLine, bufVars, updVars
  <2>. QED BY <2>1, <2>2 DEF QueueInv
<1>3. ASSUME NEW w \in Writers, AppendLine(w) \/ ReadCount(w) PROVE QueueInv'
  <2>1. UNCHANGED <<m_sendQueue, m_sendCount, update, moved>>
        /\ pc[w] \in {"appending", "counting"} /\ pc'[w] \in {"counting", "storing"}
        /\ \A v \in Writers \ {w} : pc'[v] = pc[v]
    BY <1>3 DEF AppendLine, ReadCount, bufVars, updVars
  <2>. QED BY <2>1 DEF QueueInv
<1>4. ASSUME NEW w \in Writers, StoreCount(w) PROVE QueueInv'
  <2>1. UNCHANGED <<m_sendQueue, update, moved>> /\ pc[w] = "storing" /\ pc'[w] = "idle"
        /\ \A v \in Writers \ {w} : pc'[v] = pc[v]
    BY <1>4 DEF StoreCount, bufVars, updVars
  <2>2. m_sendQueue = <<>> /\ \A v \in Writers \ {w} : pc[v] # "queueing"
    BY <2>1 DEF LockInv
  <2>. QED BY <2>1, <2>2 DEF QueueInv
<1>5. ASSUME NEW w \in Writers, QueueLine(w) PROVE QueueInv'
  <2>1. UNCHANGED <<m_sendCount, update, moved>> /\ pc[w] = "queueing" /\ pc'[w] = "idle"
        /\ \A v \in Writers \ {w} : pc'[v] = pc[v]
    BY <1>5 DEF QueueLine, updVars
  <2>2. update = "idle" /\ m_sendCount >= LinesPerSecond
        /\ \A v \in Writers \ {w} :
              pc[v] \notin {"appending", "counting", "storing", "queueing"}
    BY <2>1 DEF LockInv
  <2>. QED BY <2>1, <2>2 DEF QueueInv
<1>6. CASE UNCHANGED <<pc, m_sendQueue, m_sendCount, update, moved>>
  BY <1>6 DEF QueueInv
<1>7. CASE UpdateQueue
  <2>1. UNCHANGED <<pc, m_sendQueue, m_sendCount, moved>> /\ update' = "moving"
    BY <1>7 DEF UpdateQueue, sendVars, bufVars
  <2>. QED BY <2>1 DEF QueueInv
<1>8. CASE MoveLines
  <2> DEFINE c == IF Len(m_sendQueue) < Cap THEN Len(m_sendQueue) ELSE Cap
  <2>1. c \in 0 .. Len(m_sendQueue) /\ (c < LinesPerSecond => c = Len(m_sendQueue))
    BY CapNat
  <2>2. UNCHANGED <<pc, m_sendCount>> /\ update = "moving" /\ update' = "setting" /\ moved' = c
        /\ m_sendQueue' = SubSeq(m_sendQueue, c + 1, Len(m_sendQueue))
    BY <1>8 DEF MoveLines, sendVars
  <2> HIDE DEF c
  <2>3. c < LinesPerSecond => m_sendQueue' = <<>>
    BY <2>1, <2>2, SubSeqEmpty
  <2>. QED BY <2>1, <2>2, <2>3 DEF QueueInv
<1>9. CASE SetCount
  <2>1. UNCHANGED <<pc, m_sendQueue, moved>> /\ update = "setting" /\ update' = "idle"
        /\ m_sendCount' = moved
    BY <1>9 DEF SetCount, sendVars, bufVars
  <2>. QED BY <2>1 DEF QueueInv
<1>. QED
  BY <1>1, <1>2, <1>3, <1>4, <1>5, <1>6, <1>7, <1>8, <1>9, Zenon DEF Next, InWrite, Updating,
     Sending, Tick, Send, Erase, Break, vars, sendVars, bufVars, updVars

LEMMA NextInOrder ==
  LineInv /\ PeriodInv /\ QueueInv /\ InOrder /\ [Next]_vars => InOrder'
<1> SUFFICES ASSUME LineInv, PeriodInv, QueueInv, InOrder, [Next]_vars, ~overlapped', ~torn'
             PROVE  Rising(Pipeline)'
  BY Zenon DEF InOrder, Rising
<1> USE DEF LineInv
<1>0. ~overlapped
  BY Zenon DEF Next, InWrite, Updating, Sending, WriteLine, SendLine, ReturnLocked, AppendLine,
     ReadCount, StoreCount, QueueLine, UpdateQueue, MoveLines, SetCount, Tick, Send, Erase,
     Break, vars
<1>1. ~torn
  BY StepsOnPipeline
<1>2. Rising(Pipeline) /\ Lines(Pipeline) = (1 .. accepted) \ InHand
  BY <1>0, <1>1, PipelineLines DEF InOrder, Rising
<1>3. CASE Pipeline' = Pipeline
  BY <1>2, <1>3, Zenon DEF Rising
<1>4. ASSUME NEW w \in Writers, AppendLine(w) \/ QueueLine(w), Adding(w)
      PROVE  Rising(Pipeline)'
  <2>1. InHand = {accepted} /\ accepted \in Nat /\ m_sendQueue \in Seq(Nat)
    BY <1>4, HandSteps DEF TypeOK
  <2>2. \A x \in Lines(Pipeline) : x < accepted
    BY <1>2, <2>1
  <2>3. Front \in Seq(Nat) /\ Pipeline \in Seq(Nat) /\ Pipeline = Front \o m_sendQueue
    BY FrontType
  <2>4. Rising(Pipeline \o <<accepted>>)
    BY <1>2, <2>1, <2>2, <2>3, AppendRising
  <2>5. Pipeline' = Pipeline \o <<accepted>>
    <3>1. CASE pc[w] = "appending"
      <4>1. m_sendQueue = <<>>
        BY <1>0, <3>1 DEF QueueInv
      <4>2. Front \o <<accepted>> \in Seq(Nat)
        BY <2>1, <2>3, ConcatProperties
      <4>3. Pipeline = Front /\ (Front \o <<accepted>>) \o m_sendQueue = Front \o <<accepted>>
        BY <2>3, <4>1, <4>2, ConcatEmptySeq
      <4>. QED BY <1>4, <3>1, <4>3 DEF Adding
    <3>2. CASE pc[w] = "queueing"
      BY <1>4, <3>2 DEF Adding
    <3>. QED BY <1>4, <3>1, <3>2 DEF Adding
  <2>. QED BY <2>4, <2>5, Zenon DEF Rising
<1>. QED BY <1>3, <1>4, StepsOnPipeline

\* While UpdateQueue and SendLine never overlap and no race damages a buffer,
\* no line overtakes another, though lines take two different ways.
THEOREM LinesStayInOrder == Spec => []InOrder
<1>1. Init => PeriodInv /\ QueueInv
  BY CapNat, QueueAssumption DEF Init, PeriodInv, QueueInv, Within, Remaining, InSendLine
<1>2. Init /\ LineInv => InOrder
  <2> SUFFICES ASSUME Init, LineInv PROVE Rising(Pipeline)
    BY Zenon DEF InOrder, Rising
  <2>1. InHand = {} /\ accepted = 0 /\ ~torn
    BY DEF Init, InHand, Appending, Queueing
  <2>2. Lines(Pipeline) = {}
    BY <2>1, PipelineLines DEF LineInv
  <2>. QED BY <2>2 DEF Rising, Lines
<1>3. LineInv /\ BurstInv /\ PeriodInv /\ QueueInv /\ InOrder /\ [Next]_vars
        => (PeriodInv /\ QueueInv /\ InOrder)'
  BY NextPeriod, NextQueue, NextInOrder DEF LineInv
<1>. QED BY <1>1, <1>2, <1>3, LineInvariant, BurstInvariant, PTL DEF Spec
=============================================================================
