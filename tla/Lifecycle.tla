----------------------------- MODULE Lifecycle -----------------------------
(***************************************************************************)
(* Start-up, reload, shutdown and crash of the bot: Vezerlo, the objects   *)
(* it owns and the threads that run in them.                               *)
(*                                                                         *)
(* What a thread has begun is a list of operations, todo; an operation     *)
(* touches one object, and between two of them every other thread may run. *)
(* Touching an object that was deleted, or a pointer that was not set, is  *)
(* undefined: the thread goes on as if nothing had happened, or faults.    *)
(* Of the connection the model knows whether pSocketMgr was ever set, of   *)
(* the pool whether m_activeThreads changes while Shutdown() walks it, and *)
(* of IRCSession::m_mutex whether somebody has kept it for good.           *)
(***************************************************************************)
EXTENDS Integers, Sequences, FiniteSets

CONSTANTS
  InfoOrder,   \* SvnInfo, GitInfo and HgInfo, in the order they are made
  Reloads,     \* what `reload' may be asked for: parts, and "all"
  Lines,       \* what else is typed: "connect", "disconnect", "reconnect"
  MaxEvents,   \* commands given at the console and on IRC, signals, empty texts
  MaxFaults    \* threads whose segmentation fault is followed

Infos == {InfoOrder[i] : i \in DOMAIN InfoOrder}
Order == InfoOrder \o <<"console", "session">>
Parts == Infos \cup {"console", "session"}

ASSUME LifecycleAssumption ==
  /\ InfoOrder \in Seq(STRING \ {"console", "session", "all", "none"})
  /\ \A i, j \in DOMAIN InfoOrder : InfoOrder[i] = InfoOrder[j] => i = j
  /\ Reloads \subseteq Parts \cup {"all"}
  /\ Lines \subseteq {"connect", "disconnect", "reconnect"}
  /\ MaxEvents \in Nat /\ MaxFaults \in Nat

Threads == {"main", "console", "session", "poller", "signal"}

VARIABLES
  ptr,       \* m_SvnInfo ... m_IRCSession: the number of the object, 0 while unset
  mSingleton,\* of each class, 0 when NULL
  made,      \* how many objects of a class were made
  alive,     \* those that are not deleted
  m_crash, m_running,
  told,      \* Info objects whose Leallas() was called: m_running[id] is false
  polling,   \* Info objects whose threads have not ended
  inside,    \* the object console and session thread run in, 0 while they do not
  connected, \* pSocketMgr was set, by a connection
  held,      \* m_mutex is locked by somebody who will not release it
  active,    \* m_activeThreads, as far as it is console and session thread
  torn,      \* threads inside the loop of Shutdown() whose set has changed
  todo,      \* the operations a thread has begun
  faulted,   \* threads inside segfault_handler
  hooked,    \* signals are hooked
  events, reloaded,  \* what happened so far
  saved,     \* Uptime() wrote its row
  process,   \* "running", "ended", "aborted", "killed"
  undefined  \* when something undefined happened first

objects == <<ptr, mSingleton, made, alive>>
wires == <<connected, held, active, torn>>
counts == <<events, reloaded>>
vars == <<objects, m_crash, m_running, told, polling, inside, wires, todo, faulted,
          hooked, counts, saved, process, undefined>>

\* An operation on a part.
Do(op, p) == [op |-> op, part |-> p, object |-> 0]
Each(op, parts) == [i \in DOMAIN parts |-> Do(op, parts[i])]

-----------------------------------------------------------------------------
(* What the threads begin                                                  *)

\* CThreadPool::Shutdown, whose set has the threads in the order of addresses.
Shutdown == <<Do("visit", "console"), Do("visit", "session"), Do("empty", "none")>>

Leallas == <<Do("save", "none")>> \o Each("stop", Order) \o Shutdown \o <<Do("halt", "none")>>

\* Faulty: m_crash is cleared before the uptime is saved (UptimeSaved).
OnSignalClearFirst == <<Do("clear", "none"), Do("uptime", "none")>> \o Leallas

OnSignal == <<Do("uptime", "none"), Do("clear", "none")>> \o Leallas

\* ~Vezerlo has come to its end.
Gone == todo["main"] = <<Do("return", "none")>>

Handler ==
  <<Do("uptime", "none"), Do("bye", "session"), Do("clear", "none")>> \o Leallas
  \o <<Do("abort", "none")>>
Segfault == IF Gone THEN <<Do("abort", "none")>> ELSE Handler

\* A line to the server.
Words == <<Do("say", "session")>>

Kikapcs == Words \o Leallas

\* Two operations on each part, one part after the other.
Pairs(first, second, parts) ==
  [i \in 1 .. 2 * Len(parts) |-> Do(IF i % 2 = 1 THEN first ELSE second, parts[(i + 1) \div 2])]

\* Faulty: the new object is not stored (SingletonIsCurrent).
MakeUnassigned(parts) == Each("new", parts)

\* `new', the constructor and the assignment of its result.
Make(parts) == Pairs("new", "assign", parts)

Remove(parts) == Pairs("stop", "delete", parts)

\* ircsession is under repair: Reload leaves it alone, and "all" only stops it.
Reload(nev) ==
  LET parts == IF nev = "all" THEN Append(InfoOrder, "console") ELSE <<nev>>
      stop  == IF nev = "all" THEN <<Do("stop", "session")>> ELSE <<>>
  IN IF nev = "session" THEN <<>> ELSE Remove(parts) \o stop \o Make(parts)

\* reload is answered on IRC.
Answer(t) == IF t = "session" THEN Words ELSE <<>>

\* connect, disconnect and reconnect at the console. Connect() succeeds, and NICK
\* and USER are said, or fails, and the console disconnects.
Connects == {<<Do("connect", "session")>> \o Words, <<Do("disconnect", "session")>>}
ConsoleLine(cmd) ==
  CASE cmd = "connect"    -> Connects
    [] cmd = "disconnect" -> {Words \o <<Do("disconnect", "session")>>}
    [] OTHER              -> {Words \o <<Do("disconnect", "session")>> \o s : s \in Connects}

\* The constructor of Vezerlo, from _HookSignals on, and its end.
Vezerlo ==
  Make(Append(InfoOrder, "console")) \o <<Do("start", "console")>>
  \o Make(<<"session">>) \o <<Do("start", "session")>>

Teardown == <<Do("unhook", "none")>> \o Each("delete", Order) \o <<Do("return", "none")>>

\* Run() of the session, which connects when its thread is started.
Run == <<Do("connect", "session")>>

Init ==
  /\ ptr = [p \in Parts |-> 0] /\ mSingleton = [p \in Parts |-> 0]
  /\ made = [p \in Parts |-> 0] /\ alive = [p \in Parts |-> {}]
  /\ m_crash = TRUE /\ m_running = TRUE
  /\ told = [p \in Infos |-> {}] /\ polling = [p \in Infos |-> {}]
  /\ inside = [t \in {"console", "session"} |-> 0]
  /\ connected = FALSE /\ held = FALSE /\ active = {} /\ torn = {}
  /\ todo = [t \in Threads |-> IF t = "main" THEN Vezerlo
                              ELSE IF t = "session" THEN Run ELSE <<>>]
  /\ faulted = {} /\ hooked = TRUE
  /\ events = 0 /\ reloaded = FALSE
  /\ saved = FALSE /\ process = "running" /\ undefined = "no"

-----------------------------------------------------------------------------
(* Undefined behaviour and its handlers                                    *)

Phase ==
  CASE ptr["session"] = 0 -> "startup"
    [] ptr["session"] # 0 /\ ~m_running -> "shutdown"
    [] ptr["session"] # 0 /\ m_running /\ reloaded -> "reload"
    [] OTHER -> "settled"

Undefined(cause) == undefined' = IF undefined = "no" THEN cause ELSE undefined

\* SIGSEGV: the handler, or the end of the process inside the handler.
Fault(t) ==
  IF t \in faulted
  THEN process' = "killed" /\ UNCHANGED <<todo, faulted>>
  ELSE /\ Cardinality(faulted) < MaxFaults
       /\ todo' = [todo EXCEPT ![t] = Segfault]
       /\ faulted' = faulted \cup {t}
       /\ UNCHANGED process

\* SIGABRT: _OnSignal, when it is hooked, and the end of the process.
Abort(t) ==
  /\ IF hooked /\ mSingleton["session"] # 0 /\ m_crash
     THEN todo' = [todo EXCEPT ![t] = OnSignal \o <<Do("die", "none")>>] /\ UNCHANGED process
     ELSE process' = "aborted" /\ UNCHANGED todo
  /\ UNCHANGED faulted

At(t, op) == process = "running" /\ todo[t] # <<>> /\ Head(todo[t]).op = op
part(t) == Head(todo[t]).part
target(t) == ptr[part(t)]
Usable(t) == target(t) \in alive[part(t)]
Proceed(t) == todo' = [todo EXCEPT ![t] = Tail(@)]

\* The thread touches what is not there.
Astray(t, cause) ==
  /\ Undefined(cause)
  /\ Fault(t) \/ (Proceed(t) /\ UNCHANGED <<process, faulted>>)

Fine(t) == Proceed(t) /\ UNCHANGED <<process, faulted, undefined>>

\* OnShutdown() of object o of class p; that of the session disconnects, on the
\* SocketMgr of the last connection.
OnShutdown(t, p, o) ==
  IF o \notin alive[p] THEN Astray(t, Phase)
  ELSE IF p = "session" /\ ~connected THEN Astray(t, "offline")
  ELSE Fine(t)

\* m_activeThreads changes, without regard to those who are in its loop.
Walking(t) == todo[t] # <<>> /\ Head(todo[t]) = Do("visit", "session")
SetChanges == torn' = torn \cup {t \in Threads : Walking(t)}

-----------------------------------------------------------------------------
(* The operations                                                          *)

Uptime(t) ==
  /\ At(t, "uptime")
  /\ saved' = TRUE
  /\ Fine(t)
  /\ UNCHANGED <<objects, m_crash, m_running, told, polling, inside, hooked, counts, wires>>

\* Faulty: Leallas returns when the uptime was saved before (ShutdownEnds).
SaveOrReturn(t) ==
  /\ At(t, "save")
  /\ saved' = (saved \/ m_crash)
  /\ todo' = [todo EXCEPT ![t] = IF m_crash THEN Tail(@) ELSE <<>>]
  /\ UNCHANGED <<objects, m_crash, m_running, told, polling, inside, faulted, hooked,
                 counts, process, undefined, wires>>

\* if(m_crash) Uptime()
Save(t) ==
  /\ At(t, "save")
  /\ saved' = (saved \/ m_crash)
  /\ Fine(t)
  /\ UNCHANGED <<objects, m_crash, m_running, told, polling, inside, hooked, counts, wires>>

Clear(t) ==
  /\ At(t, "clear")
  /\ m_crash' = FALSE
  /\ Fine(t)
  /\ UNCHANGED <<objects, m_running, told, polling, inside, hooked, counts, saved, wires>>

\* Leallas() of an Info class, OnShutdown() of the others.
Stop(t) ==
  /\ At(t, "stop")
  /\ OnShutdown(t, part(t), target(t))
  /\ told' = IF part(t) \in Infos /\ Usable(t)
             THEN [told EXCEPT ![part(t)] = @ \cup {target(t)}] ELSE told
  /\ UNCHANGED <<objects, m_crash, m_running, polling, inside, hooked, counts, saved,
                 wires>>

\* A turn of the loop in Shutdown(), on the object a thread runs in.
Visit(t) ==
  /\ At(t, "visit")
  /\ IF Walking(t) /\ t \in torn THEN Astray(t, "torn")
     ELSE IF part(t) \in active THEN OnShutdown(t, part(t), inside[part(t)])
     ELSE Fine(t)
  /\ torn' = torn \ {t}
  /\ UNCHANGED <<objects, m_crash, m_running, told, polling, inside, hooked, counts, saved,
                 connected, held, active>>

\* m_activeThreads.clear()
Empty(t) ==
  /\ At(t, "empty")
  /\ active' = {} /\ SetChanges
  /\ Fine(t)
  /\ UNCHANGED <<objects, m_crash, m_running, told, polling, inside, hooked, counts, saved,
                 connected, held>>

Halt(t) ==
  /\ At(t, "halt")
  /\ m_running' = FALSE
  /\ Fine(t)
  /\ UNCHANGED <<objects, m_crash, told, polling, inside, hooked, counts, saved, wires>>

\* Faulty: no ~Singleton, the pointer stays (TypeOK).
DeleteOnly(t) ==
  /\ At(t, "delete") /\ Usable(t)
  /\ alive' = [alive EXCEPT ![part(t)] = @ \ {target(t)}]
  /\ Fine(t)
  /\ UNCHANGED <<ptr, mSingleton, made, m_crash, m_running, told, polling, inside,
                 hooked, counts, saved, wires>>

\* A second delete may also be noticed by the heap, which calls abort().
Delete(t) ==
  /\ At(t, "delete")
  /\ \/ Usable(t) /\ Fine(t)
     \/ ~Usable(t) /\ Astray(t, Phase)
     \/ ~Usable(t) /\ Abort(t) /\ Undefined(Phase)
  /\ alive' = [alive EXCEPT ![part(t)] = @ \ {target(t)}]
  /\ mSingleton' = [mSingleton EXCEPT ![part(t)] = 0]
  /\ UNCHANGED <<ptr, made, m_crash, m_running, told, polling, inside, hooked, counts,
                 saved, wires>>

\* The constructor of Singleton with its assertion, and the threads an Info
\* class starts.
New(t) ==
  LET p == part(t)  n == made[p] + 1 IN
  /\ At(t, "new")
  /\ \/ /\ mSingleton[p] = 0
        /\ made' = [made EXCEPT ![p] = n]
        /\ alive' = [alive EXCEPT ![p] = @ \cup {n}]
        /\ mSingleton' = [mSingleton EXCEPT ![p] = n]
        /\ polling' = IF p \in Infos THEN [polling EXCEPT ![p] = @ \cup {n}] ELSE polling
        /\ todo' = [todo EXCEPT ![t] = [i \in DOMAIN Tail(@) |->
                      IF i = 1 THEN [Tail(@)[1] EXCEPT !.object = n] ELSE Tail(@)[i]]]
        /\ UNCHANGED <<process, faulted>>
     \/ /\ mSingleton[p] # 0
        /\ Abort(t)
        /\ UNCHANGED <<made, alive, mSingleton, polling>>
  /\ UNCHANGED <<ptr, m_crash, m_running, told, inside, hooked, counts, saved,
                 undefined, wires>>

Assign(t) ==
  /\ At(t, "assign")
  /\ ptr' = [ptr EXCEPT ![part(t)] = Head(todo[t]).object]
  /\ Fine(t)
  /\ UNCHANGED <<mSingleton, made, alive, m_crash, m_running, told, polling, inside,
                 hooked, counts, saved, wires>>

\* ThreadPool.ExecuteTask
Start(t) ==
  /\ At(t, "start")
  /\ inside' = [inside EXCEPT ![part(t)] = target(t)]
  /\ active' = active \cup {part(t)} /\ SetChanges
  /\ Fine(t)
  /\ UNCHANGED <<objects, m_crash, m_running, told, polling, hooked, counts, saved,
                 connected, held>>

\* Connect() succeeds: pSocketMgr is set and its thread is started.
ConnectMade(t) ==
  /\ At(t, "connect") /\ inside[t] # 0
  /\ connected' = TRUE /\ SetChanges
  /\ Fine(t)
  /\ UNCHANGED <<objects, m_crash, m_running, told, polling, inside, hooked, counts, saved,
                 held, active>>

\* It fails: Run() returns, and its thread is free.
ConnectFailed(t) ==
  /\ t = "session" /\ At(t, "connect") /\ inside[t] # 0
  /\ inside' = [inside EXCEPT ![t] = 0]
  /\ active' = active \ {t} /\ SetChanges
  /\ Fine(t)
  /\ UNCHANGED <<objects, m_crash, m_running, told, polling, hooked, counts, saved,
                 connected, held>>

\* sIRCSession.SocketDisconnect()
Disconnect(t) ==
  /\ At(t, "disconnect")
  /\ OnShutdown(t, "session", mSingleton["session"])
  /\ UNCHANGED <<objects, m_crash, m_running, told, polling, inside, hooked, counts,
                 saved, wires>>

\* sIRCSession.WriteLine, which waits for m_mutex.
Say(t) ==
  /\ At(t, "say")
  /\ \/ mSingleton["session"] # 0 /\ ~held /\ Fine(t)
     \/ mSingleton["session"] = 0 /\ Fault(t) /\ Undefined(Phase)
  /\ UNCHANGED <<objects, m_crash, m_running, told, polling, inside, hooked, counts,
                 saved, wires>>

\* WriteLine("QUIT ...") of segfault_handler, when there is a session.
Bye(t) ==
  /\ At(t, "bye")
  /\ mSingleton["session"] = 0 \/ ~held
  /\ Fine(t)
  /\ UNCHANGED <<objects, m_crash, m_running, told, polling, inside, hooked, counts,
                 saved, wires>>

\* The thread goes on in the object it was started in.
Loop(t) ==
  /\ At(t, "loop")
  /\ IF inside[t] \in alive[t] THEN Fine(t) ELSE Astray(t, Phase)
  /\ UNCHANGED <<objects, m_crash, m_running, told, polling, inside, hooked, counts,
                 saved, wires>>

Unhook(t) ==
  /\ At(t, "unhook")
  /\ hooked' = FALSE
  /\ Fine(t)
  /\ UNCHANGED <<objects, m_crash, m_running, told, polling, inside, counts, saved, wires>>

\* abort() at the end of segfault_handler.
CallAbort(t) ==
  /\ At(t, "abort")
  /\ Abort(t)
  /\ UNCHANGED <<objects, m_crash, m_running, told, polling, inside, hooked, counts,
                 saved, undefined, wires>>

\* The process ends: abort() after _OnSignal, or main() returns.
End(t) ==
  /\ \/ At(t, "die") /\ process' = "aborted"
     \/ At(t, "return") /\ process' = "ended"
  /\ Proceed(t)
  /\ UNCHANGED <<objects, m_crash, m_running, told, polling, inside, faulted, hooked,
                 counts, saved, undefined, wires>>

Step(t) ==
  \/ Uptime(t) \/ Save(t) \/ Clear(t) \/ Stop(t) \/ Visit(t) \/ Empty(t) \/ Halt(t)
  \/ Delete(t) \/ New(t) \/ Assign(t) \/ Start(t)
  \/ ConnectMade(t) \/ ConnectFailed(t) \/ Disconnect(t) \/ Say(t) \/ Bye(t)
  \/ Loop(t) \/ Unhook(t) \/ CallAbort(t) \/ End(t)

-----------------------------------------------------------------------------
(* What makes a thread begin                                               *)

Free(t) == process = "running" /\ todo[t] = <<>>

\* Faulty: the loop ends while Running() (SafeWhileRunning).
MainGoesOn ==
  /\ Free("main")
  /\ todo' = [todo EXCEPT !["main"] = Teardown]
  /\ UNCHANGED <<objects, m_crash, m_running, told, polling, inside, faulted, hooked,
                 counts, saved, process, undefined, wires>>

\* while(Running())
MainWakes ==
  /\ Free("main") /\ ~m_running
  /\ todo' = [todo EXCEPT !["main"] = Teardown]
  /\ UNCHANGED <<objects, m_crash, m_running, told, polling, inside, faulted, hooked,
                 counts, saved, process, undefined, wires>>

\* kikapcs or reload, at the console or on IRC, where reload is answered; or one
\* of the console's own.
Command(t) ==
  /\ Free(t) /\ inside[t] # 0 /\ events < MaxEvents
  /\ events' = events + 1
  /\ \/ todo' = [todo EXCEPT ![t] = Kikapcs \o <<Do("loop", t)>>] /\ UNCHANGED reloaded
     \/ \E nev \in Reloads :
          /\ todo' = [todo EXCEPT ![t] = Reload(nev) \o Answer(t) \o <<Do("loop", t)>>]
          /\ reloaded' = TRUE
     \/ /\ t = "console" /\ UNCHANGED reloaded
        /\ \E cmd \in Lines : \E s \in ConsoleLine(cmd) :
             todo' = [todo EXCEPT ![t] = s \o <<Do("loop", t)>>]
  /\ UNCHANGED <<objects, m_crash, m_running, told, polling, inside, faulted, hooked,
                 saved, process, undefined, wires>>

\* A text that is empty: WriteLine returns without releasing m_mutex.
EmptyText(t) ==
  /\ Free(t) /\ inside[t] # 0 /\ events < MaxEvents
  /\ mSingleton["session"] # 0
  /\ events' = events + 1 /\ held' = TRUE
  /\ UNCHANGED <<objects, m_crash, m_running, told, polling, inside, todo, faulted, hooked,
                 reloaded, saved, process, undefined, connected, active, torn>>

\* The session's loop comes round every 100 ms.
Round ==
  /\ Free("session") /\ inside["session"] # 0
  /\ inside["session"] \notin alive["session"]
  /\ Undefined(Phase)
  /\ Fault("session") \/ UNCHANGED <<todo, process, faulted>>
  /\ UNCHANGED <<objects, m_crash, m_running, told, polling, inside, hooked, counts,
                 saved, wires>>

Signal ==
  /\ Free("signal") /\ hooked /\ events < MaxEvents
  /\ events' = events + 1
  /\ todo' = IF mSingleton["session"] # 0 /\ m_crash
             THEN [todo EXCEPT !["signal"] = OnSignal] ELSE todo
  /\ UNCHANGED <<objects, m_crash, m_running, told, polling, inside, faulted, hooked,
                 reloaded, saved, process, undefined, wires>>

PollerEnds(p, o) ==
  /\ process = "running" /\ o \in polling[p]
  /\ o \in alive[p] /\ o \in told[p]
  /\ polling' = [polling EXCEPT ![p] = @ \ {o}]
  /\ UNCHANGED <<objects, m_crash, m_running, told, inside, todo, faulted, hooked,
                 counts, saved, process, undefined, wires>>

\* It reads m_running, or announces, in an object that is gone; what it gives
\* SendChatMessage is read inside, with m_mutex locked.
PollerAstray(p, o) ==
  /\ Free("poller") /\ o \in polling[p] /\ o \notin alive[p]
  /\ Undefined(Phase)
  /\ \/ polling' = [polling EXCEPT ![p] = @ \ {o}] /\ UNCHANGED <<todo, process,
                                                                  faulted, held>>
     \/ /\ Fault("poller") /\ UNCHANGED polling
        /\ held' \in {held, held \/ mSingleton["session"] # 0}
  /\ UNCHANGED <<objects, m_crash, m_running, told, inside, hooked, counts, saved,
                 connected, active, torn>>

\* It announces while there is no IRCSession.
PollerReports(p, o) ==
  /\ Free("poller") /\ o \in polling[p] /\ o \in alive[p]
  /\ mSingleton["session"] = 0
  /\ Undefined(Phase) /\ Fault("poller")
  /\ UNCHANGED <<objects, m_crash, m_running, told, polling, inside, hooked, counts,
                 saved, wires>>

Next ==
  \/ \E t \in Threads : Step(t)
  \/ MainWakes
  \/ \E t \in {"console", "session"} : Command(t) \/ EmptyText(t)
  \/ Round
  \/ Signal
  \/ \E p \in Infos : \E o \in polling[p] :
       PollerEnds(p, o) \/ PollerAstray(p, o) \/ PollerReports(p, o)

Spec == Init /\ [][Next]_vars

\* Threads go on with what they have begun, and main wakes every second. Less is
\* assumed here than that each of them does: lists end, and events are bounded.
FairSpec == Spec /\ WF_vars(MainWakes \/ \E t \in Threads : Step(t))

-----------------------------------------------------------------------------
(* Properties                                                              *)

\* Types; and whoever asks a class for its singleton gets NULL or an object that
\* exists, after a double delete too.
TypeOK ==
  /\ made \in [Parts -> Nat]
  /\ \A p \in Parts :
       /\ ptr[p] \in 0 .. made[p]
       /\ alive[p] \subseteq 1 .. made[p]
       /\ mSingleton[p] \in alive[p] \cup {0}
  /\ \A p \in Infos : told[p] \cup polling[p] \subseteq 1 .. made[p]
  /\ connected \in BOOLEAN /\ held \in BOOLEAN
  /\ active \subseteq Parts /\ torn \subseteq Threads
  /\ faulted \subseteq Threads
  /\ process \in {"running", "ended", "aborted", "killed"}
  /\ undefined \in {"no", "startup", "reload", "shutdown", "offline", "torn", "settled"}

\* However the bot ends - a command, a signal, a crash in any thread, several
\* of them at once - its uptime was saved, unless the crash handler crashes.
UptimeSaved == process \in {"ended", "aborted"} => saved

\* Between the end of start-up and the end of a shutdown nothing undefined
\* happens, unless something is reloaded, the session is disconnected before
\* there was a connection (a shutdown does that too), or m_activeThreads changes
\* while a Shutdown() is in its loop.
SafeWhileRunning == undefined # "settled"

\* Reloads and shutdowns of several threads, in any order: where nothing
\* undefined happened and nobody is at work on a class, its singleton is the
\* one object Vezerlo holds.
Busy(p) ==
  \E t \in Threads : \E i \in DOMAIN todo[t] :
    todo[t][i].part = p /\ todo[t][i].op \in {"delete", "new", "assign"}
SingletonIsCurrent ==
  undefined = "no" /\ process = "running" /\ m_running =>
    \A p \in Parts : Busy(p) \/ (ptr[p] = mSingleton[p] /\ alive[p] = {ptr[p]})

\* A shutdown that has begun ends the process, whatever else happens, unless
\* all who are at it wait for a mutex that nobody releases, or main does, in the
\* crash handler.
ShuttingDown(t) == \E i \in DOMAIN todo[t] : todo[t][i].op = "halt"
Waits(t) == held /\ (At(t, "say") \/ At(t, "bye"))
Stuck ==
  \/ Waits("main")
  \/ /\ \E t \in Threads : ShuttingDown(t)
     /\ \A t \in Threads : ShuttingDown(t) => Waits(t)
     /\ m_running
ShutdownEnds == (\E t \in Threads : ShuttingDown(t)) ~> process # "running" \/ Stuck
=============================================================================
