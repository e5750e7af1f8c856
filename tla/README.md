# Schumix in TLA+

Schumix is an IRC bot in C++: it keeps a connection to one IRC server, joins the channels of a
MySQL table, runs commands that users and operators write on these channels, and announces the
commits of svn, git and mercurial repositories. This directory models the parts of it whose
correctness depends on what several threads do at the same time, or on long sequences of commands.
Paths below are relative to `src/src/`.

## The system

| Component | State | Operations | What is hard |
|---|---|---|---|
| Thread pool (`Shared/Threading`) | sets of active and free threads, `_threadsToExit`, `_threadsEaten`; per thread `ExecutionTarget`, `DeleteAfterExit` | `ExecuteTask`, `thread_proc`, `ThreadExit`, `KillFreeThreads`, `Startup`, `IntegrityCheck`, `Shutdown` | a condition variable without a predicate; `Shutdown` with its locks commented out; tickets that any thread may take |
| Send queue (`Shared/Network/Socket*`, `IRC/IRCSession.cpp`) | `m_outBuf`, `m_sendQueue`, `m_sendCount`, `m_lastSendTime`, `m_mutex` | `WriteLine`, `SendChatMessage`, `SendLine`, `UpdateQueue`, sending in `SocketMgr::Run` | every thread writes lines; three mutexes none of which covers all of the state; a limit per second made of rounds |
| Feed pollers (`Rss/`) | `m_running[id]`, `a_rev[id]`, one mutex for each class, the table row | the thread of a repository; `new`, `stop`, `reload`, `add`, `del` | flags that are set back before a thread saw them; three web requests for one announcement |
| Connection and session (`IRC/IRCSession.cpp`, `Shared/Network`) | `m_fd`, `m_sockets`, `pSocketMgr`, `m_ConnState`, `m_NickTarolo` | `Connect`, `Disconnect`, `Run`, `ReConnect`, nick rotation, the console's `connect`, `disconnect`, `reconnect` | three threads connect and disconnect one `Socket`; `m_fd` is 0 or -1 for "none" |
| Message handlers (`IRC/MessageHandler.cpp`, `IRC/SchumixFunkciok.cpp`) | `m_ChannelLista`, `m_ChannelFunkcio`, `AutoMode`, `ModeChannel`, `m_ChannelPrivmsg`, `m_WhoisPrivmsg` | one handler for each IRC opcode | answers of the server are matched with single slots; a cache beside a table |
| Commands (`Commands/`) | the tables `adminok`, `channel`, `kicklista`, `modelista`, `schumix` | `admin`, `funkcio`, `channel`, `autofunkcio`, `svn`, `git`, `hg`, ... | rights of three levels; lists kept as comma-separated strings |
| Lifecycle (`Vezerlo/`, `Schumix.cpp`, `Shared/Singleton.h`) | the singletons, `m_running`, `m_crash` | constructor, `Reload`, `Leallas`, signal handlers, destructor | objects are deleted while threads run in them |
| Console (`Console/`) | - | reads lines and calls the operations above | a second thread that commands everything |
| MySQL (`Shared/Database`) | one connection | `Query`, `Execute` | one connection, many threads, no lock |
| Calculator (`Calculator/`) | the global arrays `q` and `sk` with their indices | `getNextToken`, `makepolishform`, `calculate` | `put` and `get` test nothing; a parser whose grouping no test covers |
| Configuration, logging, hashes, remote access | - | - | read once at start; remote access is never instantiated |

Threads of the bot: `main` (waits in `Vezerlo`'s constructor), the console, the session (`IRCSession::Run`,
which also runs all handlers and commands), the reconnect thread, a `SocketMgr` for each connection, and one
thread for each repository. Console, session and `SocketMgr` are `ThreadContext`s in the thread pool; the
others are created directly.

How the components meet: every thread that has something to say calls `IRCSession::WriteLine`, whose lines
pass through `Socket::SendLine` and the `SocketMgr` thread to the server; the session's thread reads the
server's lines, runs the handler of their opcode and the command in them, and these change the tables, the
copies of the tables in the session, and the flags of the pollers; the pollers write lines; the console calls
the commands' operations from its own thread. The only shared state without a lock of its own is what the
table above calls hard.

What makes each part correct, in a sentence: the pool starts a task once and never touches a freed thread; the
send queue neither loses, doubles nor reorders lines and keeps the flood limit; a poller announces a revision
once, under its own title, and stops when told; the session is in the channels of its table, in no other, and
its copies say what the table says; a connection that is up is served and registered, under a nick the bot
knows, and its end is noticed; the calculator's answer is what the text means; a shutdown ends the process and
the uptime is saved however it ends.

## Modules

| Module | Models | Composition |
|---|---|---|
| `TaskExecution` | the promise of the pool: a task is submitted, started once, finished | abstract |
| `ThreadPool` | `CThreadPool`, `thread_proc`, `ThreadController` in both builds | implements `TaskExecution` (`INSTANCE ... WITH taskState <- taskState`, defined from the history) |
| `ThreadPoolProofs` | theorems about `ThreadPool` | |
| `SendQueue` | `WriteLine`, `SendLine`, `UpdateQueue`, the sending of `SocketMgr` | |
| `SendQueueProofs` | theorems about `SendQueue` | |
| `FeedPoller` | `SvnInfo`, `GitInfo`, `HgInfo` and the commands that rule them | |
| `FeedPollerProofs` | theorems about `FeedPoller` | |
| `Channels` | the table `channel`, its two copies, JOIN and PART and their answers, kick, the bot's nick, the commands `funkcio`, `channel`, `join`, `left`, `nick` | |
| `ChannelsProofs` | theorems about `Channels` | |
| `Connection` | `Connect`, `Disconnect`, `SocketMgr`, `IRCSession::Run`, `ReConnect`, the registration and its nicks, the console's commands | its `outBuf` stands for the whole of `SendQueue`'s pipeline |
| `ConnectionProofs` | theorems about `Connection` | |
| `Calculator` | `CalcLexer`, `TokenQueue`, `TokenStack`, `makepolishform`, `calculate` | |
| `CalculatorProofs` | theorems about `Calculator` | |
| `Lifecycle` | `Vezerlo`, `Singleton`, signal and crash handlers, and the threads as far as they run in objects that come and go | a poller is here only its object and its end; `FeedPoller` has the rest |
| `LifecycleProofs` | the type theorem of `Lifecycle`, and that singletons exist | |
| `LifecycleSafety` | theorems about the safety of `Lifecycle` | extends `LifecycleProofs` |
| `MC...` | model values, symmetry, inputs | extend the module of the same name |

An operator marked `Faulty:` is the form a plausible bug would give the definition that follows it; the
property named beside it is then violated. No specification uses them.

### ThreadPool

A critical section of `_mutex` is one action; code outside of it is split where another thread can step in.
`pc[t]` is the place of a thread in `thread_proc`: `TakeTask` tests `ExecutionTarget` and enters `Run()`,
`FinishTask` leaves it (and deletes what `ExecutionTarget` points to *then*), `ThreadExit` returns the thread to
the free set or lets it take an exit ticket, `Suspend` waits. `Resume` is a signal (Linux: lost unless the
thread waits already) or a semaphore post (Mac: kept), by the constant `Remembered`. `Shutdown()` has its locks
commented out, so it is five actions, of which `ShutdownCount` and `ShutdownAdd` are one unlocked `+=`.
`Startup` and `IntegrityCheck` are not called by the bot; they are enabled by `Maintained`, as the header's
comments ask for. `stuck` is the state in which `IntegrityCheck` waits for the mutex it holds.

### SendQueue

`holder` is `IRCSession::m_mutex`, which covers `SendLine` and not `UpdateQueue`; lines are numbered in the order
in which they get it. `m_sendCount++` is a read and a write; `UpdateQueue` is the test of the clock, the move of
the lines and `m_sendCount = c`; `SocketMgr` sends a part of `m_outBuf` and erases it in two steps, without the
buffer's mutex. `torn` is set where two threads touch one buffer at once, and the model follows the damage that
loses an append, a push or an erase; what such undefined behaviour may do beyond that is not followed, and the
properties say so (`~torn`). Empty texts return with the mutex locked (`ReturnLocked`).

### FeedPoller

The three classes are the same code; `OneFetch` tells `SvnInfo` (the title holds the revision) from the other two
(revision and title are two requests). A thread's round is

    Poll (m_running) -> Ask (status) -> Kiiras (the mutex, the revision) -> titleUrl -> authorUrl
      -> ReadChannels -> SendTo for each channel, a second apart -> Sent (the mutex is released)

and commands, commits and other threads come between any two of these steps. So a thread that is past the tests of
`m_running` and of the class's status makes its round whatever is said to it, and a round that has read the list of
channels goes on with that list: after `svn del` has emptied the row, the revision the round is at is still announced.
`EmptiedRowIsMute` allows that one (`emptied` remembers `a_rev` at the time of the deletion) and no later one. The
channels of a row are a set; `SendTo` takes them in any order, the row's among them. A command that waits
(`Sleep(2000)` of a reload) blocks only the session's thread, which runs the commands. `StopThread` starts a thread,
as the code does.

### Channels

Everything runs in the session's thread, so an action is a whole handler or command, with its queries, its
reloads and its lines. The server is external: `joined` is its view, at the place of its stream the session has
reached; `out` holds the lines of the bot it has not answered by then, in bursts: the JOINs of one loop over
`m_ChannelLista` are answered in any order, as the loop's order is the map's and nothing depends on it.

| State | Code |
|---|---|
| `channel`, `nextId` | the table `channel` and its `auto_increment` |
| `schumix` | `funkcio_status` of the table `schumix` |
| `lista`, `cache` | `m_ChannelLista`, `m_ChannelFunkcio` |
| `connState`, `hAktivitas`, `useHostServ` | `m_ConnState`, `HAktivitas`, `m_UseHostServ` |
| `privmsg` | `m_ChannelPrivmsg` |
| `nick` | `m_NickTarolo`, set by every change before the server has said anything |
| `called` | the nick the server knows |
| `away`, `asked`, `asks`, `had` | history: why the bot is out of a channel, channels given to `join`, requests not yet reported, what `m_NickTarolo` has been |

`HandleKick` compares who was kicked with `m_NickTarolo`. While the server knows the bot by another nick (`nick` was
given and not answered, or refused with a numeric that has no handler), a kick of the bot is not recognised: no
rejoin follows, and the channel is `away` as `"unseen"`, which `NoneForgotten` names; the kick of somebody who has that
nick is taken for the bot's own. `m_ChannelPrivmsg` is one slot. An accepted JOIN does not clear it, so the refusal of
a later rejoin is told where the granted request was made; and a slot without a place holds the nick the bot had when
it was set. `ReportsAreAsked` says what is left: no place is told of more refusals than it made requests.

A name has a spelling and, through `Fold`, the channel it means: MySQL's `WHERE szoba =` and the server compare
without case, the maps of the session with `==`. The list of functions is a partial function (the order of its
entries is left out), rows are answered in the order of their insertion, channel names hold no dot, and a
password is one of a small set. Who may give a command is the guard `HandlePrivmsg` of a command that is
accepted; the levels of rights are not modelled. A JOIN of the bot under a nick it does not take for its own would be
handled as a stranger's; what that handler does (greetings, logs) is not modelled.

### Connection

| State | Code |
|---|---|
| `place`, `command`, `copy` | where session, console and reconnect thread are; the line typed; the `m_NickTarolo` a thread has read |
| `m_fd`, `pSocketMgr` | the fields of `Socket` |
| `desc` | the process's descriptors: standard input, a connection, or nothing |
| `mgr`, `holds` | each `SocketMgr` thread, and those with the socket in `m_sockets` |
| `outBuf`, `inBuf` | `m_outBuf` with the queue behind it, `m_inBuf` |
| `connState`, `m_NickTarolo` | the fields of `IRCSession` |
| `srv`, `taken` | the server's side of each connection, the nicks of others |
| `crossed`, `clobbered`, `overtaken`, `crashed` | history: races whose consequences the model does not follow |

`Connect` is `ConnectOpen` (a descriptor, the least that is free, as in the kernel) and `Establish` (a new
`SocketMgr` that is given the socket); `Disconnect` is `DisconnectClose` and `DisconnectRemove`, because other
threads may run between the two. A `SocketMgr`'s round is `Write` or `Read`, and after a failure `Drop`. The
session's loop is `Greet`, `HasLine`, `GetLine`, `Ping`: `HasLine` and `GetLine` are two critical sections.
The server refuses a nick that is taken with 433, whose handler goes on to the next nick, and one of `Erroneous`
with 432, for which there is no handler: `HandleNick` has set `m_NickTarolo` by then, which stays wrong for good, and
a bot that has not registered yet repeats that nick to no answer. `NickAgrees` and `Registers` except just these nicks.
`m_fd = NULL` is descriptor 0, which is standard input until the console's thread has been closed out of it; the
model keeps that. A connection is *closed* (the server says so) or *lost* (nobody does).

### Calculator

One action for each branch of the loops of `makepolishform` and `calculate`. `q`, `inptr`, `outptr` and `sk`, `top`
are the arrays and indices of `TokenQueue` and `TokenStack`. A number is the way it is written, its value what the
lexer makes of it (`roman_to_f`, `string_to_f`, `BehindC` for `atof(&c)`, which reads what lies behind `c`). The
value of an operation is its tree, so that two groupings never agree by chance. `Expression` says which texts mean
something (operands and operators in turn, maybe a sign in front of all, matched parentheses, literals the lexer has
one value for) and `Reading` which tree they stand for: the root is the last of the loosest operators outside of all
parentheses (`Rank`, independent of the code's `getpriority`). It is a recursive function on the length of the part
that is read, and knows neither stack nor queue. An input is a text with its tree, or without one when it means
nothing; `CalculatorAssumption` demands that the tree is the `Reading`. `MCCalculator` prints its texts from trees by
rules of its own, so TLC, which evaluates the assumption, compares `Reading` with a second definition.

What is said is not the tree alone: `d-cast_int(d) < 0.00000049` decides between `%d` and `%f`, and is also true of
every negative fraction, so that `(10-11)/2` is answered 0. `CutOff` gives the sign of that difference for a tree; the
proofs hold for every such operator, `MCCutOff` computes it with exact fractions. `AnswerIsExpected` claims the digits
of positive fractions only. The rounding of `double` and of `%f` is not modelled, nor what `cast_int` makes of a number
no `int` holds.

A `)` without a `(` takes the index of the stack below 0, once for each, and the text may end well or not from there:
numbers still go to the queue, `calculate` starts with a new stack. `GoAstray` is the step after which the bot does
what nobody can tell: it copies a token from before the array, or has put one there. So `TypeOK` claims the upper ends
of the arrays only, and `NoUnderflow` says which texts leave the lower one alone.

### Lifecycle

| State | Code |
|---|---|
| `ptr` | `m_SvnInfo`, `m_GitInfo`, `m_HgInfo`, `m_Console`, `m_IRCSession` of `Vezerlo` |
| `mSingleton`, `made`, `alive` | the static pointer of each class, its objects, those not deleted |
| `m_crash`, `m_running` | the fields of `Vezerlo` |
| `todo` | per thread the operations of what it has begun: `Leallas`, `Reload`, a handler, constructor, destructor |
| `told`, `polling`, `inside` | `m_running[id]` of the pollers, their threads, the object a thread runs in (0 when `Run()` has not begun or has returned) |
| `connected` | `pSocketMgr` was ever set |
| `held` | `IRCSession::m_mutex` is locked for good: an empty text returned with it, or a thread crashed inside `SendChatMessage` |
| `active`, `torn` | `m_activeThreads`; the threads inside `Shutdown()`'s loop over it while it changed |
| `faulted`, `hooked`, `process` | threads inside `segfault_handler`, `_HookSignals`, the process |
| `saved`, `undefined` | history: the row in `uptime`; in which phase, or from which cause, something undefined happened first |

A procedure is the list of its operations, each of which touches one object; between two of them any other thread
may run. A `delete` of what is gone, or a call through a pointer that is not set, goes on, faults, or makes the
heap call `abort()`: the handler of `SIGSEGV` (with its test of `Vezerlo`'s singleton, its QUIT and its `Leallas`) and
that of `SIGABRT` are then modelled as the code has them. The threads of an `Info` class are started by its
constructor and end when they have seen `m_running`.

The session's `OnShutdown` calls `Socket::Disconnect`, which uses `pSocketMgr`. It is set by the first connection that
succeeds, so a shutdown, or a `disconnect` at the console, before that is undefined (`"offline"`). `Leallas` ends with
`ThreadPool.Shutdown()`: `visit` is a turn of its loop over `m_activeThreads`, which is not locked, and `empty` its
`clear()`; a thread that enters or leaves the set meanwhile, or a second `Shutdown()`, makes the next turn undefined
(`"torn"`). `SafeWhileRunning` excepts these two beside a reload. `say` and `bye` are `WriteLine`, which waits for
`m_mutex`, and so for ever when it is `held`: `ShutdownEnds` excepts that (`Stuck`: all who are shutting down wait for
the mutex, or `main` does, in the crash handler).

## Runs

All runs end within four minutes; the numbers are distinct states.

| Run | Question | Instance |
|---|---|---|
| `ThreadPool` (415 k) | Does a freed `Thread` stay in the pool, is a task overwritten or the wrong one deleted, whatever `ExecuteTask`, `thread_proc`, `Startup`, `IntegrityCheck` and the unlocked `Shutdown` do? | 3 threads, 3 tasks, condition variable |
| `ThreadPoolSpurious` (142 k) | Does the pool keep `TaskExecution`'s promise, also with spurious wake-ups? | the same, at most 2 eaten threads above zero |
| `ThreadPoolMac` (2.4 k) | With the semaphore, is every task that was handed over started? Is the eaten count minus the number of active threads? | 3 threads, 3 tasks, fair threads |
| `ThreadPoolLinux` | Is it with the condition variable? **No**: a lost signal leaves a task waiting for ever | the same |
| `SendQueue` (207 k) | Is a line lost, doubled or reordered, is the limit kept, with every overlap of the writers, `UpdateQueue` and `SocketMgr`; is every accepted line sent? | 2 writers, 4 lines, 1 line a second, empty texts, a connection that breaks |
| `FeedPoller` (297 k) | Does a channel hear of a revision twice, late, or under the title of another; what can a row still announce that was emptied while a round was under way? | 1 repository, 3 threads, 2 revisions, 2 channels, all commands, failing requests |
| `FeedPollerLive` (139 k) | Does `stop` stop, and does every channel of a row hear of news while two repositories share a mutex? | 2 repositories, 3 threads, 2 revisions, 2 channels, `new` and `stop` |
| `Channels` (700 k) | Do the copies agree with the table, is a channel forgotten or kept after its removal, is a place told of more refusals than it made requests, does an edit change more than it names; what does a nick the bot is wrong about cost? | 3 spellings of 2 channels, one with a password; 2 nicks, 2 functions; rows 2, bursts 3, events 3 |
| `Connection` (263 k) | Is a connection that is up served and registered, does the bot know its nick, is the end of a connection noticed? | descriptors 0..2, 2 connections, 1 command, 1 break, host known or not, the first nick taken, one nick refused with 432 |
| `ConnectionReconnect` | Is a connection that ends made again? **No**: the reconnect thread waits for -1, and a broken connection leaves 0 | the same without commands |
| `Calculator` (29 k) | Do the arrays suffice, is nothing taken from an empty stack, and does the answer come from the tree the text stands for (`Reading`, and what it was printed from), with the digits of a positive fraction? | 886 texts of at most 9 tokens: up to 4 operands, 3 signs, redundant parentheses, literals of 4 bases, all texts of 3 lexemes |
| `Lifecycle` (745 k) | Is the uptime saved however the bot ends, does anything undefined happen but for the three causes, is a singleton what `Vezerlo` holds, does a shutdown end unless all wait for `m_mutex`? | 1 `Info` class and its `reload`, `connect` and `disconnect` at the console, 2 commands, signals or empty texts, 1 segmentation fault followed |

The two runs that answer *No* are findings: `PROJECT.json` quotes the line of the repository each one
contradicts. Three more disagreements were met and are not runs: two bursts of `LinesPerSecond` lines may fall
into one second of the clock although `schumix.conf` gives the limit "per second" (`Socket.cpp:44`); a reload may
leave two pollers of one repository although it reports a restart (`SvnInfo.cpp:185`); and a JOIN refused with 471
or 473 is not stored although a comment says that every cause is (`MessageHandler.cpp:55`).

### Why these bounds are enough

- Three threads: one that runs, one that returns and one that is taken meanwhile; three tasks, so that a thread
  is used again. `Reserve` 1 makes `Startup` and all three branches of `IntegrityCheck` possible. `EatenBound`
  ends the count that spurious wake-ups would raise without end.
- The flood limit 1 with four lines fills `m_sendQueue`, moves a round and lets a direct line meet a queued one;
  the limit enters the properties only through comparisons with the count, and `BurstLimit` and `PeriodLimit` are
  proved for every limit. `SendLine` is entered by one writer at a time, so a third would only wait.
- Two revisions allow a commit between any two of the requests of a round, and news behind a deleted row; three
  threads are the old, the new and the one that `stop` starts. Two channels give a place between two sends of a round.
- Two spellings of one channel are what tells `==` from MySQL's comparison, a channel with a password what tells
  a JOIN with the right one; `MaxId` 2 allows a second row of one channel, or of another, beside the first; two
  nicks make the one the server knows and the one the bot believes in differ.
  `MaxEvents` 3 is enough for a command, a kick or break and another command around any number of answers: every
  seeded fault is found within it. `MaxFlight` 3 leaves room for a PART between two bursts of JOINs.
- Two connections are an old one and the one made while its `SocketMgr` still runs; three descriptors hold both and
  standard input. One command and one break meet in every place of the other threads. The nicks are the three of
  the configuration and the five the code falls back to; the first is taken, so the rotation is used, and an operator
  may ask for it, for a free one and for one that is refused with 432. `Served` and `NickAgrees` are proved for any
  number of descriptors, connections, commands and breaks, and any nicks taken or refused.
- Four operands show every pair of neighbouring operators and the three ways a third can fall between them; the
  signs are one of each priority that groups differently. `MAXTOKENS` is the length of the longest text, so that
  one token too many leaves the array; the theorem is for every length.
- One `Info` class stands for three, which never meet: `Leallas`, `Reload` and the destructor go from one to the
  next. Two commands, signals or empty texts are what can race in two threads, with `main` and a poller beside them.
  `MaxFaults` 1 follows one segmentation fault into `segfault_handler` and a second one in the same thread.
  `reload all`, which adds the console's object to the list, is not in the run; the three safety theorems hold for
  every set of `Reloads` and of `Lines`.
- Symmetry (threads, tasks) is used by safety runs only. Deadlock is not checked where the bounds stop the
  model (`MaxEvents`, tasks and threads used up, revisions used up).

### Fairness

- `ThreadPool`: weak fairness of each thread's own steps: the operating system runs every thread. Not of
  `FinishTask` (a `Run()` may last for ever) and not of `ExecuteTask`.
- `SendQueue`: strong fairness of a writer inside `WriteLine`, because `boost::mutex` is free again and again and
  a waiting thread gets it in the end; weak fairness of `UpdateQueue`, `SocketMgr` and of time. Nothing is assumed
  of the writers' will to write.
- `FeedPoller`: strong fairness of a poller's steps: requests end (curl has no timeout, so this is an assumption
  about the network) and the mutex of the class is not withheld from one thread for ever; weak fairness of the
  end of a reload's sleep. Nothing is assumed of commits, commands or `funkcio`.
- `Connection`: weak fairness of the three threads and of each `SocketMgr`, as the operating system runs them.
  Nothing is assumed of the operator, the network or the server's wish to close.
- `Lifecycle`: weak fairness of all threads' steps together, `main`'s waking among them. The code justifies more (each
  thread is run), but since every list of operations ends and the bounds end the rest, this is enough.
- `Channels` and `Calculator` have no liveness property: whether the server answers is not the bot's, and the
  calculator is a loop over its text.

## Proofs

TLAPS proves, for every value of the constants that meets the named assumption of the module:

| Theorem | Argument |
|---|---|
| `ThreadPoolProofs!TypeCorrect`, `TaskRunsAtMostOnce` | `TaskInv`: at most one thread points to a task or runs it, only after the hand-over; `begun` counts exactly the entries. Inductive with spurious wake-ups and `Shutdown`, because `TakeTask` and `FinishTask` alone touch what it says |
| `PoolHoldsLiveThreads` (no spurious wake-ups) | `FreeInv`: a free thread that is past its `Suspend()` was marked `DeleteAfterExit`, so the thread that takes a ticket leaves the free set |
| `HandOverIsSafe` (the same) | with `ServeInv`: until `Shutdown()` nobody is marked and a free thread has no target |
| `DeletesOnlyWhatRan` (condition variable) | `DestroyInv`: no free thread is inside `Run()`, so the target of a running thread is what it runs |
| `PoolKeepsPromise` | refinement: each action is mapped to `Submit`, `Start`, `Finish` or a stutter of `TaskExecution`, from `TaskInv` |
| `EatenCountsActiveThreads` (no spurious wake-ups, no `Startup`) | the cardinality of the active set, from the same invariants |
| `SendQueueProofs!TypeCorrect` | by action |
| `BurstIsBounded` | `LockInv` (one thread inside `SendLine`) and `BurstInv`: the lines released and those that may still be released before `m_sendCount` is set again are at most `Cap + LinesPerSecond`; the unlocked `m_sendCount++` may lose at most what `seen` remembers |
| `FloodLimitHolds` | `PeriodInv`: without an overlap the same sum stays within `Cap` |
| `NoLineLostOrDoubled` | `LineInv`: what a send has still to erase is in `m_outBuf`, the line in hand was accepted. The pipeline (what was sent, the rest of `m_outBuf`, the queue) is kept as one sequence by `send()`, by the erase and by `UpdateQueue`'s move, since each cuts it at another place (`SuffixOfConcat`); only `AppendLine` and `QueueLine` add, and what they add is the line in hand |
| `LinesStayInOrder` | with `PeriodInv` and `QueueInv`: whenever a thread is about to append, the queue is empty, and while the queue is not empty the count is at the limit; so a new line, the greatest there is, always goes behind the others |
| `FeedPollerProofs!TypeCorrect` | `OwnInv`: a thread inside `Kiiras` has the mutex |
| `AnnouncedOnce`, `LostForGood` | `KnownInv`: what was announced or skipped is at most `a_rev[id]`. `NewsInv`: what a thread inside `Kiiras` is about to announce is `a_rev[id]` and greater than all of these; `a_rev` is written only with the mutex, so it stays what the thread has seen until the announcement |
| `TitleBelongs` | `TitleInv`: the title in hand is no older than the revision and no newer than the repository |
| `EmptyRowIsMute` | `MuteInv`: an emptied row stays empty (only `AddChannel` adds, and not to an empty row), `a_rev` has not gone back, and a thread that is sending for it has a revision no newer than at the deletion: the mutex is held from where `a_rev` is written to the last send, and with an empty row no round gets past `ReadChannels` |
| `ChannelsProofs!CopiesAgree` | `TableStep`: each step does one of five things to the table and its copies; an UPDATE that leaves names alone leaves the list right, one that leaves functions alone the cache, and every other change reads both again. `LeastIn` (a set of ids has a least one) is what makes `CHOOSE` usable |
| `NoStray` | `NetStep`: each step is idle, sends JOINs for wanted channels, sends one PART, answers a line or breaks; for each of the five kinds a lemma shows that a channel nobody wants keeps a PART after each of its JOINs (`LeavesFor`) |
| `NoneLeftOut` | `HomeStep`: a channel of the table whose home changes is among the JOINs that are sent, or has a reason, an unrecognised kick among them; an answer takes exactly one line from the stream. The steps about the nick (`NickStep`) take or add NICK lines only (`Renews`) |
| `ReportsHaveRequests` | inductive: a place in the slot has a request not yet reported. The steps that move the nick leave slot and requests alone and only add to `had`; those that set the slot to the nick set it to one of `had` |
| `EditIsLocal` | `CacheInv`: the cache was read for the present list of channels, or never; with `CopiesAgree` the list that is written back is the row's own. `UpdateReadBack` says what a query answers after an UPDATE of one spelling, whose rows may be of another |
| `ChannelsProofs!TypeCorrect` | the parts above put together |
| `CalculatorProofs!ArraysSuffice` | the type invariant itself is inductive, because it counts: tokens in the queue, on the stack and in hand, with the lexemes not read, never exceed `MAXTOKENS`. It claims the upper ends of the arrays, for texts whose parentheses do not match too |
| `NothingFromEmptyStack` | `DepthInv`: in a text whose parentheses match, the number of `(` on the stack, with the parenthesis in hand, is the number of `(` read less that of `)`; so a `)` in hand finds its `(`, and an operator never unloads one, as 100 is looser than every operator's priority (`ParenthesisStays`) |
| `AnswerIsTheTree` | `AnswerInv`: at every lexeme the stack holds, from the bottom up, parentheses and operators behind complete left operands, of which each binds tighter than the one below (`Stacked`); the queue, given to `calculate`, leaves the readings of these operands, and of the one above the stack, in cells one above the other (`EvaluatesTo`). An operator that is unloaded has both operands beside it and nothing looser in them, so it is the root of what they are together (`OperationReads`), and `calculate` will join the two cells (`OperatorReduces`); the sign in front of all finds one cell only and 0 for the other. The answer has the tree's digits if it is a positive fraction, for every `CutOff`. `Readings` satisfies its equation by `ReadingsUnfold`. Needs `DepthInv`: a `)` finds its `(`, and none is left at the end |
| `LifecycleProofs!SingletonsExist` | `TypeInv`: objects a pointer or an operation names were made; in a thread's list whoever makes an object (`new`) is followed by the operation that takes it (`assign`). A step ends the head of one list, begins a list the code has (`Fresh`) or changes nothing; only `New` and `Delete` touch `alive`, and both move `mSingleton` with it. Needs that the classes have different names (`LifecycleAssumption`) |
| `LifecycleSafety!UptimeAlwaysSaved` | `UptimeInv`: every list that is begun saves the uptime before it clears `m_crash`, ends the process, unhooks the signals or deletes the session (`Saving`, a property of the shapes that is kept when a list goes on). The one way round it is `SIGABRT` while there is no session, when `_OnSignal` does nothing: `abort()` comes from a second delete or a second singleton, and before there is a session `main` and the console never work on one part (`StartInv`) |
| `SingletonStaysCurrent` | `SingleInv`: while it runs and nothing undefined happened, a part has one object, which is what `ptr` and `mSingleton` hold, and nobody is half-way on it; or exactly one thread is between the delete and the assignment, and the part has no object or only the new one. Every list works on a part in the order delete, new, assign (`Orderly`), so a second thread on the same part would delete or make what the invariant says is not there, which is undefined |
| `SafeUntilShutdown` | `SafeInv`: until the shutdown, and if nothing is reloaded, `main` alone makes objects and nobody deletes one (`Steady`); a part is there, or `main` still has it to make and there is no session yet; the threads that were started run in objects that exist (`Seats`), those that go on in theirs are among them (`Stays`), and so are the pollers. A step then either is defined or is a `Disconnect` before a connection or a turn of a torn loop, which are two of the three exceptions (`StepExcused`); a reload is the third |
| `ConnectionProofs!TypeCorrect` | by action. `send()` hands the server all that is to be sent: what it holds after each line is a recursive function, shown to unfold (`TookUnfolds`) and then followed line by line (`TookSides`), both by the least line at which it would fail. `NextNick` stays in the rotation since a rotation of eight is cut at the first place of a nick |
| `SocketIsServed` | inductive with the types: only `Connect` gives the socket a connection, with its `SocketMgr`; every other action that writes `m_fd` writes 0 or a descriptor just made. Descriptor 0 is left out because the code takes it for "no descriptor": a socket given up without a `close` comes back to it when `m_fd` is set to 0 |
| `NickIsTheServers` | `NickInv`: while the connection is up, either somebody has to write NICK yet (`place`, `m_ConnState`), or a 433 or an operator's line that makes the session do so is on its way, or the last NICK to be sent is `m_NickTarolo`, or none is and the server has it, or it is one of `Erroneous` (`UnderWay`). A send of many lines keeps that (`SendTellsNick`, line by line: the last NICK is accepted or refused, and no later line changes it). Needs that a connection has one descriptor (`DescInv`), since the console may eat lines from descriptor 0; and the reconnect thread, which would handle lines beside the session, is out of it: it starts when descriptors run out, and from then on `m_fd` is 0 or -1 (`Exhausted`, which stays) |

The strengthened invariants were checked by TLC on the instances of the runs: `SaveInv`, `StartInv`, `SingleInv` and
`SafeInv` of `LifecycleSafety` hold in all 745 k states of the run `Lifecycle`, and in 3.4 million when `reload all` and
`reconnect` may be typed as well; `NickInv` and `DescInv` of `ConnectionProofs` in those of `Connection`, `OwnInv` and
`AllInv` of `FeedPollerProofs` in those of `FeedPoller`.
`AnswerInv` of `CalculatorProofs` says of its cells and places only that they exist and is not for TLC, which checks
the property and the assumption it rests on.
The proofs assume nothing beyond the named assumptions of the modules, which TLC evaluates.

Model-checked only: liveness (`TaskStarts`, `LinesAreSent`, `StopStops`, `NewsIsAnnounced`, `BreakIsNoticed`,
`Registers`, `ShutdownEnds`), which is out of the prover's reach. Every invariant and every action property of a
passing run is a theorem. Where an argument is an induction, as over the lines of a send or the parts of a text, a
least place that fails takes its place, and a recursive function is first shown to satisfy its equation.

## Not modelled

- Ranks (`modelista`, `AutoMode`, `ModeChannel`) and kick lists: single slots that match an answer of NickServ with
  the last request, a hazard `PROJECT.json` lists. While reading: `mode channel del` deletes `res[3]`, the channel,
  from the list of names (`OperatorCommandHandler.cpp:1843`), and the automatic kick takes the channel of the first
  row.
- Rights: which of the three levels may give a command, and the `admin` commands that change them.
- Highlights, whois, help texts and lookups on the web; log files; the parsing of titles; hashes, configuration and
  formatting, which no property is about.
- The MySQL connection several threads share without a lock: the damage is inside the client library.
- A refusal of a nick that depends on the time or on a channel (438, 437), which is handled no better than 432, and the
  bot's own JOIN under a nick it does not take for its own, which is handled as a stranger's.
- A title of fewer than five words, whose `substr(1)` throws in the poller's thread (`SvnInfo.cpp:498`): nothing catches
  it, and `abort()` ends the process; before there is a session without the row in `uptime`.
- In `Lifecycle`, the reconnect thread and its `Disconnect`; `Connection` has them.
- Remote access, `SocketServer` and `SendForcedLine`, which the bot never uses. Vendored code under `dep/`, which is
  nearly all of the repository's lines, is external.

## Plan

1. Ranks and kick lists, then the rights of the three levels.
2. The commands `svn`, `git`, `hg` class by class where they differ.
