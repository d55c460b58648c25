# TLA+ models and proofs for the apue3 programs

The repository holds the source code of *Advanced Programming in the UNIX
Environment* (`apue.3e/`) and worked solutions to its exercises (`ChapterNN/`).
Most of it is short demonstration programs. What this project models is the
part with logic of its own that is shared between processes, threads, signal
handlers or restarts: the record database, the print spooler, the library of
synchronisation helpers, the servers and the thread programs.

## 1. Inventory

| Component | State it keeps | Operations | What is hard about it |
|---|---|---|---|
| Record database, `db/db.c` | an index file (free-list head, hash table, index records) and a data file; per process a `DB` structure with the offsets it last read | `db_open`, `db_close`, `db_fetch`, `db_store`, `db_delete`, `db_rewind`, `db_nextrec` | processes share the files and coordinate only by `fcntl` record locks; a call is 5–15 separate reads and writes; offsets read early are used late; a process can be killed between any two |
| Print spooler daemon, `printer/printd.c` | spool directory (data and control files), job number file, in-memory job list, worker list, reread flag | accept a job (client thread), print a job (printer thread), recover the queue at start, SIGHUP, SIGTERM | four kinds of thread, a condition variable, timeouts on both sockets, restarts between any two file operations |
| Printer response parser, `printd.c` `printer_status`, `readmore` | a growing buffer and two cursors | parse the HTTP status, `Content-Length`, end of header, IPP status | the response can arrive in any split over reads |
| Print client, `printer/print.c`, `printer/util.c` | none | send header, send file, read response; timed reads | ends of messages are told by timeouts |
| Counting semaphores, `lib/semaph.c` | a System V semaphore set of three: value, process counter, creation lock | `sem_create`, `sem_open`, `sem_rm`, `sem_close`, `sem_op` | create and close race each other; `SEM_UNDO` adjusts after a crash |
| Parent/child synchronisation, `lib/tellwait.c`, `ipc1/tellwait.c` | a signal flag, a signal mask; or two pipes | `TELL_WAIT`, `TELL_PARENT`, `WAIT_PARENT`, `TELL_CHILD`, `WAIT_CHILD` | a signal may arrive before the wait |
| Reference-counted hash table, `threads/mutex2.c`, `mutex3.c` | hash chains, `f_count`, a global and a per-object mutex | `foo_alloc`, `foo_find`, `foo_hold`, `foo_rele` | lock order, and the recheck after a lock is dropped and retaken |
| Job queues, `threads/rwlock.c`, `Chapter11/figure_11.14.c`, `Chapter11/exercise_3.c` | a doubly linked list, a reader–writer lock, condition variables | insert, append, remove, find | readers and writers, wake-ups |
| Condition variables and barriers, `threads/condvar.c`, `threads/barrier.c`, `Chapter11/exercise_5.c` | a queue; a counter | produce/consume; wait at the barrier | lost and spurious wake-ups |
| Descriptor-passing open server, `ipc2/opend/` | client table, poll set | accept, request, close | a client table indexed in step with the poll set while entries come and go |
| Shared memory counter, `ipc1/devzero.c` with `tellwait` | a shared integer | alternate increments | strict alternation |
| `popen`/`pclose`, `lib/popen.c` | a table fd → child pid | `popen`, `pclose` | children inherit the other pipes |
| Single-instance daemon, `daemons/single.c`, `reread.c` | a locked pid file, reread flag | start, SIGHUP | two starts at once |
| Two-way copy and async I/O, `advio/rot13c2.c.in` | a pool of control blocks | read, translate, write | completions out of order |
| Timers, `threadctl/timeout.c`, `lib/sleep.c`, `signals/` | alarms, masks | `timeout`, `sleep` | alarm races |
| Socket servers, `sockets/`, `Chapter16/` | connections, children | accept, serve by a command | children that keep or outlive sockets; SIGCHLD, SIGIO |
| Pipes, coprocesses, message helpers, `ipc1/`, `ipc2/pollmsg.c`, chapters 15 and 17 | pipes, queues | copy, answer, poll | ends left open; a limit reached |
| Terminals, `lib/ttymodes.c`, `pty/` | saved mode; two copying processes | change, restore; stop each other | partial success, signals, the order of ends |
| Memory streams and `dup2`, `exercises/fmemopen.c`, `Chapter03/my_dup2.c` | a buffer; a stack of descriptors | read, write, seek; dup | one byte or element at a limit |
| Remaining examples and solutions | nothing shared | one-shot programs | demonstrations; nothing to interleave |

`PROJECT.json` lists each component with its sources and status, and every
hazard at its source line.

## 2. The record database

### 2.1 How the module corresponds to the code

`Db.tla` models every call that reads or changes the database; opening and
closing it is the subject of `DbOpen.tla` (section 5). One action is one internal routine that performs file or lock
I/O (`_db_readptr`, `_db_readidx`, `_db_writeptr`, the `lseek` and the `writev`
of an append separately, each `lock_reg`), so any interleaving of two processes
at system-call granularity is explored as far as the locks allow it.

| In the module | In the code |
|---|---|
| `idx`, `dat` | the index and the data file; a file offset is the ordinal of the record at that offset |
| `free`, `chain` | the pointer at `FREE_OFF` and the hash table |
| `held` | the `fcntl` locks of a process: one byte per hash chain, the byte at `FREE_OFF`, the end of the index file, the data file |
| `db[p]` | the `DB` structure and the locals of the call in progress |
| `pos[p]` | the file offset of `idxfd`, kept only where it matters: for processes that call `db_nextrec` |
| `pc[p]` | the next internal routine |

Lengths are kept because they decide reuse (`FreeFits`) and in-place overwrite.
Key comparison, ASCII formatting of pointers and the hash function are
abstracted: keys are model values and `Hash` is any function to chains.
`PtrMax` is `PTR_MAX`: an append beyond it makes `_db_writeptr` quit after the
record has been written, which `LinkTooFar` models. `Kill` is an external
SIGKILL between two steps of a call, bounded by `MaxKills`. I/O errors
(`err_dump`) are not injected: the code aborts on them, which is a kill.

`DbMap.tla` is the abstract specification: a map from keys to data on which
every call acts once, atomically, between its invocation and its return.

### 2.2 Runs

All runs use two processes. Two processes are enough for every pairwise race,
and the proofs below cover any number. `PtrMax` 2 caps the files: the free list
is used, records are reused, and an append beyond it happens.

| Run | Instance | Question |
|---|---|---|
| `db_map` | both processes fetch, store and delete; three keys, two of them on one chain, two data lengths | Do calls act once, atomically, on a map (`ImplementsMap`)? Do the chains and the free list, which they share, end, keep their own keys and stay disjoint (`ListsSound`), with no record on none of them (`NoRecordLeaks`)? A chain of two has a record with a predecessor to unlink; the two lengths make overwriting in place, delete-and-append and reuse happen. |
| `db_kill` | one process stores and deletes, the other fetches, stores, scans; one kill at any step; every store flag, an unknown one included | What `db_fetch` and `db_nextrec` see (`ReadersSeeWholeRecords`: the record of their key, and blanks only after a kill), what the locks guarantee (`Serialised`, `LockOrder`, `NotAllBlocked`), and what no kill can break (`TypeOK`, `PointersValid`, `DataNotShared`, `RecordsKeepShape`). |
| `db_nextrec_after_fetch` | both processes fetch and scan | Violation: `db_nextrec` relies on a file offset every other call moves. |

Deadlock is not checked in these runs: between calls a process may do nothing
for ever, and processes that quit stop. `NotAllBlocked` states the real
question: as long as a process is in a call, one of them can step.

What a kill may break is left out on purpose: killed inside `_db_dodelete`
between the write of the index record and that of its predecessor, a process
leaves a chain that runs on into the free list, and killed before it blanks the
index record, a live key with blank data. `ListsSound`, `NoRecordLeaks` and
`ImplementsMap` are therefore claimed only without kills.

### 2.3 Proofs

`DbProof.tla` proves for any number of processes, keys, chains and kills, from
the assumption `DbAssumption` on the constants alone:

* `TypeCorrect` (`TypeOK`), `PointersValidAlways`, `SerialisedAlways`,
  `LockOrderAlways`, `ShapeKeptAlways` (`RecordsKeepShape`),
  `DataNotSharedAlways`.

The inductive invariant comes in layers. `TInv` types the files and says which
kept offsets are in them at each place of the code; it is inductive because no
routine ever shortens a file. `LInv` says a process holds exactly the locks its
place implies and no two clash; `Serialised` and `LockOrder` follow from it
without induction. `EInv` (the end of file found by `lseek` is still the end at
`writev`) needs `Serialised`; `FInv` (a record taken off the free list keeps the
lengths that were compared) and `RecordsKeepShape` need each other and `EInv`;
`DInv` counts data appended but not yet indexed, without which "not shared" is
not inductive.

`DbListProof.tla` proves, for finitely many processes and no kills
(`MaxKills = 0`, see the end of section 2.2), any number of keys, chains and records:

* `ListsAlwaysSound` (`ListsSound`), `RecordsNeverLeak` (`NoRecordLeaks`),
  `ReadersAlwaysSeeWholeRecords` (`ReadersSeeWholeRecords`).

Its invariant `SInv` does not follow pointers. It says that there are stacks
`s[h]` with lengths `c[h]`, one for each hash chain and one for the free list,
such that the pointers in the file are those of the stacks: `s[h][c[h]]` is what
the head of list `h` points to, `s[h][r - 1]` what record `s[h][r]` points to, and
`s[h][0]` is the null pointer. No record is on two stacks or twice on one;
chains hold live records of their own keys, no key twice, the free list blank
ones; every other record is in the hands of one `db_store` or beyond `PtrMax`.
A record that `_db_dodelete` has blanked and not yet unlinked already points to
the free list; it still counts for its chain, and the conjuncts about links and
keys leave it out. For every place of the code, `ProcOK` says what a process knows of the
stacks it has locked: its position while it walks, that what it found is still
there, that its key is absent, that the head it read is still the head. A step is
a push, a removal, or leaves the stacks alone, and the new stacks are the
witnesses. That a walk along the pointers visits exactly the stack, which is
what `ListsSound` and `NoRecordLeaks` speak of, is shown at the end, once, by
induction over the natural numbers. `RInv` (whole data behind every live key,
and what a process has read of a record is still so) gives the third theorem.

`DbMapProof.tla` proves `CallsActOnAMap` (`ImplementsMap`) on top of these, under
the same assumptions. The refinement mapping walks the pointers to find the value
of a key (`DiskValue`), and a `db_store` that replaces a record deletes it and
appends another, so the proof first removes the walk: the *live record* of a key
(`Live`) is the index record that has the key, can be pointed to and is not still
waiting to be linked; the stacks show that there is at most one and that the walk
ends there (`LiveValue`), through a record being unlinked too. From then on
(`KvOK`, `Knows`) only the live record and the process that has begun to delete or
replace it (`Chg`) matter. Two more invariants are needed: `CInv`, what the
arguments, `found` and the result of a call are at each place, and `VInv`, that a
record about to be linked has the data of the call. Each step is then one of five:

* a call begins: `CallMap`;
* it takes effect: where a search fails or meets `DB_INSERT`, where `db_fetch`
  reads the data, with the first write of `_db_dodelete`, with the write in place,
  or with the link of an inserted record (`FindMap`, `DelWriteDatMap`,
  `OverwriteMap`, `LinkChainMap`);
* it returns: `EndMap`;
* the process quits past `PTR_MAX`: a replace has then become a delete
  (`LinkTooFarMap`), or inside `db_nextrec` (`EndMap`);
* the map does not change: every other step. Other keys never change
  (`OtherKeys`), and of its own key a process keeps the value (`KvQuiet`), also
  where a delete or a replace ends and its value is again that of the files.

Left to TLC: `NotAllBlocked` (`ENABLED`).

## 3. The print spooler

### 3.1 `Printd.tla`: the daemon and its clients

| In the module | In the code |
|---|---|
| `jobfile`, `data`, `reqs` | `JOBFILE`, the files under `DATADIR` and `REQDIR`; what survives a stop. The job file is the length of its text and the number the text spells. A data file is the document and how many `IOBUFSZ` pieces of it are written; a control file exists empty between `creat` and `write` |
| `main`, `scan`, `nextjob`, `queue`, `reread`, `printer` | the daemon's memory: where `main` is, what `build_qonstart` has still to read, the job list, the flag of SIGHUP, the printer's address (as the version of the configuration it comes from) |
| `thr[c]` | the client thread of `c`: the next system call and its job number |
| `prn` | the printer thread: the next step, the job in hand, the file as it was when opened |
| `cli`, `printed`, `conf`, `hupped` | the print commands, what came out of the printer, the configuration file and its version at the last SIGHUP |
| `used` | how often each bounded fault has happened |

One action is one system call, or one stretch under `joblock`, `configlock` or
`workerlock`. `Stop` is SIGTERM, an `exit` after an error, or a crash: the
memory goes, the files stay, and `Start` begins again. Two merges: the two
`unlink` calls of `build_qonstart` for a control file without a data file are
one action, and so are `connect`, the headers and the document in `Send` (the
printer sees nothing before the whole request). `SendFails` and `StatusLost`
are the failures before and after the printer has taken the document.

`update_jobno` writes the digits of `nextjob` over the job file and does not
truncate it (`printd.c` 240-249), so a shorter number keeps the tail of a longer
one: after the wrap 3 over 2147483647 is read as 3147483647. The comment at line
235 says as much. `init_request` puts what it reads into an `int32_t` (`Int32`),
so a daemon may start at any number, negative ones included; within one run
`get_newjobno` starts again at 1 after the largest number, and after one that is
not positive. Nothing in the model assumes that the file is right; what `print_restart` checks
holds whatever number a daemon starts from.

Parameters that matter: `JobFiles` is what the job file may hold at first;
`Prompt` says that no client pauses longer than the
timeout that ends a document; `Late` says that clients connect after a restart
too. `AckedNotLost` is checked with `Prompt` and without `Late`, because with
late clients it is false, for the reason `print_job_number` shows: job numbers
are saved only when the printer thread takes a job, so after a restart a new
client gets the number, and overwrites the files, of a job still in the spool.
Without `Prompt` the end of a document is whatever the pause makes it.

| Run | What it shows |
|---|---|
| `print_restart` | Two clients, two stops, one failing system call, one failed exchange, one edited configuration: an acknowledged document is printed or complete in the spool (`AckedNotLost`); the job list and the thread never hold a job twice, nor one without its files (`JobsOwnTheirFiles`); a document is printed twice only after a lost answer or a stop (`PrintedAgainForAReason`); a refused client leaves no files (`RefusedLeavesNothing`); a SIGHUP is never lost (`RereadNotLost`). |
| `print_serve` | No stop, clients that pause or go: every written control file is eventually dealt with (`JobsLeaveSpool`), so no wake-up is lost between `add_job` and the condition wait. |
| `print_job_number` | Violation of `JobIdsFresh`, above. |

Fairness (`print_serve` only): weak fairness of the two steps of
`build_qonstart`, of the printer thread and of each client thread. They are
threads that are runnable whenever their step is enabled, and the scheduler runs
every runnable thread; there is none on clients, faults, signals or starts.
Failing exchanges are bounded (`MaxDefer`): a printer that always fails keeps
its job for ever, as it should.

Bounds: two clients and one piece per document suffice for every race between
two threads over job numbers, files and the list; two stops are needed to stop
during recovery. Job numbers run to `MaxJob` 3, in digits of base 3 (`Radix`), so that
the largest number, "10", is longer than the ones it wraps to. `print_restart`
starts from an empty job file, from the largest number and from the
file with a tail, "20", that is read as a negative number (`AnyFile`);
`print_serve` starts at the largest number (`AtWrap`) and `print_job_number`
from an empty file, so that the wrap plays no part in what it finds.

### 3.2 `PrintdWorkers.tla`: the worker list

`add_worker`, `client_cleanup` and `kill_workers` on the linked list. Using a
freed node is undefined, so the model records it and stops there.
`print_kill_workers` is a violation: `add_worker` never makes the new node the
head, so SIGTERM reaches the first worker only.

### 3.3 `PrinterStatus.tla`: the printer's response

`printer_status` and `readmore` over a response given as byte classes; the
`Content-Length` header is one class, so a read is never cut inside it.
The run `programs` (section 5) checks that the verdict is right (`StatusRight`,
part of `AnswersRight`) and that the function returns (`WorkEnds`, under weak
fairness of its own steps: it is one thread that runs whenever it can) for responses that come in one
read or are cut where the code expects it. `print_status_hang` cuts them anywhere
and finds the loop that never ends (`Returns`). Read but not stated as properties: `readmore` reads at the
cursor, not at the end of the data, and the caller adds the offset it returns to
`datsz`; an informational response that shares a read with the final one takes
it along.

### 3.4 Proofs about the daemon

`PrintdProof.tla` proves, for any number of clients, pieces, stops, failures,
deferrals and edits of the configuration, from `PrintdAssumption`:
`SpoolerTypeCorrect` (`TypeOK`: job numbers are `int32_t`, whatever the job file
has been left with and however it is read back), `RereadNeverLost` (`RereadNotLost`) and
`RefusedAlwaysClean` (`RefusedLeavesNothing`); and, when in addition no job
number is given out twice, `JobsAlwaysOwnTheirFiles` (`JobsOwnTheirFiles`),
`PrintedAgainOnlyForAReason` (`PrintedAgainForAReason`) and, with `Prompt`,
`AckedNeverLost` (`AckedNotLost`).

"Not given out twice" is `NoReuse`: all clients come before the first stop
(`~Late`) and there are at most `MaxJob` of them. The code does not guarantee it
and the three theorems are false without it, for the reason `print_job_number`
shows; in the code `MaxJob` is the largest `int32_t`, so the second half
only says that the counter does not come round to a job still in the spool.
They need nothing of the job file: the daemon may start from any number.

The invariant has layers. `TInv`: types, which thread has a number and which
step has a job in hand. `RefuseInv`: before the first stop, each file belongs to
the client thread that has its number, at a place where it has made it; the
threads delete what they made on each error path. `SpoolInv` adds that numbers
are distinct (`NumInv`: before the first stop they are the first ones after the
number the job file gave, in turn, `NumAt` and `GivenFrom`, which is why the count of
clients enters), that each file bears the number of its
client (`FileInv`) and that jobs in memory are in the spool once each
(`QueueInv`). `AckInv` adds that an acknowledged document is whole until it has
been printed, `CountInv` that a document that has been printed `1 + lost + stops` times is
neither in the queue nor in what is still to be recovered.

## 4. The small components

`MCLibrary.tla` extends four independent components and picks one in its
initial state, so one run (`library`) checks them all. They share nothing and
each keeps its own state space; what is proved of each is proved of its own
specification (`TellSpec`, `QueueSpec`, ...), which names no other.

| Module | Code | Instance | Properties |
|---|---|---|---|
| `Semaph` | `lib/semaph.c` on System V semaphores | 3 processes, 3 sets, 2 kills, `BIGCOUNT` 4 | `ValuesAccounted` (`CounterCounts`, `LockOwned`, `UnitsConserved`), `InitialisedOnce`, `CreatorKeepsSet` |
| `FooMutex2` | `threads/mutex2.c` | 2 threads, 3 objects on one chain, 2 ids, 2 references each | `NoUseAfterFree`, `CountsReferences`, `FreedAlone`, `LocksInOrder`, `ImplementsMutex3` |
| `FooMutex3` | `threads/mutex3.c` | | the abstract specification of `FooMutex2` |
| `JobQueue` | `threads/rwlock.c` with the condition variable of `Chapter11/exercise_3.c` | 4 workers, spurious wake-ups | `QueueServes` (`QueueWhole`, `NoLostWakeup`) |
| `TellWait` | `lib/tellwait.c` and `ipc1/tellwait.c` under the alternating loop of `ipc1/devzero.c` and the chapter solutions | signals: 1 round; pipes: 3 rounds | `TurnsKept` (`InTurn`, `NobodyForgotten`) |

* **Semaph.** One action is one `semget`, `semop` or `semctl`. The kernel's
  behaviour (all-or-nothing `semop`, `SEM_UNDO` at exit, `SETVAL` clearing
  adjustments, `EIDRM` and `EINVAL` after removal) is external and modelled from
  its use. Users take one unit with `sem_wait` and give it back with
  `sem_signal`. `BIGCOUNT` exceeds the number of processes: the code assumes it
  silently. `CreatorKeepsSet` holds for processes that use `sem_create`;
  `sem_open_race` shows that `sem_open`, which takes no lock, can lose its set to
  a concurrent last `sem_close`.
* **FooMutex2.** One action is what a thread does from one lock operation to the
  next. `Slots` are the variables a caller keeps references in, and `Give` passes
  one on; a failing `malloc` or `pthread_mutex_init` changes nothing. A chain is
  followed with `On`, the least set that has the head and its successors, which
  needs no recursion and serves the proofs. The refinement maps the chains to
  sequences and a dying object to count 0.
* **JobQueue.** Job `j` is made for worker `j`; insertions alternate between the
  two ends as in `main`, so removals happen at head, tail and in the middle.
  `pthread_cond_wait` may return at any time (`Spurious`).
* **TellWait.** With signals, the first wait restores the mask saved by
  `TELL_WAIT` and leaves the signals unblocked; a later one can arrive between
  the test of `sigflag` and `sigsuspend`. One round is safe, which the run shows;
  with two (`Loops` 2 for signals) both processes can end up asleep, and the
  programs that call these functions in a loop are exposed to it. The pipe
  version has no such limit.

Deadlock is not checked: every component may rightly stop (callers that make no
further call, processes that have exited).

### Proofs about `mutex2.c`

The last part of `LibraryProof.tla` proves, from `FooAssumption` on the constants
alone and so for any number of threads, objects, ids, chains and references: `FooTypeCorrect`,
`NeverUsedAfterFree`, `AlwaysCountsReferences`, `AlwaysFreedAlone` and
`LocksAlwaysInOrder`. None of these is inductive alone. The invariant `Inv` has
five parts: types (`TInv`); who has which lock at which place (`LInv`); what a
thread at a place knows of its object (`PInv`: it is new, or the thread has a
reference to it, or it found it under `hashlock`, or it is the only one there);
references are to objects in the table and the counts agree (`RInv`); and the
chains stay inside the table, with one predecessor per object (`CInv`). The
heart is `ReleRecheckInv`: when the count is still 1 after the recheck the only
reference is the thread's own, so another thread at the object could only be in
`foo_find`, which `hashlock` excludes. The refinement of `mutex3.c` stays with
TLC: it turns chains into sequences, which needs induction.

### Proofs about `semaph.c`

The third part of `LibraryProof.tla` proves for any number of processes, sets and
kills, from `SemaphConstants`: `SemaphoresAccounted` (`ValuesAccounted`),
`NeverInitialisedTwice` (`InitialisedOnce`) and `CreatorAlwaysKeepsSet`
(`CreatorKeepsSet`). The invariant `SInv` ties a process's undo adjustments to
its place: it has one for the counter exactly while it has the semaphore open,
one for the lock exactly between locking and unlocking, and one for each unit it
has taken. So a kill at any call returns exactly what was held, and the three
semaphores are the initial values minus the number of processes that have each
kind; the lock then excludes a second creator between the test of the counter
and its initialisation, and a `sem_close` from removing a set another creator
has counted itself in. Cardinalities change by one because one process moves.

### Proofs about `rwlock.c`

The second part of `LibraryProof.tla` proves `QueueAlwaysServes` (`QueueServes`)
for any number of jobs and workers. `main` inserts even jobs at the head and
appends odd ones, so every job has a place in the order that never changes
(`Place`: 0, 1, -2, 3, -4, ...) while others come and go around it. `Linked` says
that `next` leads from each job on the queue to the one at the next place and
`prev` the other way round, and that head and tail are at the least and the
greatest place. A removal at the head, at the tail or between joins the
neighbours, and no place lies between them. That the list from the head holds
every job follows by well-founded induction on places: the job with the least
place that is missed would be the head, or its predecessor would lead to it.
`NoLostWakeup` is inductive with it: a worker waits only while its job has not
been scheduled, or has the broadcast still to come.

### Proofs about parent and child

The first part proves `AlwaysInTurn` (`InTurn`, for both ways of telling and any
number of rounds) and `TurnsAlwaysKept` (`TurnsKept`, for one round with signals
and any number with pipes, which is what is claimed). `Turn` names the five
situations of the two processes: one works and the other waits, one has been told
and the other waits, or both are done; the shared counter is `2i` or `2i + 1` by
whose turn it is. To be told once is a byte in the pipe, or a signal that is
pending, or noted in `sigflag`, or just noted: `IsTold` says which by the place of
the process. `Held` adds for one round that a waiting process has the signals
blocked until `sigsuspend`, which is what makes the test and the wait one step.
From the second round on it is false, and so is `TurnsKept`.

## 5. Servers, processes, signals, threads

`MCPrograms.tla` instantiates eighteen components and picks one (`part`) in its
initial state; they share nothing, keep their state in the variables `v1`,
`v2`, ..., and the run `programs` checks them all on 70 000 states. `Programs.cfg`
gives the constants of all of them their values; `Peers` are the clients, daemons,
queues, commands or processes of those that have several, and
`ProgramsAssumption` says what the constants may be. Where several programs of the repository do the
same thing in different ways, one module models them all and its variable `prog`
says which is running; a program is then often the list of its system calls, and
an action is what a call does.

| Module | Code | State | What it promises |
|---|---|---|---|
| `Opend` | `ipc2/opend` (both loops), `ipc2/open`, `serv_accept`, `cli_conn` | client table, poll set or descriptor set, connections, clients | `TablesAgree`, `UidRight`, `RequestsHonoured`, `LeftoversCleared` |
| `FdPassing` | `send_fd`, `send_err`, `recv_fd` and variants, `open.fe`, `opend.fe` | the stream as bytes, what each side has still to send or read | `AnswerIsMine`, `WorkEnds` |
| `Ruptime` | `sockets/ruptimed*.c`, `Chapter16` servers, `connect_retry` | each process and the sockets it holds | `OwnSocketOnly`, `AnsweredBeforeEnd`, `RequestsHonoured`, `LeftoversCleared` |
| `Popen` | `lib/popen.c` | descriptors of caller and commands, `childpid` | `Connected`, `ChildTable`, `WorkEnds` |
| `Pipes` | `ipc1/pipe2.c`, `pipe4.c`, `add2*.c`, Chapter15 variants | the pipes, their buffers, who holds which end | `LinesInOrder`, `WorkEnds` |
| `PollMsg` | `ipc2/pollmsg.c`, Chapter17 variants, `exercises/pollmsg2.c` | queues, helpers, descriptors, what was printed and how long its text was | `PrintedAsSent`, `NoOverrun`, `WorkEnds` |
| `AsyncIO` | `Chapter16/exercise_6.c` | the calls left, the socket, SIGIO pending | `NeverKilled`, `NothingMissed`, `WorkEnds` |
| `DbOpen` | `db_open`, `db_close`, `_db_free` | table and records in the index file, whole-file lock | `NoTableOverRecords`, `ClosedHasNone` |
| `Alarm` | `sleep1`, `sleep2`, `lib/sleep.c`, `read1.c`, `read2.c`, `ruptime-dg.c` | timer, action, mask, jump buffer | `NeverTooLate`, `JumpIsSet`, `WorkEnds` |
| `Signals` | `suspend1/2.c`, `critical.c`, `mask.c`, `abort.c`, both `system`, `sigtstp.c` | stack of handlers, actions, mask, pending signals, the child | `AbortAborts`, `MaskRestored`, `JumpIsSet`, `CommandAlone`, `HandlerBack`, `WorkEnds` |
| `Daemon` | `daemonize`, `already_running`, `reread.c`, `reread2.c`, `Chapter13/exercise_4.c` | session, actions and mask of each copy, lock and pid file | `SingleDaemon`, `NoTerminal`, `HupSafe`, `RereadWhole`, `RequestsHonoured` |
| `Threads` | `suspend.c`, `condvar.c`, `barrier.c`, `Chapter11/exercise_5.c`, `timeout.c`, `atfork.c` | owners of mutexes, who waits, shared data | `NobodyEarly`, `TakenOnce`, `ChildMayLock`, `RetryAlone`, `WorkEnds` |
| `Tty` | `lib/ttymodes.c` and its users, `getpass.c` | attributes that differ from the original, saved mode, signals | `TerminalRestored`, `SavedIsOriginal` |
| `Pty` | `pty/`, `lib/ptyfork.c`, `ptyopen.c` | parent, child, program, driver, terminal | `TerminalBack`, `OutputCopied`, `WorkEnds`, `LeftoversCleared` |
| `Rot13` | `advio/rot13c2.c.in` | buffers and their operations, offsets, output | `Translated`, `WorkEnds` |
| `MemStream` | `exercises/fmemopen.c`, `Chapter05/exercise_7.c` | buffer, sizes, position, and the file the caller believes in | `FileKept`, `Terminated` |
| `MyDup2` | `Chapter03/my_dup2.c` | descriptors, stack | `NewIsOld`, `LoopEnds` |
| `PrinterStatus` | section 3.3 | | `StatusRight`, `WorkEnds` |

Each module states its own safety properties; the run checks them by what they
are about, one property of `MCPrograms` for each kind of promise:

| Property | Of the modules |
|---|---|
| `UidRight` | `Opend!UidRight`, for the select loop |
| `DescriptorsRight` | `TablesAgree`, `OwnSocketOnly`, `Connected`, `ChildTable`, `ClosedHasNone`, `NewIsOld`, `LoopEnds` |
| `AnswersRight` | `StatusRight`, `AnswerIsMine`, `AnsweredBeforeEnd` |
| `DataInOrder` | `LinesInOrder`, `PrintedAsSent`, `NoOverrun`, `OutputCopied`, `Translated`, `FileKept`, `Terminated` |
| `OneAtATime` | `SingleDaemon`, `NoTableOverRecords`, `NobodyEarly`, `TakenOnce`, `RetryAlone`, `ChildMayLock` |
| `WaitsSafely` | `NeverTooLate`, `JumpIsSet` of `Alarm` and of `Signals` |
| `SignalsHandled` | `NeverKilled`, `NothingMissed`, `AbortAborts`, `CommandAlone`, `HandlerBack`, `HupSafe`, `RereadWhole` |
| `LeftAsFound` | `MaskRestored`, `TerminalRestored`, `SavedIsOriginal`, `TerminalBack`, `NoTerminal` |

What the modules leave to the code they stand for, and what is claimed only in part:

* **Opend.** A second client makes both tables grow (`NALLOC` 1). `UidRight` is
  claimed for the select loop; for the poll loop `opend_uid` shows it false:
  `pollfd[]` is packed when a client leaves and `client[]` is not, yet one index
  serves both. That both tables name the same connections (`TablesAgree`) and
  that every client is answered holds for both loops.
* **FdPassing.** `MAXLINE` 5 is smaller than an error text with its status, so
  answers arrive in any split; 255 and 256 are the codes around the byte's edge.
  The server may die at any step; a `csopen` for which none could be started is
  excluded from `WorkEnds`, because the code keeps that pipe and waits on it.
* **Ruptime.** After a failed exec the error text goes to the client, or the
  connection ends; both are allowed when a call failed. `RequestsHonoured`
  excludes servers whose `exec` failed after a fork.
* **PollMsg, Threads.** `pthread_cond_wait` may return by itself.
  `process_msg` and `suspend.c` test again in a loop and hold regardless;
  `my_barrier_wait` and `pollmsg2.c` do not, and `NobodyEarly`,
  `PrintedAsSent` and `WorkEnds` are claimed for them without such a wake-up.
  In `condvar.c` and `atfork.c` the other threads are the caller's (external).
* **PollMsg, `Chapter17/exercise_1b.c`.** The block that `malloc` returns is not
  cleared, the length `msgrcv` returns is dropped and no null is stored, so line 90
  prints the message and whatever follows it up to a null: an older message's
  remains, or past the end of `mtext`. The model prints any length from the
  message's own to `MAXMSZ` there, and `PrintedAsSent` says of this program only that
  every message is printed, in order, and not cut short. For the others it says
  that the text has the length that was sent.
* **Tty, Pty.** A `tcsetattr` that fails to restore the mode leaves it changed
  (`failed`), and so does an `atexit` that fails after `tty_raw` in `pty`
  (`outside`); the properties except these.
* **Alarm.** `sleep1`, `read1` and `ruptime-dg` have the race between `alarm`
  and the call that waits; they are excluded by name (`Racy`), which is what the
  book says of them. A handler of SIGINT may take longer than the alarm, which
  `sleep2` cuts short.
* **Daemon.** In `reread.c` a SIGHUP between the restored default action and the
  mask ends the daemon; `HupSafe` allows this window and no other.
* **AsyncIO.** What arrives before asynchronous I/O is on raises no SIGIO and
  waits for the next one; the properties say so (`early`).
* **DbOpen.** One process may truncate a database that others use; what holds is
  that no table is written over records stored since. Failing opens are bounded.
* **MyDup2.** `my_dup2` ends with an error when `close` fails, whichever way that
  leaves the descriptor. `stack_pop` reads the element above the top: a value that was
  never pushed is closed and the descriptor pushed first stays open. `Garbage`
  (`Residue` in `Programs.cfg`) is what that element holds: 0, as in the
  memory of a fresh process (and as the sample output in the source shows, where
  descriptor 0 has gone and 4 has stayed). Nothing is claimed of other
  descriptors.
* **MemStream.** `file` is kept beside the buffer by the rule a caller expects
  of a file; the stream must agree with it in every mode that reads.

Liveness, one property for each kind of promise:

* `RequestsHonoured`: a client of `opend` or a ruptime server that waits is
  answered or its connection ends; a running daemon rereads or ends after SIGHUP.
* `LeftoversCleared`: `opend` closes the connections of clients that left;
  `sigchld_handler` waits for every child that ended; when pty's parent has
  exited, child, program and raw mode go too.
* `WorkEnds`: blocking calls return (`printer_status`, `csopen`, `pclose`, reads
  and writes of pipes, `sleep`); messages are printed, a hang-up and SIGQUIT are
  seen, threads and blocks finish, pty's parent exits when its program has ended.

Fairness is weak fairness of each process, thread or handler of the system under
test (`Process1`, `Process2`, `Process3`, and `Peer(c)`, `UptimeClient(c)` for each
peer), the commands it started and the kernel's timer and asynchronous I/O: each is
runnable whenever its step is enabled, and schedulers run what is runnable. There
is none on people, signals from outside, spurious wake-ups and failures, and none
on a peer that may rightly do nothing. Deadlock is not checked: most programs end.

Bounds: two clients, copies, commands or queues suffice for a race between two of
them; two signals for one that arrives while the other is handled; three lines on
a pipe of two, three reads of data, three blocks and a half for two buffers, so
that the limit is reached and passed; one failure of a system call at any place
(`MaxFail`).

### Proofs about the programs

`ProgramsProof.tla` proves, from `ProgramsAssumption`, `AlwaysOneAtATime`
(`OneAtATime`), `AlwaysWaitsSafely` (`WaitsSafely`), `AlwaysSignalsHandled`
(`SignalsHandled`) and `AlwaysLeftAsFound` (`LeftAsFound`), for any number of
daemons, of processes that open the database, of pieces of input and of
signals. `PartInit` and `PartNext` say that a step of the whole is a step of the
part that was picked; each part then has an invariant of its own:

* **Daemon** (`DaemonInv`). A copy past `already_running` is the one that has the
  lock. What `daemonize` leaves behind (no terminal, not a session leader) is tied
  to the place of each copy, and so are the action and the mask of SIGHUP.
* **DbOpen** (`DbOpenInv`). From `writew_lock` to `un_lock` a process has the lock,
  and a file it found empty has had no table since; records are stored only into
  a file with a table.
* **Threads** (`ThreadsInv`). Which calls each thread has between lock and unlock
  (`CondvarLocks`, `TimeoutInv`, `AtforkInv`); each message is on the queue or
  taken, once (`Messages`); the count of the barrier is the threads still to come
  (`MyBarrierInv`).
* **Alarm** (`JumpingInv`, `SleepInv`). From `alarm` to the wait the timer runs or
  SIGALRM is pending, and the frame has been saved before there can be a handler
  that jumps to it. In `lib/sleep.c` the signal can be delivered only inside
  `sigsuspend`, or inside a handler that runs on top of it.
* **AsyncIO** (`AsyncInv`). What `main` still has to do tells which of its calls
  are in force; SIGIO is on its way or handled for everything that came after
  `FASYNC`.
* **Signals**. A program is a stack of frames, main at the bottom. `SigTypes`: each
  frame is at one of its calls. `SigMask`: the mask of main is a function of
  main's place (`MainMask`), where the mask of main is the one in force or, with
  handlers on top, the one the lowest of them restores (`Base`); a step moves main
  in one of four ways (`MainStays`, `MainWoken`, `MainJumps`, `MainCalls`), which is
  proved once for all programs. `SigJump`: `canjump` is set only after
  `sigsetjmp`. On top of these, `AbortInv` follows the action of SIGABRT through
  `abort`; `SystemInv` says that while the command runs nothing is pending that
  could be delivered and that it has the caller's actions and mask; `TstpInv`
  that a handler of SIGTSTP is interrupted by another only at calls where the
  action is to catch it.
* **Tty, Pty**. The mode of the terminal and the saved mode by the place of the
  program (`TRawInv`, `Exercise1Inv`, `GetpassInv`); in `pty`, raw mode goes with
  the parent.

`ServersProof.tla` adds `UidAlwaysRight` (`UidRight`) and `DescriptorsAlwaysRight`
(`DescriptorsRight`), for any number of clients, requests, commands, descriptors and
failures. These are about tables that have to say the same thing:

* **Opend** (`OpendInv`). `client[]` and the descriptors that are watched name the
  same connections (`ClientTable`, with `PollSet` or `SelectSet`). In the version
  with `select` the index of the loop is one of `client[]`, so the uid a request
  is handled with is the one the connection was accepted with. In the version with
  `poll` the places of the two tables differ after a hang-up, which is the
  disagreement `opend_uid`.
* **Ruptime** (`RuptimeInv`). A process has the connection of a client on its output
  only from its own `dup2`, so a command answers its own client.
* **Popen** (`PopenInv`). Each end of a pipe is open at most once (`FdsRight`), and
  `childpid[]` names the far end of each pipe that is open (`PidsRight`). As long
  as nothing has failed the parent knows all its descriptors (`Known`); a command
  is a copy made at its `fork`, of a table in which all others were known, and so
  the loop of `popen` closes all of them (`CommandRight`).
* **DbOpen**, **MyDup2** (`Dup2Inv`). A `db_open` that fails has closed what it
  opened. While nobody else opens files `newfd` stays free until `dup` returns it,
  and nothing that is pushed is `newfd`, so the loop over the stack ends and
  closes only what the loop over `dup` opened.

`DataProof.tla` adds the two properties about what is read and written:
`DataAlwaysInOrder` (`DataInOrder`), for any number of lines, messages, blocks and
bytes, and `AnswersAlwaysRight` (`AnswersRight`), for any sizes, error codes and
clients. `DataInOrder` rests on these invariants:

* **Pipes** (`PipesInv`). What the program has seen, what is in its pipe and what
  the parent still has to write are the lines in order, with nothing between them
  (`PagerRight`). Parent and coprocess have one line on its way, and the place of
  the parent tells whether it is in the pipe to the filter, in the filter's buffer
  or in the pipe back (`CoprocessRight`).
* **PollMsg** (`MsgsInv`). The messages printed, those on their way (in the buffer
  of a helper, on its socket, in the hands of main) and those on the queue are
  numbered without a gap; which of them can be on their way differs between the
  programs (`InOne`, `InTwo`, `ByHand`). A message is shorter than the buffer
  (`Message`, the limit of `sendmsg`) and each read takes one whole message, so the
  terminator main stores has its place. `TextsInv`: each message on its way has the
  length that was sent, and each text printed is as long as its message, or longer
  in `exercise_1b`; that no terminator falls outside (`NoOverrun`) follows, and holds
  even when a wait returns by itself.
* **Rot13** (`Rot13Inv`). `numop` and the list are the buffers in use (`ListRight`),
  a buffer that is written has been translated, and as long as nothing failed each
  block of the file below `off` is in a buffer or in the output (`Covered`).
* **MemStream** (`MemInv`). The position is at most the number of valid bytes, and
  these are at most the buffer; in a stream open for both they are the bytes of the
  file the caller believes in, one by one; in a stream that is only written there
  is a null byte as soon as there is a byte of data.
* **Pty** (`PtyInv`). The copying process that ends without having been told by
  SIGTERM has left none of the program's output uncopied.

`AnswersRight` rests on three:

* **PrinterStatus** (`StatusInv`). `Response` says where a response has its
  Content-Length, its empty line and its answer, and nowhere else. The state of the
  parse follows from what has been read, all of it or the first of two pieces
  (`Parsing`): `i` has not passed the place looked for, and once the last read is
  in, `datsz` is at least the length. Responses that are not whole have no place
  for an answer after their header (`Short`), so the parse never gets to it. The
  conversations are those of `MCConversations`, whole or cut where the code expects
  it; cut anywhere, the search may go on for ever (`print_status_hang`, section 3.3).
* **FdPassing** (`FdInv`). Between two calls of `csopen` nothing is on its way but
  what a dead server did not read. During a call there is the request, the part of
  the answer the server has not written, or the part the client has not read
  (`Requested`, `Answering`, `Answered`, `CutOff`); with the text already shown
  these add up to a message that fits in the buffers, so `recv_fd` finds its null
  byte last but one or not at all.
* **Ruptime** (`AnsweredInv`). When nothing fails, a client that has connected is in
  the queue, at the server, at its child, or has been answered (`ClientRight`).
  This needs that no client has the name of the server (`RuptimeAssumption`).

The eight properties are also checked by the run `programs`; the invariants are not
conjoined to it, but were checked on it before they were proved.

## 6. Disagreements between the code and what it says

| Run | Code | What is said |
|---|---|---|
| `db_nextrec_after_fetch` | `db.c:853` | `db_rewind` is needed only before the first `db_nextrec` |
| `print_job_number` | `printd.c:696` | the job file holds the next job number |
| `print_kill_workers` | `printd.c:547` | cancel all outstanding workers |
| `print_status_hang` | `printd.c:980` | headers "can be returned in multiple read attempts" |
| `sem_open_race` | `semaph.c:193` | "we don't need a lock to do this" |
| `opend_uid` | `loop.poll.c:92` | a request is logged with the uid of its client |

Also met, stated with their properties above rather than in runs of their own:
signals lost from the second round of `lib/tellwait.c` on, the SIGHUP window of
`reread.c`, `stack_pop` of `my_dup2.c`, the barrier and `pollmsg2.c` under
spurious wake-ups, the text `Chapter17/exercise_1b.c` prints without an end (line
90), and `pty/main.c` line 91, where a failing `atexit` leaves the terminal raw; in
`printd.c`, the job file's old tail after a wrap (line 247), a client that pauses longer than the timeout of
line 447 has part of its document accepted, and a final answer that shares a read
with a 100 Continue is dropped (line 915); in `semaph.c`, a `sem_create` asleep
in `semop` when the set is removed exits instead of retrying (line 125), and a
counter brought down to 0 looks uninitialised (line 138, excluded by
`SemaphAssumption`). The value `mem_seek` of `Chapter05/exercise_7.c` returns (0
instead of the new position, line 80) is not modelled.

## 7. Plan

Modelled, in the order of their shared state: the database, the spooler, the
library, and the programs of section 5. Proved: the safety of the database and
its refinement, the safety of the daemon, the four components of the library, and
the eight safety properties of section 5. What is left is
what the provers do not reach (section 8).

A component gets a run of its own when its question needs its own fairness or
shows a disagreement.

## 8. Not modelled, and what stays with TLC

Programs that make one library call, print a result and exit have no state to
interleave and are listed in `PROJECT.json` as not modelled: most of `fileio/`,
`filedir/`, `stdio/`, `environ/`, `datafiles/`, `intro/`, `standards/`,
`termios/`, `proc/` and the matching chapters. So are demonstrations of what the
kernel does with a few calls: record locks (`advio/deadlock.c`, `mandatory.c`,
`Chapter14/exercise_1.c`), FIFOs, System V queues and shared memory
(`Chapter15/exercise_10.c`, `exercise_12*.c`, `exercise_13.c`, `exercise_18*.c`),
`slock.c`, `Chapter17/exercise_4.c`, the `getenv` variants. Formatting, parsing of
options, requests and configuration files, address lookup (`findsvc.c`) and error
texts (`error.c`) are left out everywhere. The sort of `barrier.c` is one step.

With TLC only: liveness (`JobsLeaveSpool`, `Returns` and the three properties of
section 5) and `NotAllBlocked`, which need fairness or `ENABLED`; and the
refinement of `mutex3.c`.

To repeat: `tlc -config X.cfg M` for each run in `PROJECT.json`, and `tlapm M` for
`DbProof`, `DbListProof`, `DbMapProof`, `PrintdProof`, `LibraryProof`, `ProgramsProof`,
`ServersProof` and `DataProof`.
