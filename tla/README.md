# TLA+ verification of dj64dev

dj64dev builds 64-bit programs for DOS.  A program is half 32-bit code that
runs under a DPMI host and half 64-bit C code that runs in the host's address
space, on top of a C library derived from djgpp.  This directory models the
parts of it whose correctness depends on the order in which things happen:
several programs, calls that nest in both directions, calls that end without
returning, and library state that is shared or swapped between programs.

Paths below are relative to the repository; `thunks.c` is
`src/libc/dj64/thunks.c`, `fd_props.c` is `src/libc/dos/io/fd_props.c`.

## 1. Inventory

| Component | State | Operations | Correct when |
|---|---|---|---|
| Thunking engine (`thunks.c`, `dosobj.c`, `include/dj64/thunks_p.inc`) | per handle: `recur_cnt`, `objcnt`, `objs[][]`, `noret_jmp`, `s_regs` | `DJ64_INIT_FN`, `DJ64_DONE_FN`, `dj64_call`, `dj64_asm_call(_u)`, `dj64_asm_noret(_u)`, `dj64_obj_init/done` | however a call ends, the jump target, objects and counters of the calls around it are intact |
| Swappable contexts (`include/libc/djctx.h`) | per context: live globals, pointer `c`, array of saved copies | `init`, `deinit`, `save`, `restore` | every program sees its own globals and nobody else's |
| File descriptor properties (`fd_props.c`) | table by descriptor, objects with `ref_count`, active list, cache; shared by all programs | `__set_fd_properties`, `__dup_fd_properties`, `__clear_fd_properties`, `exit_cleanup` | an object lives as long as its descriptors; temporary files go with their last descriptor and not before |
| Registry and `dj64_ctrl` (`thunks.c` 222-461, 692-786) | `disp[]`, `at[]`, `pt[]` of a handle; registrations that wait for an init | `register_*`, `DJ64_INIT2_FN`, `DL_SET_SYMTAB`, `DL_ELFLOAD` | a call by number reaches the resolved table of the library that makes it; every ELF handle is closed |
| ELF execution (`compat/go64/elfexec.c`) | a file, shared memory, a loaded library | `elfexec`, `elfload` | what a failing step leaves behind is released |
| Signals (`posix/signal/*.c`, `go32/dpmiexcp.c`) | `signal_list`, current mask, pending set, previous handlers; shared | `signal`, `raise`, `kill`, `sigprocmask`, `sigaction` (`sigsuspend` is an empty function) | a blocked signal is delivered once, to the handler the program installed |
| Interval timers (`posix/signal/itimer.c`) | expiry and reload of two timers, countdown, hook of interrupt 8 | `setitimer`, `getitimer`, `timer_action` | an armed timer fires; the hook is removed when nothing is armed |
| Exception vectors (`go32/dpmiexcp.c`) | installed and saved vectors of every program | setup, toggle, `_exit` | a program that ends leaves the vectors it found (0x24 is not restored by any code) |
| File system extensions, handle modes (`fsext/fsext.c`, `dos/io/dosio.c`) | tables per program, guards compared with `__bss_count` | `__FSEXT_*`, `__file_handle_set` | a program keeps its tables while its children run |
| Program exit (`ansi/stdlib/exit.c`, `atexit.c`) | list of functions, hooks | `atexit`, `exit` | no function runs twice, and they run in order |
| DXE modules (`dxe/dlopen.c`) | chain of modules with in-use counters | `dlopen`, `dlclose` | a module is unloaded with its last user |
| Stdio streams (`ansi/stdio/*.c`, `include/libc/file.h`) | a `FILE`: flags, `_ptr`, `_cnt`, `_base`, `_fillsize`; the position of its descriptor | `getc`, `fread`, `putc`, `fwrite`, `ungetc`, `fseek`, `ftell`, `rewind`, `fflush`, `setvbuf`, `fclose` | the buffer cannot be told from a sequence of bytes with a position |
| Host (DPMI server, djdev64) | not in the repository | chooses which program runs | environment |
| Rest of libc, DPMI wrappers, sockets, generated stubs, dj32, ncurses | | | not modelled, see section 7 |

How they interact.  The host enters a program with `dj64_call`; C code goes
back to 32-bit code with `dj64_asm_call`, and everything in the library that
touches DOS or DPMI does so through such a call.  While a program waits there,
the host may enter any program again, the same one included, may start and
unload programs, and may answer the wait with an abort, which unwinds the C
code with `longjmp`.  There is one thread: what is hard is reentrancy,
unwinding, and state that belongs to one program but lives in a variable of
the library that all programs share.  Some of that state is a swappable
context; some (fd properties, signals, timers) is not and is only guarded by
`__bss_count`, a counter that every program start increments.

The complete list of hazards, each with its line and the properties aimed at
it, is `hazards` in `PROJECT.json`.

## 2. Modules

| Module | What it is |
|---|---|
| `Thunks` | the thunking engine and the contexts, one action per operation |
| `PrivateContext` | abstract specification: every program has a private copy of the globals |
| `ThunksProofs` | the inductive invariant of `Thunks`, the theorems from it, and that `Thunks` implements `PrivateContext` |
| `FdProps` | file descriptor properties |
| `FdPropsProofs` | its invariants, for one program |
| `Signals` | signals, masks, handlers, interrupts, programs that start and end |
| `SignalsProofs` | types, isolation of programs, the mask and what a call computes, and that `Signals` implements `SignalMask` |
| `SignalMask` | abstract specification: a signal is blocked, recorded, dropped or delivered |
| `ITimer` | interval timers, clock ticks, lost ticks |
| `Vectors` | exception, keyboard, timer and Ctrl-Break vectors of nested programs |
| `VectorsProofs` | the chain of saved vectors, and that every program restores what it found; its last part is about `ITimer`: no timer is late, the hook follows the timers |
| `FsExt` | the table of extensions and the devices of `fse_zero.c` |
| `FsExtProofs` | descriptors are counted, devices work, objects are freed; its last part is about `Exit`: functions run once, output is written |
| `FileModes` | text and binary modes, the growing table, `move_fd` |
| `FileModesProofs` | modes are kept, the table grows in time, `opendir` is clean |
| `Loader` | registration of libraries, slots of a handle, `dj64_ctrl` |
| `LoaderProofs` | its invariants, for any handles and libraries |
| `Exit` | `exit`, `atexit`, `atexit2` and the cleanup that follows |
| `Dxe` | `dlopen`, `dlclose`, `_closeall` |
| `Stdio` | one binary stream with its buffer |
| `StdioProofs` | the buffer keeps to its bounds and agrees with the file |
| `ByteStream` | abstract specification: a sequence of bytes, a position, bytes pushed back |
| `MC...` | the instances for TLC |

Definitions whose comment says "mutant" are deliberate mistakes, used to check
that a property can fail.  No other definition uses them.

**Circumstances.**  Much of the library is right only for programs that behave
in a certain way, without a line of the code or a document saying so.  Where
that is the case the module has a variable `practice` (`oom`, `reloads` or
`children` where there is a single question), chosen in `Init` and never
changed: the set of habits of the programs of that behaviour.  Actions are
guarded by the habits they need, and a property that needs their absence names
them in its premise.  All other properties are checked for all habits.  So the
condition under which a property holds is part of its statement; section 3
lists what happens without it.

### Thunks

State.  `stack` is the C stack of the process seen as the activations of
`dj64_call` in it, innermost last; the phase of an activation says whether its
C code runs ("C") or it waits in the host's `asm_call` or `asm_noret`.  Only
the innermost activation can be in phase "C", and then nothing else moves;
otherwise the host chooses.  `frames[h]` holds the locals `last_noret` and
`last_objcnt` of the activations of `h`, which survive nested calls on the C
stack.  `noret_jmp[h]` and `s_regs[h]` are the number of the activation whose
`jmp_buf` or registers the variable holds.  `objs[h][r]` is the set of nonzero
entries of a row of `objs`.  `cur`, `globals` and `contexts` are the `c`
pointer, the live globals and the saved copies of a context; the loops over
`chooks[]` treat all contexts alike, so one stands for all.

Actions and code:

| Action | Code |
|---|---|
| `DJ64_INIT`, `DJ64_DONE` | `DJ64_INIT_FN`, `DJ64_DONE_FN` with the `init` and `deinit` hooks |
| `dj64_call` | `dj64_call` down to the dispatcher: limit, `recur_cnt`, restore, registers, `setjmp` |
| `DispatchReturn` | the dispatcher returned: assert, `noret_jmp`, save, `recur_cnt` |
| `AsmAbort`, `NoretDone` | `longjmp` and the code behind `setjmp`: restore, collection of the objects, the same tail without the save |
| `dj64_obj_init`, `dj64_obj_done`, and their `_null` forms | an argument object whose allocation succeeded or failed |
| `dj64_asm_call`, `AsmReturn`, `dj64_asm_noret` | save, wait, restore |
| `AssignGlobals` | C code changes its globals |

Assumptions on the environment, from the way `thunks.c` uses it: `get_handle()`
is the handle of the innermost activation; a program is unloaded only when none
of its activations is left; the host enters, loads and unloads programs only
while no C code runs; `asm_call` fills `s_regs` when it succeeds.  A stub
prepares its objects, calls and releases them (`thunks_p.inc`), but since
`malloc32` may itself make an asm call to get memory, a stub can be suspended
or aborted with only some of its objects prepared; the model lets objects be
prepared and released in any order and asks only that none is left when the
dispatcher returns.  The assert on `MAX_RECUR` is a guard.  The assert on
`objcnt` is the variable `crashed`, because whether it can fail is a question.
What `s_regs` holds when a call returns is up to the host's `asm_call`; no
property is about it.

### FdProps

`P` holds the statics of `fd_props.c` as a record, with the files on disk and a
flag for a NULL dereference or a search that does not end; each C function is
an operator from `P` to `P` (or to the set of outcomes when `malloc` may fail),
and the loop of `exit_cleanup` is a recursive function on the descriptors.  The lists are real
`next`/`prev` pointers with the assignments of `insert_list` and `remove_list`
in their order.  `ref_count` wraps at `MaxRef`.  `Truename` is the name that `_truename` returns,
or none when it has no memory.  `jft` is what DOS has open for
each program (external).  Programs nest: only the innermost one moves, a
started one inherits any subset of the handles, and all of them work on the
same `P`, as with a dynamically linked libc; `hook` is private, as `exit.c`
swaps it.  Flags other than the temporary one, and programs ended by `_exit`
without their cleanup, are left out.

### Signals and SignalMask

`signal_list`, `prev_handlers`, `current_mask`, `pending` and
`sigprocmask_count` are the statics of `dpmiexcp.c` and `sigprocm.c`; programs
share them.  `raise()` runs the handler on the caller's stack, so `stack` holds
the calls in progress: `main`, a handler, the exception processor, `sigaction`
between its two calls of `signal`, and `sigprocmask` at some signal of its loop.

| Action | Code |
|---|---|
| `signal`, `raise` | the functions of `dpmiexcp.c`; `kill` is `raise` |
| `Interrupt`, `ExceptionReturn` | `__djgpp_exception_processor` around `raise`, between any two steps of a program |
| `sigaction`, `SigactionReturn` | its two calls of `signal`, between which a signal may come |
| `sigprocmask`, `Loop`, return | entry with the test of `__bss_count`; one step per signal, each of its actions a piece between two points where a handler can run; assignment of the mask |
| `HandlerReturn`, `HandlerJump` | a handler returns or leaves with `longjmp` |
| `Start`, `exit` | `__crt1_startup`'s and `exit`'s reset of the handlers; with "child_in_call" also from a handler that runs inside `sigprocmask` |

`SignalMask` knows a disposition, a mask and a set of recorded signals.  Every
step of `Signals` for a plain program must be one of its steps: deliver, record,
drop, block one, unblock one and deliver what was recorded.  That a signal is
dropped while `sigaction` has SIG_IGN installed is allowed by it.  A program that
the SIGINT key ends goes through `exit(-1)` instead of `_exit(-1)`
(`dpmiexcp.c:227-231`); the model has only the latter.

### ITimer and Vectors

`ITimer` keeps the expiry times relative to now, the countdown of ticks, the
hook, and the exceptions in progress with the signals each still has to raise.
`Elapse` lets a unit of time pass, `Tick` is the interrupt with the code of
`exceptn.S` and `timer_action` as one action per point where a handler may run,
`LostTick` is a tick the program does not see (interrupts are off, or another
program runs).  `setitimer` and `alarm` may come at any time, from handlers too.
It models one program.  `Vectors` models what several programs do to each other:
every program has its saved vectors, `timer_on` (here `itimer_on`) is shared, and `Start`, `toggle`,
`start_timer`, `stop_timer` and `exit` are the five operations.  `crit` is
protected-mode vector 0x24, and with it 0x23 on PC98: `__djgpp_exception_setup`
sets it (`dpmiexcp.c:596-600`) and nothing saves or restores it.

### FsExt and FileModes

`FsExt` has the statics, the heap objects of the devices and the running program
in one record `W`, and the waiting programs in `rest`; the functions of
`fsext.c` and `fse_zero.c` are operators on `W`, and the actions are the calls a
program makes (`open`, `close`, `dup`, `dup2`, `fcntl(F_DUPFD)`, a lookup, `exit`)
and `Start` of a child.  The loop of `__FSEXT_close_all` is a recursive function
on the descriptors.  With "oom" every allocation may fail.

`FileModes` has the two tables, the limit told to DOS and the open handles of one
program.  `__file_handle_set` is three operators (recount, expand, fill in);
`Moved` follows the recursion of `move_fd` level by level.  A directory's
descriptor is dup()ed off NUL, which `__FSEXT_alloc_fd` opens by DOS alone, without
`__file_handle_set`, and never closes: `nul` is its static `null_dev_fd`, and
`fresh` says that `init()` of `fsext.c` was not reached yet (every lookup reaches
it).  The program may start with any `null_dev_fd`, as an earlier one leaves it.
`more` is whether DOS grants the larger limit; the code does not look.
The `malloc` of `dosio.c:91` succeeds in the model, as a program without memory
writes through NULL there.  The two `fcntl` calls at the end of `opendir_as_fd`
return at once for descriptors from 18 on (`fcntl.c:337-338`, `377-380`), so their
failure branches are dead code.  `spawn` is what a child does to `__bss_count`, to
`init_count` and to `null_dev_fd`.

### Loader

`pending` is `disp_fn`, `u_athunks`, `u_pthunks`; `slot` the three tables of a
handle; `run` what is running.  Loading a library, its registration and the call
that takes the registration are one action (`open`, `exec`), as the host does not
do anything else between them; the ways in which the call is refused are disjuncts.
`DJ64_INIT2_FN` does not look at `fatalerr`, so `exec` runs a library of another
version, which has registered nothing.
`dj64_ctrl` has a failure at every step and counts the ELF handles it leaves open.

### Exit, Dxe

`Exit` walks through `exit()` with a program counter; between two steps of the
library the program's own functions run, write to streams, register functions or
call `exit()` again.  In `Dxe` a call of `dlopen` is one action, since nothing
interrupts it: the recursion through the dependencies is a recursive operator on
memory, chain and the static stack `stk_top` of the files being loaded, with a
count of the allocations left until the one that fails.

### Stdio and ByteStream

`f` is the `FILE`, its buffer and the file.  The operators are `_filbuf`,
`_flsbuf`, `fflush`, `fseek` and so on as functions on `f`, with the loops of
`fread` and `fwrite` as recursive functions on the bytes done (`GetUpTo`,
`PutUpTo`); every call of the program is one action, with an `Answer` that says how much `_filbuf` asks for,
whether `malloc` works and whether the descriptor works.  `last` records what the
call was asked for and what it returned.  `ByteStream` has the same `last`, and
says for every call what may be returned and what becomes of the bytes, the
position and the bytes pushed back.  After an error nothing is promised, and the
program keeps to ISO C: a flush or a seek between output and input.  `Ff` is the
byte 0xFF, which `fwrite` to a line buffer passes to `_flsbuf` as a plain `char`
(`fwrite.c:41`) and gets back as EOF.  A write that DOS does in part before it
fails is one outcome, the failure: nothing is promised after an error.

## 3. Properties and runs

| Run | Properties | Instance |
|---|---|---|
| `thunks` | `TypeOK`, `NoretLive`, `IdleClean`, `ContextOwned`, `NoLeak`, refinement `PrivateSpec` | 2 programs, 2 activations each, 2 addresses, failing allocations |
| `fd` | `RefCountRight`, `OwnName`, `TempTracked`, `CacheUnused` | 3 descriptors, 2 names, 3 objects, with and without failing allocations (then 2 objects); one program |
| `fd_exit` | `TempGoneAtExit`: violated | the same |
| `signals` | `TypeOK`, `MaskExact`, `CallComputes`, `ChildIsolated`, refinement `RefinesSignalMask` | 3 signals, 2 programs, 3 calls in progress |
| `itimer` | `TypeOK`, `NeverLate`, `HookedWhileArmed`, liveness `OneShotExpires` | ticks of 3 units, values 0, 2, 5, 9, intervals 0, 4, 3 calls, 1 lost tick |
| `vectors` | `NoVoid`, `Restores` | 4 programs started |
| `fsext` | `Counted`, `DeviceWorks`, `Tidied` | 4 descriptors, 2 objects, 2 programs |
| `modes` | `TypeOK`, `ModesKept`, `GrowsInTime`, `OpendirClean` | tables of 3 and 4 in place of 20 and 255, one standard descriptor, 2 programs, any `null_dev_fd`, DOS granting more handles or not |
| `loader` | `TypeOK`, `ReachesItself` | 2 handles, 3 libraries, other versions |
| `exit` | `RunsAll`, `Flushed`, liveness `Terminates` | 4 calls of `atexit` |
| `dxe` | `UsesCounted`, `SymbolsStay`, `AllClosed`, `AlwaysLoads` | a diamond, a chain and a cycle of dependencies, a failure at any allocation |
| `stdio` | `SeekBackSafe`, refinement `RefinesByteStream` | file of 2 to 3 bytes, buffers of 2, every kind of buffering, three bytes of which one is newline and one 0xFF |

Properties that include a module's `TypeOK` (`OwnName`, `NoVoid`, `Counted`,
`RunsAll`, `UsesCounted`, `SeekBackSafe`) do so because it is the bound that the
same mistake would break first.

**Bounds and why they suffice.**

* `thunks`: two handles give every pattern of "me", "the other" and "the other
  was unloaded"; two activations per handle give a call nested in a call of the
  same program, with and without the other program in between; two objects per
  row tell "some released" from "all released".  The theorems of section 4
  remove the bounds.
* `fd`: one program, which is every program whose libc is linked statically: its
  statics are its own.  With a shared libc none of the four properties holds
  (see the conditions below).  Three descriptors are the least for which a list has a head, an inner and
  a last object; two names tell "same file" from "another file".
  `MaxRef = NFd` keeps the relation of the code, where 255 descriptors meet an
  8-bit counter.  With failing allocations two objects (`MaxObjOom`) keep the run
  short; they are enough for one that is in use and one that is cached.
* `signals`: one signal that cannot be caught or blocked (SIGKILL), one whose
  default is to be ignored (SIGQUIT), and an ordinary one, whose default ends the
  program; three frames allow an interrupt, its exception frame and a
  handler inside `sigprocmask`.  Three are too few for a child of such a handler
  that itself calls `sigprocmask`: that needs four, and was found by the proof
  of `TypeOK` (see the conditions below).  The theorems of section 4 remove the
  bound for all five properties.
* `itimer`: values below one tick, of more than one and of exactly three ticks;
  the phase of the clock when a timer is armed is arbitrary; two nested
  exceptions allow a tick inside a handler.
* `vectors`: four starts allow a child, a second child of the same parent, and a
  grandchild.
* `fsext`: one device with two more descriptors, and the NUL handle.  The
  theorems of section 4 remove the bounds.
* `modes`: the first table has two descriptors besides the standard one, the least
  for which NUL and a file can both be in it and either of them be the last; the
  second has one more, which is where a directory goes.  The theorems of section
  4 remove the bounds.
* `loader`: three libraries are a program, what it executes, and another one
  after a refusal or a reuse of the handle.
* `exit`: four calls of `atexit` are two before and two during `exit`.  The bound is
  also an assumption of `Terminates`: a function that registers itself and calls
  `exit()` would go on for ever.
* `dxe`: 0 to 12 covers every allocation of the deepest load.
* `stdio`: with a buffer of two and a file of two to three bytes the buffer
  begins, ends and is refilled at every position; an item of two bytes fills
  the buffer exactly or crosses its end, and the newline, or 0xFF, comes first or
  not at all.  `putc` and `ungetc` are given one byte, which differs from one byte
  of the file and equals the other.  `TbSize = 2` is the smallest buffer the library treats as buffered.

`SYMMETRY` permutes handles and addresses, or names; it is used with safety
properties only.  `CHECK_DEADLOCK FALSE` is set where a behaviour may really end:
a failed assertion (`thunks`, `loader`), a crash or the bound on starts (`fd`,
`vectors`), a program ended by a signal and the bound on starts (`signals`,
`itimer`).

**Fairness.**  `ITimer!FairSpec`: the clock goes on (WF `Elapse`), ticks come
again and again even when some are lost (SF `Tick`: the number of lost ticks is
bounded, and the interrupt is the host's to deliver), the library goes on with
what it began (WF `RaiseNext`, `ExceptionReturn`: sequential code), and handlers
return or jump (an assumption on the program).  `Exit!FairSpec`: the library
goes on, and the program's functions return or call `exit()`, after finitely
many other calls; among those are registrations, which `MaxReg` bounds.  Nothing is fair in the other modules: whether a program or
the host makes another call is up to them.

**Finding.**  `fd_exit`: `remove_list` uses `next` and `prev` after clearing
them; removing the head of the active list empties it, and `exit_cleanup` then
finds nothing to close, although its comment promises that all temporary files
are deleted.

**Where the conditions come from.**  Dropping the premise of a property, or
letting TLC look at a habit it excludes, shows what follows.  Most of it no
document speaks of.  These comments of the code are contradicted, and the
properties above hold only beside them:

| Comment | What happens |
|---|---|
| `fd_props.c:56-57`, "Delete the file if no other descriptors use the file" | after the list is lost (the finding), `close_fd` does not see the other descriptors and deletes the file under them |
| `itimer.c:155-158`, "We treat that as if NEXT were zero, meaning that the timer will expire on the next tick" | when NEXT really is zero the interrupt is unhooked with a timer armed; `HookedWhileArmed` is therefore for programs without reload intervals |
| `dpmiexcp.c:450-452`, programs that do not unhook the timer "won't leave the system with timer pointing into the void" | true of those that arm it with their handlers installed (`Kept`); one that arms it while they are toggled out, or disarms its parent's, leaves it there |
| `dosio.c:84-85`, "when we hit the count'th request, we've already up'd it" | NUL, opened without `__file_handle_set`, may take handle 19: then DOS is out of handles, nothing makes the table grow, and the program stays at 20; `GrowsInTime` names this case |
| `fsext.c:76`, "just dup the handle we got the first time" | a program that reached `init()` by a lookup before it allocates has the `null_dev_fd` of an earlier program, and duplicates whatever it has open there, or fails |
| `fse_zero.c:32`, `:404`, "Support for dup()" | `dup()` copies the function and not the data: only `fcntl(F_DUPFD)` is supported, and `DeviceWorks` is about programs that do not use `dup()` |
| `sigprocm.c:14`, "Which signals are currently blocked" | after a handler called `sigprocmask` inside `sigprocmask`, it does not say so |

By module:

* Thunks: an argument object whose allocation failed is counted but not
  recorded; if the call then aborts, the leak assert ends the process.  `NoLeak`
  says that this is the only way.
* FdProps: the damaged list can run into cached objects or become a cycle, and
  then `find_eq_filename` dereferences NULL or does not end (`crashed`); so it
  does when `llseek()`, or `_truename` without memory, gave a descriptor properties
  without a name.  A child
  resets the shared table, and `ref_count` can wrap afterwards.
* Signals: what a previous program left pending is what `sigpending` reports to
  the next one until its first `sigprocmask`; a child resets its parent's handlers and
  mask; the mask that a handler sets inside `sigprocmask` is overwritten when
  that returns; `signal()` on a blocked signal replaces the suspender.  An
  exception or Ctrl-C whose handler returns ends the program, and the suspender
  returns: so does one that comes while it is blocked.  A child that a handler runs in
  the middle of its parent's `sigprocmask` returns to a loop that diverts more
  signals; the parent's next call forgets the old mask and saves `sig_suspender`
  as if it were the program's handler, and the signal is diverted for good.
* ITimer: a reload interval that makes a timer due exactly at this tick is taken
  for "no timer": the interrupt is unhooked with a timer armed.  A tick that
  finds nothing due ends the program: `timer_action`, the handler of SIGTIMR, returns,
  and `__djgpp_exception_processor` ends a program whose handler returns, the code
  that went on being disabled (`dpmiexcp.c:376-384`).  As ticks are counted from a
  truncated time, most values that are not multiples of a tick lead to such a tick;
  the same end awaits a program whose handler of SIGALRM returns.  This is
  the disjunct `dead` of `OneShotExpires`.
* Vectors: programs that arm the timer while their handlers are toggled out, or
  disarm their parent's timer, leave the timer vector wrong.  Vector 0x24 leads
  into the program started last, also when it has ended.
* FsExt: `init_count` and `null_dev_fd` are shared.  After a child that made no
  lookup the parent's next one finds `init_count` old and forgets its table; after
  one that made a lookup the parent keeps it, but if it had made none itself it is
  never given its exit hook.  A program that did not open NUL itself `dup()`s whatever handle has that number.  `dup()` of a device copies the function but not the data.
* FileModes: after a child the table is expanded a second time, from the initial
  modes.  `dup2` to a descriptor beyond the limit fails after it has changed the
  table, and if DOS refuses more handles the table is large and the limit stays.
* Loader: a nested `elfexec` takes the slot of the one it is called from; a
  refused library leaves its registration behind, and the assert of the next one that
  registers ends the host; a reused handle keeps the libraries of slots 2 and 3,
  whose entries `djthunk_get_h` goes through (`thunks.c:765-771`).
* Exit: what the hook of `atexit2()` writes is not flushed, and a hook that calls
  `exit()` does so for ever.  A function that calls `exit()` drops the rest of the
  list, and one registered during `exit()` is run only if `exit()` is called again.
* Dxe: a module opened `RTLD_LOCAL` hides the symbols from modules that depend on
  it; if the last `malloc` of a `dlopen` fails, the chain is lost (`dlopen.c:358`), so that
  `SymbolsStay` and `AllClosed` leave this one out; `UsesCounted` holds with it.
* Stdio: `ungetc` into an empty buffer keeps the EOF flag, compares with an old
  byte, and `fread` returns the byte twice.  `ftell` on an unfinished line
  forgets how full the line buffer is, and the next `fwrite` stores behind it.
  The attempt to prove that nothing is stored behind a buffer showed two more ways, of
  which TLC then had the traces, and which `Bounded` names: `ungetc` into
  the empty line buffer of an update stream leaves `_cnt` at 1, and `fwrite`
  counts down from there; and the byte that `ungetc` left in a line buffer of one
  byte, once it was read back, leaves `_ptr` at the end of the buffer, where
  `_flsbuf` stores the next one (`flsbuf.c:64-68`).
  `fwrite` of the byte 0xFF to a line buffer, where it completes the buffer or
  goes through `_flsbuf` for another reason, reports fewer items than it stored, without an error
  (`fwrite.c:41` has a plain `char`, `:57` an `unsigned char`).
  `fwrite` to a line-buffered update stream does not mark it as written, so that
  its data is dropped.  `fflush(NULL)` while reading clears the mark of `ungetc`
  and skips read-ahead.  `getc` after the first write and `fflush` on a stream
  never positioned returns EOF, as `_flsbuf` leaves `_fillsize` at 0.  A failed
  `fseek` loses the position, and `rewind` hides a failed write.

## 4. Proofs

Every theorem holds for every value of the constants that the named assumption
of its module allows (types, distinct special values, `NFd <= MaxRef` for the
counter of 8 bits and 255 descriptors).  Bounds that exist for TLC
(`MaxStarts`, `MaxFrames`, `MaxObj`, ...) are arbitrary numbers in the proofs.
Each inductive invariant was first checked by TLC as an invariant of the run.

**Thunks.**  `ThunksProofs` proves `IInv == StackInv /\ CtxInv /\ ObjInv`
inductive.

* `NoretLive` alone is not inductive: leaving a call puts back the value that
  call saved.  `StackInv` adds that the frame of the k-th activation of a
  program saved k - 1, that there are as many frames as activations, that only
  the last activation is in phase "C", and that programs with activations are
  loaded.  The lemmas `PushLevel` and `PopLevel` count activations.
* `CtxInv` is `SavedWhileHost /\ ContextOwned` with types; together they are
  inductive, each alone is not (restore relies on the copy being fresh, which
  relies on the pointer being the running program's).
* `NoLeak` compares `objcnt` with a value saved in a frame.  `ObjInv` says that
  the saved values form a chain in which each link is the previous one plus the
  number of recorded and of failed objects of that row, that `objcnt` is the
  end of the chain, and that rows above `recur_cnt` are empty.  The lemma
  `LeaveCounted` gives what is left in the row of an activation that ends.

From `IInv` follow `TypeCorrect`, `NoretAlwaysLive`, `ContextsRight`, `NeverLeaks` (the assert fails only for an activation that lost
an object whose allocation had failed) and `IdleAlwaysClean`.

Its last part proves `Refinement == Spec => PrivateSpec`: the private
value of a program is the live globals if the pointer is its own and the saved
copy otherwise.  Every step of `Thunks` maps to a step of `PrivateContext` or to
a stutter; the step proof uses `IInv`.

**Vectors.**  `NoVoid` and the action property `Restores` compare a vector with one
that was saved many steps ago, so neither follows from the step alone.  `VInv`
says that what a program found is what the one below it left (`Linked`), that this
leads only to programs below or to the host (`Found`), who may have the timer
(`TimerOwner`) and which callbacks belong to whom (`Owned`).  That vector 0x24 stays
with the program started last is `CritStays`.

**Signals.**  `SInv` (types, that handlers belong to programs not older than the
running one, and that a diverted signal has a handler to go back to unless a child
ran inside `sigprocmask`) gives `SignalTypes` and `ChildrenIsolated`, for all
habits of the programs.  `PInv` is about plain programs: how far the loop of an open
`sigprocmask` is, which signals are diverted at that point, what is recorded,
and what the call will assign.  It gives `MaskIsExact` between calls and
`MaskComputed` for the step that ends one.

`SignalsRefine == Spec => RefinesSignalMask` is the refinement.  The disposition
of a diverted signal is the handler that `sigprocmask` saved, the mask is the set
of diverted signals, and the abstract calls are the handlers among the frames of
the stack (`CallsOf`).  For programs that are not plain the abstract program is
never up.  Each action maps to one step or to a stutter; `MapsFrom`
and `MapsTo` say what the mapping is before and after a step, so that the proof
of an action does not look into the stack.  That no `sigaction` is ever in
progress for SIGKILL, which its test excludes, is needed and is part of the type
of a frame.

**ITimer** (the last part of `VectorsProofs`, which extends both modules).  `NeverLate` speaks of the first tick at which a timer is due, which
a step of the clock changes.  `OnTime` says the same in a form that is kept: the
tick before the one that raises SIGTIMR comes before the timer is due.  The rest
of `IInv` is types, `OneShots` (no interval is kept unless intervals are used) and
`HookedWhileArmed`.  The proof is arithmetic with the division of `FirstTick`.

**Loader.**  `ReachesItself` is about the innermost library only; when that ends,
the one around it must find itself again.  `Placed` says so of all that run, and
needs `Nested`: what runs for the same handle has different slots.  `Known` keeps
a new library apart from those that run, `Tables` ties the symbol table of a
handle to its program.

**FsExt.**  `Counted` speaks of every live program, and a step is made by one of
them.  So the invariant `XInv` is in parts: `Fit` is what the running program and
the statics satisfy, `Waiting` that each waiting program is another one and is
covered by the counts; the operators keep `Fit` and change nothing that
belongs to another program (`Others`).  These hold for all habits, children,
`dup2()` over a device and failing allocations included, and give `DataCounted`.
`Hooked` (a program that looked its table up has its hook) holds as long as
programs run one after another.  `Plain` is about programs without any habit: the
descriptors a program was given are those with a function and those with data,
and an object has as many descriptors as it counts.  It gives `DevicesWork` and,
with `Hooked`, `ObjectsTidied`; the lemma `LoopKeeps` carries both through the loop
of `__FSEXT_close_all`, and `PlainExit` shows that the loop leaves no object.
The proof needs `MaxStarts` to be at least 1: the first program must have a number.

**Exit** (the last part of `FsExtProofs`, which extends both modules: the hook of
the extensions is called in the middle of `exit()`).  `Once` keeps the list, the
rest of the loop and the functions already run disjoint and the first two in
falling order; `Orderly` adds, for programs whose functions only write and return,
that what ran and what is left are what was registered, and `Written` where nothing
can be written any more.

**Stdio.**  `SeekSafe == Spec => []SeekBackSafe`.  What `fseek` finds in the buffer
was put there by earlier calls of any kind, so the invariant is about a stream
at every point between two functions of the library: `Good(H, s)`, of a stream `s`
and the habits `H`, which each of `_filbuf`, `_flsbuf`, `__getc`, `__putc`, `Flush`,
`Seek`, `Unget` keeps in any state (`FilGood`, `FlsGood`, ...).  Its parts:
`Formed` (types, and the position is within the file); `Kinds`, which
combinations of flags, buffering and buffer there are; `Stored`, that what
was stored consists of bytes and fits into the file when it is written; `Room`, how far
`_ptr` and `_cnt` may go, where a line buffer that may be written to either counts
down from 0 or holds the one byte of an `ungetc`; and `Window`, that the buffer of a
stream that is only read is what precedes the position of its descriptor in the file.
`TypeOK` alone is not inductive: that `_cnt` of a line buffer starts at 0 is
not in it.  The loops of `fread` and `fwrite` go by induction on the bytes done.
The assumption that the files to begin with are no longer than `MaxLen`, the
bound on files, is part of `StdioConstantsOK`.  The program is one that keeps to
the order of calls ISO C asks for (`MayRead`, `MayWrite`), and the premises of
`SeekBackSafe` and `Bounded` name the habits for which it is false (section 3).

**FdProps.**  The assumption `MaxStarts = 1` is part of the theorems: programs
that share the statics overwrite each other's entries, and TLC has
counterexamples for two.  The lists themselves have no good invariant, since
`remove_list` loses links; `Lists` is what is left of them: the heads are right,
a link back is answered by a link forth, and no link of an object that is not in
use leads to one that is.  This suffices for the cache to hold only unused
objects, and with `Counts`, `Named` and `Tracked` it is inductive.  `Cleared`
(close), `Dupped`, `SetProperties` and `Cleaned` (the loop of `exit_cleanup`)
are the lemmas on the operators, each for any state that satisfies `Good`.

**FileModes.**  `TypeOK` is not inductive: growing is decided by `count`, which a
child resets, and the place of a mode by `grown`.  `Sized` ties both to the limit
DOS was told.  `GrowsInTime` needs `Early`: only NUL can be open on the last
descriptor of the small table as long as that table is in use, because meeting it is
what makes the table grow.  `Shut` (what is closed was not asked for) and `Kept`
tell the descriptors of the program from the one open for NUL.  `Alone` says that a grown table is counted as grown, which
is what `ModesKept` and `OpendirClean` need and what a child destroys, so both
are about programs that run no other.  `Set` and `Placed` say what
`__file_handle_set` leaves in any state; every operation is a few uses of them.
`Moves` follows `move_fd` through its recursion: the descriptors it collected
are new, binary and all that was added (`MovedIs`).

Induction over data.  The induction rules of the library take an operator as a
parameter and cannot be used, but a set of naturals that is not empty has a
least element (`Least`, from the well-foundedness of `<`), and this is enough
for induction over a set (`UpTo`).  `FileModesProofs` uses it for the recursion
of `move_fd` (`LevelsExist`, `Moves`), and `FdPropsProofs` to show that the
recursive functions of the model exist and have their values (`NthValue`,
`LoopExists`), that a list stays in a set closed under its links (`NthStays`),
and what the loop of `exit_cleanup` leaves.  `SignalsProofs` uses it for the calls
on the stack, `FsExtProofs` for the loop of `__FSEXT_close_all`, and `StdioProofs`
for those of `fread` and `fwrite`.

**Only model-checked.**

* `RefinesByteStream` of `Stdio`: no theorem.  It needs more than `Good`: what is
  in the buffer of an update stream, which bytes were pushed back, and what every
  call returned, all as sequences built from the old ones by each loop.
* `Dxe` uses `RECURSIVE` operators, which the prover does not accept.
* `OneShotExpires` and `Terminates` are liveness under fairness.
* `TempGoneAtExit` is false (section 3).

## 5. Plan

All modules that were planned are written.  What is left, in this order:

1. `Stdio`: the refinement of `ByteStream`, first for the calls that touch only
   the buffer, from `Good`.
2. `Dxe`: the recursion through the dependencies as a recursive function on a
   depth, and a proof of `UsesCounted`.
3. `Stdio`: text mode and append mode.

## 6. Running

`tlc -config <cfg> <module>` with the pairs listed under `runs` in
`PROJECT.json`; `tlapm <module>` for the modules whose names end in `Proofs`.
The longest runs are `fsext`, `stdio`, `modes`, `fd` and `signals`, of two to
three minutes each; the longest proof is `FdPropsProofs`, of about three.

## 7. Not modelled

* The models stand for some 3500 lines.  The repository has fifty times as many,
  but most of them are ncurses (`contrib/ncurses`), which is vendored and has no
  logic of this project, and routines of the C library that compute a result from
  their arguments: those a unit test covers, and a model would only repeat.  The DPMI wrappers forward one
  call each.  libsocket is a third-party library in front of a network driver
  that is not in the repository.  String, math, time and formatting routines are
  sequential functions without shared state.  Generated stubs and assembler
  appear only through what they do in C.  dj32 is the same engine with a single
  handle.
* `thunks.c`: logging, the narrowing of a result to `int` in `dj64_asm_call`, the
  dispatchers without thunk tables.
* `elfexec.c`: files, shared memory and the failures before a library is loaded.
* `fd_props.c`: flags other than the temporary one; programs that end with
  `_exit` without their cleanup.
* Signal 0 and SIGMAX, which no mask can contain.
* Several programs with timers armed: `Vectors` has the hook, `ITimer` the time.
* Stdio: text mode, append mode, the hooks of termios, `stdin` flushing line
  buffered output, `fdopen`, `freopen`, streams of directories.
