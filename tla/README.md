# A verification project for the JOS kernel (Sistemas Operativos, 2C 2021)

TLA+ models of the kernel in `src/tp-parte4`, the TLC instances that check them
and the theorems that TLAPS proves about them. The directories `tp-parte1` to
`tp-parte3` are earlier deliveries of the same kernel; `tp-parte4` contains all
of them and is the one modelled. `src/shell` and `src/fork` are separate Unix
programs.

| File | What it is |
|---|---|
| `KernEnv.tla` | processors, big kernel lock, traps, scheduler, environments |
| `KernEnvProofs.tla`, `PmapProofs.tla`, `ForkCowProofs.tla`, `PipeProofs.tla`, `BlockFsProofs.tla`, `FileServerProofs.tla`, `ShellProofs.tla`, `PrimesProofs.tla` | theorems about the module of that name, checked by TLAPS (section 10) |
| `Pmap.tla` | physical pages, page tables, mapping system calls, TLBs |
| `VirtualMemory.tla` | the abstract address spaces that `Pmap` implements |
| `ForkCow.tla` | fork with copy-on-write, the page-fault handler, spawn |
| `ForkMemory.tla` | the private and shared memories that `ForkCow` implements |
| `Pipe.tla` | file descriptors and a pipe |
| `ByteStream.tla` | the bounded queue that `Pipe` implements |
| `BlockFs.tla` | block cache, bitmap, files, crashes |
| `FileServer.tla` | open-file table, server loop, clients, IPC |
| `FileService.tla` | the file calls that `FileServer` implements |
| `Unix.tla` | processes, pipes and descriptors of the host system (external) |
| `Shell.tla` | the shell of `src/shell`, on `Unix` |
| `Primes.tla` | the sieve of `src/fork`, on `Unix` |
| `Parsing.tla`, `DebugInfo.tla`, `UserMem.tla`, `Args.tla`, `Paths.tla`, `SpawnImage.tla`, `Exercises.tla`, `KernMap.tla`, `Console.tla`, `DiskImage.tla`, `JosShell.tla`, `Strings.tla`, `Format.tla`, `Multiproc.tla`, `BootLoad.tla` | sequential algorithms, compared with what they are to compute (section 8) |
| `MC*.tla`, `*.cfg` | TLC instances |
| `PROJECT.json` | components, runs, mutants, source map, findings, hazards, theorems |

Run a model with `tlc -config PmapSafety.cfg MCPmap`, a proof with
`tlapm KernEnvProofs.tla`. The configurations `KernEnvTwoCpus` and
`KernEnvDestroyTwice` are not among the runs of `PROJECT.json`: each shows one
disagreement of section 9, and ends with its counterexample.

How the modules fit together: `KernEnv` justifies that a system call is one
step, and that every runnable environment gets its turn. `Pmap` takes the
former, and shows what the mapping calls do to address spaces. `ForkCow`, `Pipe`
and `FileServer` are programs made of these calls: one call per step, with
failures and deaths in between. `BlockFs` is what the server does within one
request of `FileServer`. `Shell` runs the trees that `Parsing` makes; `Shell` and
`Primes` run on another system, `Unix`.

## 1. Inventory

### Processors, environments, scheduler, traps (`kern/env.c`, `sched.c`, `trap.c`, `init.c`, `spinlock.c`, `syscall.c`)

*State.* `cpus[]` (status, current environment), `kernel_lock`, `envs[]`
(status, identifier, parent, page directory, IPC fields), `env_free_list`.
*Operations.* Booting the processors; a trap from user mode or from the hlt
loop; `env_alloc`, `env_free`, `env_destroy`, `env_run`, `sched_yield`,
`sched_halt`; the system calls exofork, destroy, set_status, set_trapframe,
yield, ipc_recv, ipc_try_send.
*Interaction.* All processors share `envs[]` under one lock that is taken in
`trap()` and released in `env_run` or `sched_halt`. A processor decides from
`cpu_status` whether an interrupt came in the hlt loop, where it does not hold
the lock. The memory component supplies page directories.
*Hard.* Destroying an environment that runs elsewhere (zombies), reuse of slots
and identifiers, lock-free steps (boot handshake, `env_pop_tf`, the wake-up of
a halted processor), scheduling fairness, an unfair spin lock.
*Correct when.* Exactly the lock holder runs kernel code; no environment is
current on two processors; no processor uses a freed page directory; the free
list is exact; permission by identifier recognises real parents only; a blocked
receiver stays blocked until its message; runnable environments run.

### Physical pages and address spaces (`kern/pmap.c`, parts of `env.c`, `syscall.c`)

*State.* `pages[]` with `pp_ref`, `page_free_list`, one page directory and its
page tables per environment, the shared kernel entries above `UTOP`, the TLBs.
*Operations.* `page_alloc`, `page_free`, `page_decref`, `pgdir_walk`,
`page_insert`, `page_lookup`, `page_remove`; `env_setup_vm`, `region_alloc`,
`env_free`; sys_page_alloc, sys_page_map, sys_page_unmap and the page transfer
of sys_ipc_try_send.
*Interaction.* Called by the environment component and the system calls; the
hardware reads the tables through the TLB, concurrently with other processors.
*Hard.* Sharing with reference counts, running out of memory between two
allocations of one call, stale translations, an entry that is empty but not
absent.
*Correct when.* Counts equal the number of entries; free pages are the
unreferenced ones; page tables are private; a program sees only what it
allocated, was given, or agreed to receive, with no more rights than the giver.

### IPC library (`lib/ipc.c`, with `sys_ipc_*`)

*State.* `env_ipc_recving`, `env_ipc_dstva`, value, sender, permission.
*Operations.* `ipc_recv` blocks; `ipc_send` tries, yields and tries again.
*Hard.* Several senders, a receiver that dies, a message from somebody else.
*Correct when.* Each successful send is one receive with that value; nobody is
woken without a message.

### Copy-on-write fork (`lib/fork.c`, `lib/pgfault.c`)

*State.* The page tables as read through `uvpt`, the upcall, the exception stack.
*Operations.* `fork` (one `duppage` per page), `pgfault` (allocate, copy, remap).
*Hard.* Parent and child run while pages are shared; the parent writes its own
stack in the middle of `fork`; nested faults.
*Correct when.* After `fork` each process sees the memory as it was at the call
and its own later writes only.

### File descriptors and pipes (`lib/fd.c`, `lib/pipe.c`, `lib/pageref.c`)

*State.* Fd pages and the pipe's data page, shared with `PTE_SHARE`; their
reference counts stand for the number of open ends.
*Operations.* pipe, read, write, dup, close, fork, `_pipeisclosed`.
*Hard.* The two counts are read one after the other; fork and close change them
in several steps; no lock protects the buffer.
*Correct when.* A pipe is a FIFO of bytes; end of file only when no writer is left.

### Block cache, file system, server (`fs/bc.c`, `fs/fs.c`, `fs/serv.c`, `lib/file.c`)

*State.* Cached blocks with dirty bits, disk, bitmap, files; open-file table;
one request at a time over IPC.
*Hard.* What a crash leaves on disk, blocks freed and reused in the cache, slots
recognised as free by a page reference count, clients that die or misbehave.
*Correct when.* No block belongs to two files or to a file and the free list, on
disk too after any crash; an open file identifier reaches only its file.

### Shell and exercises (`src/shell`, `src/fork`)

*State.* Processes, pipe ends, the status variable.
*Hard.* Pipe ends left open, children collected in another order than started.
*Correct when.* A pipeline ends if its commands do; no zombie stays; the status
shown is that of the command just run.

### Sequential parts (`boot`, `kern/console.c`, `kern/mpconfig.c`, `kern/kdebug.c`, `lib/printfmt.c`, `lib/string.c`, `lib/args.c`, `lib/spawn.c`, `user/sh.c`, `fs/fsformat.c`)

*State.* The keyboard's shift state, the ring of typed characters and the
screen; the processor table found in memory; the kernel's first mappings; the
block map of the disk image while it is built.
*Operations.* Reading keys and lines; loading the kernel from disk; searching
the debug tables; formatting and scanning text; laying out a program's image;
splitting a command line; building the image.
*Interaction.* Each runs from start to end without another actor in between;
the console's ring is filled by interrupts and emptied by `cgetc`.
*Hard.* Boundaries: a full ring, the last column, the end of a buffer, a region
that is not a multiple of a page, an argument block without arguments.
*Correct when.* The result is the one a direct definition gives (section 8).

What is left out of these parts, and the parts left out as a whole, are listed
in section 11 and in `PROJECT.json` with the reason.

## 2. `KernEnv`

One action per step of the code between two points where other processors can
interfere. `mode[c]` says where processor `c` is: `spin` in `spin_lock`,
`kernel` after it, `tail` after `trap_dispatch`, `sched` at the entry of
`sched_yield`, `pop` in `env_pop_tf` with the lock released, `user`, `halted`,
and the boot states. `env_status`, `env_parent_id`, `env_runs`,
`env_ipc_recving`, `env_free_list` are the fields of that name; `gen` is the
generation part of `env_id` (the slot is the rest); `env_pgdir[s]` says whether
the slot has a page directory; `cr3[c]` is the identifier of the environment
whose directory processor `c` has loaded. `kin` is a history variable: who
created a slot, as long as both exist.

Actions have the names of the functions. `Dispatch` is the entry of
`trap_dispatch`, `sys_other` stands for every call without effect on the table
and for every failing call. A panic inside the kernel leads to `monitor`, which
keeps the lock for ever, as the code does: `sys_page_map` panics when it finds no
memory for a page table (`syscall.c:276-279`), `sys_env_set_trapframe` faults when
the caller has not mapped the frame's address, which was tested in the address
space of the target (`syscall.c:144-150`, `trap.c:353`). Where the code decides from data
that is left out (is there an upcall, is a buffer valid, is there memory) the
model may go either way.

`Calls` says which calls programs make, `Careful` which of them they make only
as `lib/` and `user/` do: `set_status` only starts a child that never ran,
`destroy` is not repeated on a zombie, `set_trapframe` applies to a child that
is not runnable, with a frame on the caller's stack. The kernel enforces none of this, and section 9 shows what
happens otherwise.

| Run | Instance | Shows |
|---|---|---|
| `kernel_safety` | 2 CPUs, 3 slots, all calls, careful; generations to 2; 1.07 M states | `CurrentExclusive`, `RunningIsCurrent`, `Cr3Live`, `FreeListExact`, `ParentIdSound`, `RecvingBlocked`, `ZombieFreedByItsCpu` |
| `kernel_any_use` | 2 CPUs, 2 slots, all calls in any way, generations that wrap at 2; 0.65 M states | `TypeOK`, `LockHolder`, `HaltedFlag`: the lock discipline survives even the panics of such programs |
| `kernel_live` | 2 CPUs, 3 slots, nothing is destroyed, the kernel does not panic | `NoStarvation`, `BootCompletes` |

*Bounds.* Two processors exhibit every conflict of two holders of a reference;
the properties speak of pairs. Three slots allow a parent, a child that is a
zombie and a reused slot at once. `GenBound` limits how often a slot is reused:
2 gives every slot a former owner. In `kernel_any_use` the bound is not binding
and the generation wraps.

*Fairness* (`FairSpec`, only `kernel_live`). Kernel code
runs with interrupts off and goes on: weak fairness of each processor's trap,
scheduler and return steps, and of booting. The LAPIC timer is periodic and an
interrupt that arrives with IF clear stays pending, so a processor that is again
and again in user mode or halted is interrupted there: strong fairness of the
timer. `spin_lock` is a test-and-set loop without a queue: only *some* waiting
processor gets a free lock. That each processor gets it is not assumed, and no
property says so; in particular, that every zombie is collected is not claimed.

## 3. `Pmap` and `VirtualMemory`

`mem.at` maps every *place* that holds a counted pointer to an entry: the page
directory of an environment (`Dir`), a page table (`Table`), an entry of a page
table (`Pte`) and the one shared entry at `UTOP`, which is the start of the
mapping of `envs[]`. An entry is a page and permission bits; `ZeroPte` is the
number 0, which names page 0. `sys_ipc_recv` takes every address from `UTOP` up,
aligned or not, and `sys_ipc_try_send` puts a page there without a test
(`syscall.c:379`, `408-414`). So the addresses of the model are those below `UTOP`,
`UTOP` itself, the `Windows` at `UVPT`, where the entry of an address is an entry of
the page directory (`env.c:197`), and `KMEM` for all others above `UTOP`. A page
received in a window or at `KMEM` takes its place in the tables and sets `lost`: from
there on a program's data are page table entries. `mem.ref` is `pp_ref` modulo `RefMod`, `mem.free`
the set of linked pages: `page_alloc` takes any of them, which contains the LIFO
order of the code. The functions of `pmap.c` are operators from memory to
memory; a page table that `pgdir_walk` may need is passed as `q`, `NULL` when
memory is exhausted. `env_free` drops one reference after the other in the code;
the model computes the sum and, for each page, whether the count passed 0.

A system call is one step (`KernEnv` shows that the lock makes it so). `tlb[e]`
is what the processor that runs `e` has cached; `access` fills it between
calls, also while a zombie has not yet trapped. Every return to user mode is
`env_run`, whose `lcr3` empties the TLB, so the `invlpg` of `tlb_invalidate`
has no effect of its own in the model. `env_create` is modelled page by page
at boot, where lack of memory panics.

`VirtualMemory` says what programs may rely on: private maps from addresses to
frames that change only through the environment, its parent, or an awaited
message. In three places the kernel does less than its comments promise, and
`VirtualMemory` says so: a copy of what is not mapped gives page 0
(`syscall.c:237`), a page sent to an environment that named `UTOP` replaces the page
of `envs[]` for all (`syscall.c:328`), and a page received above `UTOP` ends every
promise. `ImplementsVirtualMemory` is the refinement; present entries that name page 0
and the entry at `UTOP` are part of what is mapped.

| Run | Instance | Shows |
|---|---|---|
| `pmap_safety` | 2 environments, 5 pages, 2 addresses in a table, counts modulo 12; 119 k states up to symmetry of pages | `TypeOK`, `RefExact`, `NoLeak`, `TreeOK` |
| `pmap_spaces` | 2 environments, 1 address, read-only and writable entries, memory touched between calls; 130 k states | `TlbFresh`, `WriteNeverGranted`, `ImplementsVirtualMemory` |

`TreeOK` includes that page tables and directories are private (`TablesPrivate`).

*Bounds.* Five pages are two directories, two tables and one page to share;
memory then runs out in every position of a call. Pages are interchangeable
except page 0 and the page at `UTOP`, hence the symmetry. A model stops when the
kernel panics, when page 0 is linked in the free list, and when a page was received
above `UTOP` (`Stopped`): from there on one page may be two things. The properties
speak of the time up to then. With counts modulo 12 that takes twelve
more fresh insertions than mappings of page 0. The instances keep the number of
mappings of a page below `RefMod`. `CHECK_DEADLOCK FALSE` is set because of these stops.
`RemoteCalls = FALSE` is the library's discipline: a parent remaps a child only
while no processor runs it. Only the permission bits P, W and U are modelled.
The addresses that sys_page_alloc, sys_page_map, sys_page_unmap and the sender's side
of sys_ipc_try_send refuse, and those below `UTOP` that sys_ipc_recv refuses, return
without a change and are left out.

## 4. `ForkCow` and `ForkMemory`

`pte[e][va]` is the entry of `e` at `va` with the bits W, COW and SHARE;
`content` is one value per page. `call[e]` is the program counter inside `fork`
or `spawn`, `fault[e]` the one inside `pgfault`, which serves one store. The
steps are the system calls: `child_exstack`, `duppage` (the child's entry),
`duppage_self` (the own one), `fork_done`; allocate, copy, map, unmap of the
handler; allocate at UTEMP, read, map, unmap of `spawn`, or `spawn_blank` for a page
that the file does not fill. `sys_exofork` and `sys_page_alloc` may fail at any time,
as memory and slots are also the kernel's and of other programs: `fork_panics`,
`pgfault_panics` and `spawn_fails` say what then happens. `sys_page_map` cannot fail in
the calls that are made here: for want of a page table it panics the kernel
(`syscall.c:276-279`), and nothing runs after that, the panics of `duppage`
(`fork.c:77-86`) and of `map_segment` included. `store` is a program that writes; the stack may be written between
any two steps of `fork` and `spawn`, because these run on it. `env_destroy` ends
a program at any point.

`ForkMemory` is the promise: each program has private memory, `Shared` addresses
are common, a fork gives the child for each address a value that the parent had
there *during* the fork (the stack changes while it is shared), a spawn the image.
`ImplementsForkMemory` is the refinement; `during` is the history it needs.

| Run | Instance | Shows |
|---|---|---|
| `fork_cow` | 3 environments, 5 pages, one text, one shared and one stack address, 2 values; 289 k states up to symmetry of pages and of the two that are not the first | `TypeOK`, `NoWritableAlias`, `CanFault`, `ImplementsForkMemory` |

*Bounds.* Three environments make a grandchild that shares a page with its
parent and grandparent, and faults of two of them at once. The stack is the
private address of the instance: data pages are treated alike by the code and
have fewer interleavings. Five pages run out within `fork`, `spawn` and the
handler, and a call may fail before that.

## 5. `Pipe` and `ByteStream`

`fdpage[e][i]` and `data[e][i]` say what is mapped at the two addresses of
descriptor slot `i`; the reference counts that `_pipeisclosed` compares are
computed from them (`Pmap` shows that they are exact). `ring` is the pipe's page.
`loc[e]` is the point of the library where `e` is: the four steps of `pipe`, the
test of the positions, the two reads of the counts, the copy of a byte and the
move of the position, the two unmaps of a close, the maps of `dup`, the pages
that `fork` shares one after the other. `moved[e]` is the comparison of
`env_runs`: a step of another program that is not on a processor meanwhile makes
it change. `env_destroy` may end a program between any two steps.

`ByteStream` is a bounded queue with two ends that close once.

| Run | Instance | Shows |
|---|---|---|
| `pipe` | 2 environments, 2 slots, buffer of 2, one processor, 3 bytes, 6 calls; 243 k states | `DescriptorsOK`, `ClosedIsTrue`, `ImplementsByteStream`, `CallsEnd` |
| `pipe_lost_byte` | the same | violates `EofWhenEmpty`, section 9 |

*Bounds.* A buffer of 2 and 3 bytes wrap both positions. Two slots hold both
ends or a duplicate of one. Six calls allow pipe, fork, a close on each side, a
transfer and an exit. One reader and one writer at a time (`Using`): the library
has no lock, see section 9.

*Fairness.* Weak fairness of each program's next step: `NoStarvation` of
`KernEnv`. Strong fairness of the second read of the counts in the same turn as
the first: `_pipeisclosed` repeats until `env_runs` did not change, so a timer
that always fell between the two reads would keep it there; a turn is long
compared with them.

## 6. `BlockFs`, `FileServer`, `FileService`

*`BlockFs`.* `fs` is the storage: blocks on disk, pages of the cache, which are
mapped, which are dirty. The functions of `bc.c` and `fs.c` are operators from
storage to storage. A request is a sequence of steps between which it may fail
or the machine may stop: setting the size, the walk to a block with allocation
of the indirect block, the allocation of the data block, each flush. A truncation that
meets a dirty indirect block writes it first, and takes two steps. A size may pass the
last block that a file can have; that block is asked for and refused (`fs.c:146`). A block is
a word, so that an old data word may be read as a block number. `crash` drops the
cache. `broken` records that metadata in use is wrong: "stale" after an indirect
block was taken that is not clear, "crash" after a crash that left the bitmap
behind. `Ownership` and `ContentsKept` speak of what happens before that.

*`FileServer`.* `srv.at` is the place in the loop of `serve`: waiting, scanning
the open-file table entry by entry, handling, sending the answer. `loc[p]` is the
place of a client in `fsipc`. `ipc_send` succeeds only when the server is blocked
in its receive, `reply` only when the client is. `page[e]` is the page shared by
the server and the holders of a descriptor; `pageref` counts them. Clients fork,
dup, close, exit and are destroyed by their parent, also in the middle of a call.
`killed` is the history of the latter.

*`FileService`.* A call has an invocation, one moment where it takes effect, and
a return; open files disappear with their last holder.

| Run | Instance | Shows |
|---|---|---|
| `block_fs` | 2 files, 2 data blocks, one direct and one indirect offset, one value, 1 crash; 952 k states up to symmetry of files | `CacheOK`, `Ownership`, `ContentsKept` |
| `file_server` | 2 clients, 2 open-file entries, 3 descriptors, 2 files (one missing), 4 calls; 654 k states | `ServerOK`, `Answered`, `ImplementsFileService` |

*Bounds.* Two blocks for two files: the disk is full in every position of a
request, and a block passes from one file to the other. One value is enough to
tell what a program wrote from a cleared block, a block number and nothing at
all. Two open-file entries
are used up and reused under new numbers; four calls allow open, fork, an access
by each, and another open after a close. The one byte count, 2, leaves an offset
behind the end of a file that was cut. `WidthAssumption` keeps file numbers below 2^31:
`openfile_alloc` returns the 32 bits as an `int` that `serve_open` takes for an error
when it is negative (`serv.c:80`, `122`), after 2^21 opens of one entry.

*Fairness.* Weak fairness of the server and of each client's next step. Which of
several senders gets the server is not assumed: `Answered` speaks of a request
that the server took.

## 7. `Shell`, `Primes`, `Unix`

`Unix` models what the host system does for these programs, from how they use
it: processes with a parent and a status, descriptors that fork copies and exit
closes, pipes that give end of file or SIGPIPE. `Shell` has one action per system
call of `run_cmd`, `check_zombies` and `exec_cmd`, the opening of a file and its `dup2`
among them, and the end of input; descriptors opened with O_CLOEXEC close when the
program starts; a program that is run reads
and writes its standard descriptors if they are pipes, and ends when it likes.
`Primes` follows `main` and `filter` of `primes.c` step by step, with the buffer
of `printf` as `pending`.

| Run | Instance | Shows |
|---|---|---|
| `shell` | 2 lines of: background, two redirections, a pipeline of three, cd, pwd, empty, exit; 6 processes, 2 pipes of one item; 273 k states | `ProcessesOK`, `ForegroundGone`, `NeighboursJoined`, `ShellReturns` |
| `primes` | 13 on a terminal: 8 processes, pipes of 2 items; 11.8 k states | `OutputOK`, `MainIsLast`, `Ends` |

*Bounds.* A pipeline of three is the shortest in which a right side is a pipe
again and inherits descriptors of the outer one. With the shell it takes six
processes, so it runs whole, or loses its last `fork` to a background program
that is still there. Two lines let a background
program end while the next line runs. Pipes of one or two items make every
writer wait. 13 is the sixth prime: six filters, `main`, and the last child.

*Fairness.* Only that some process goes on when one can: none is preferred.

## 8. Sequential algorithms

Each is written as the code computes it and compared, in a named assumption,
with a definition of its meaning that is not computed that way. TLC evaluates the
assumption over all inputs of the size given, as part of the run that extends
the module.

| Module | Compared | Evaluated in |
|---|---|---|
| `Parsing` | `LinesAreParsed`: the tree of every line of up to 4 words of 13 kinds | `shell` |
| `UserMem` | `RangesAreChecked`: `user_mem_check` on a machine of 16 bytes in 8 pages, all ranges and mappings | `pmap_safety`, `pmap_spaces` |
| `DebugInfo` | `SearchFinds`, `AddressesAreFound`: the search in the symbol table, and `debuginfo_eip` on a program of two files | the runs of `KernEnv` |
| `Args` | `OptionsAreTaken`: all command lines of up to 2 words of up to 3 characters, with an option that takes a value | `fork_cow` |
| `SpawnImage` | `StackHoldsArguments`, `SegmentIsLoaded`: places of up to 3 arguments; bytes of a segment for all sizes and offsets within two pages | `fork_cow` |
| `Paths` | `PathsLeadToFiles`: all paths of up to 6 characters in a tree of three levels | `block_fs` |
| `Exercises` | `LinesBecomeArguments` (`xargs.c`), `HitsArePrinted` (`find.c`) | `primes` |
| `KernMap` | `KernelIsMapped`, `MemoryIsEnough`, `RegionsAreApart`: free list, mappings and device regions after `mem_init`, for all machines of up to 40 pages and 13 lengths of the kernel | `pmap_safety`, `pmap_spaces` |
| `Multiproc` | `ProcessorsAreFound`: all tables of up to 6 entries, 3 slots | the runs of `KernEnv` |
| `BootLoad` | `KernelIsLoaded`: two segments of up to 5 bytes at all places and offsets, sectors of 4 bytes | the runs of `KernEnv` |
| `Console` | `KeysAreTyped`: up to 4 presses and releases of 9 keys; `InputIsQueued`: 7 characters and reads on a buffer of 3; `EchoIsLine`: lines of up to 6 keys that begin anywhere on a screen of 3 by 3 | the runs of `Pipe` |
| `JosShell` | `CommandsAreTyped`: all lines of up to 6 characters; `PartsAreApart`: all lines of up to 5, with 0 to 2 pipes available | the runs of `Pipe` |
| `DiskImage` | `ImageIsConsistent`, `ImageFits`: 1 to 4 files of 8 sizes on disks of 2 to 22 blocks | `file_server` |
| `Strings` | `MoveIsExact`: all copies within 9 bytes; `StringsAreOrdered`: strings of up to 3 characters; `NumbersAreRead`: `strtol` on up to 4 characters in 4 bases | `primes` |
| `Format` | `NumbersArePrinted`, `StringsArePrinted`, `BufferIsBounded`: widths, precisions and flags, formats of up to 5 characters | `primes` |

Two links to the machines: `KernMap` shows that what `Pmap` starts from is so (no
page in use is on the free list, nothing above UTOP is writable for programs), and
`DiskImage` that the disk on which `BlockFs` and `FileServer` start is consistent.

The restrictions that these assumptions state are differences of section 9.

## 9. Where the code and its comments differ

Only `pipe_lost_byte` is a run of `PROJECT.json`. The other counterexamples come
from the configurations named here, with the changes given, or from checking the
named definition.

Kernel:

* `KernEnvTwoCpus.cfg`: `sys_env_set_status` stores RUNNABLE over RUNNING, and a
  second processor runs the environment (against `sched.c:26`).
* `KernEnvDestroyTwice.cfg`: destroying a zombie frees it under the processor that
  runs it (against `env.c:489`).
* `KernEnvLive.cfg` with `CPUs = {c0}`, `NBoot = 3`, `Calls <- ForkCalls` and
  the property `NoStarvation`: the scan restarts at slot 0 when the last environment is
  gone, so it is not round robin (against `sched.c:16`). A program in a high slot
  may wait for ever while others fork and exit for ever; the liveness properties
  of the other modules have a bounded number of calls, where this cannot happen.
* `PmapSafety.cfg` with `Envs = {e1}`, `RefMod = 3` and the invariant
  `ZeroPageReserved`: every insertion at a fresh address below an existing table
  takes a reference from page 0, which is linked as free when the count comes
  round (against `pmap.c:311` and `527`). The instance uses counts modulo 3; in
  the code it takes 65536 insertions.
* `PmapSafety.cfg` with four pages, `VAs <- OneVA` and the invariant `NoPanic`: `sys_page_map` frees the mapped page when it cannot get a
  page table, and panics (against `syscall.c:241`).
* `PmapSafety.cfg` with the invariant `KernelMapping`: a page sent to a receiver that wants none replaces the
  mapping of `envs[]` (against `syscall.c:328`). No program of `user/` does this.
* `PmapSafety.cfg` without `lost \/` in `RefExact` and `TreeOK`: a page sent to a receiver
  that named an address at `UVPT` takes the place of a page table (`syscall.c:379`,
  `408-414`, against `syscall.c:328`). The table is freed with its entries, whose pages
  keep their counts, and what the receiver stored in the page are its mappings, the
  writable ones included. No program of `user/` names such an address.
* `PmapSpaces.cfg` with `RemoteCalls = TRUE` and the invariant `TlbFresh`: a page that a parent unmaps stays in the TLB of the
  processor that runs the child (against `pmap.c:553`).
* In the models without a configuration: `sys_page_map` of an address that is not
  mapped, below an existing table, maps page 0 (`syscall.c:237`); a page mapped
  65536 times has count 0; `user_mem_check` tests nothing when `va + len` rounds
  up past the end of the address space (`UserMem`).
* `stab_binsearch` reports a region that is not empty when every symbol of the
  type is above the address, and after an exact match takes the next symbol when
  that is one byte further (`DebugInfo`; the comment is `kdebug.c:40-43`).
* `mem_init` panics on a machine whose memory is not a multiple of 2 MB, as the size
  of `pages` is not rounded (`pmap.c:162`, `194`, `460`), and never uses the first
  page behind the kernel's data (`pmap.c:332`): `MemoryIsEnough`.
* `mp_init` lets `bootcpu` point behind `cpus` when the running processor is not among
  the first `NCPU` of the table (`mpconfig.c:185`): `ProcessorsAreFound`.
* The input buffer forgets everything when its last place is taken
  (`console.c:411`): `InputIsQueued`. Home gives nothing with Control, as `ctlmap` has
  it at the code of its release (`console.c:301`). When two Shift or two Control keys
  are held, letting one go ends both (`console.c:343`). The byte 0x7f on an empty line
  becomes a character of the line (`readline.c:28-35`).
* Not in the models: `sys_page_alloc` and `sys_page_map` do not reject bits
  outside `PTE_SYSCALL` (`syscall.c:184`).

Library:

* `pipe_lost_byte`: `read` returns 0 although a byte is in the pipe, when the last
  writer stores it and leaves between the test of the positions and that of the
  counts (`pipe.c:119-130`).
* While a `fork` shares the pages of a pipe, descriptors first, `_pipeisclosed` may
  answer that the other end is closed (`fork.c:173-180`); a parent that dies there
  leaves a child that never runs and keeps the counts unequal. `ClosedIsTrue`
  excepts both. With `NCPU = 2` it fails even so, as the other program may act
  between the reads without a change of `env_runs` (against `testpiperace2.c:34-35`).
* Two readers, or two writers, at the same time lose and repeat bytes
  (`pipe.c:134`, `167`).
* `dup(fd, fd)` loses the descriptor; a write that is cut short by a closed reader
  returns 0 and not the bytes written.
* `spawn`: without memory for the stack the child stays in the table, and the file
  stays open (`spawn.c:115-116`); without an environment the file stays open
  (`spawn.c:107`); a read error in `map_segment` leaves UTEMP mapped.

File system and server:

* `FreshIsClear` (`BlockFs`): a new indirect block is not cleared, so the words of
  its former life are block numbers (`fs.c:156`, against `fs.c:141`). New data
  blocks show old contents, too.
* `BitmapBeforeFile` (`BlockFs`): `alloc_block` flushes the new block, not the
  bitmap (`fs.c:72`, against `fs.c:52-54`); after a crash a block may have two
  owners.
* `file_write` sets the new size before it has the blocks; a read of a hole
  allocates it.
* The server panics when a client is destroyed between its request and the
  answer, or has no memory for the page (`serv.c:357`, `ipc.c:65`): `PanicNeedsKill`
  says that nothing else does it.
* A request without a page gets no answer (`serv.c:342-346`). One client may lose
  the race for the server for ever (`ipc.c:64`).

* `fsformat` without files gives the root directory a block that is free
  (`fsformat.c:175`); it relies on clear memory from `malloc` (`fsformat.c:154`).

Formatting and the shell of JOS:

* With the flag "-" numbers are padded with "-" on the left (against
  `printfmt.c:116`), and the sign comes before the padding and is not counted.
* `a > f | b` lets `b` write to `f`, as the file is opened before the fork and the
  pipe then replaces it for `a` (`user/sh.c:76-109`). A part without a command ends
  its process at once, and the shell does not wait for what is behind it
  (`user/sh.c:128-131`). With `MAXARGS` arguments the null pointer is stored behind
  the array (`user/sh.c:143`).

Shell and exercises:

* `$?` may be the raw status of a background program that ended in the meantime
  (`runcmd.c:11`, against `shell.md:161`), as `check_zombies` of `Shell` has it; no
  property is stated of it. After a pipeline it is always 65280, because the process in between
  ends with `exit(-1)` (`runcmd.c:59`) and `print_status_info` leaves pipelines alone.
* A fork that fails makes the shell wait for any background program
  (`runcmd.c:51-76`); one that fails in a pipeline leaves the left side running.
* `a | b &` runs in the foreground, and so does `a 2>&1 &`, with "&" as an argument;
  `ab>f` loses the word. A line that starts with a bar has a null left side
  (`LinesAreParsed`), which `free_command` does not expect. With a redirection, the
  variables of the command are not set (`exec.c:115` against `188`).
* `primes` with its output redirected prints numbers several times, as `fork`
  copies the buffer of `printf`: with `TTY = FALSE`, `AllPrimes` fails.
* `find` prints wrong paths below the second subdirectory of a directory, because
  `strcat` goes on where the first one left `new_path` (`find.c:58-61`):
  `HitsArePrinted` is about trees with one subdirectory per directory.

## 10. What is proved

Eight modules hold theorems, one beside each state machine. TLC checks the
properties on the instances of sections 2 to 7; the theorems say the same for every
value of the constants that the named assumptions allow. What the assumptions ask:
finite sets of processes, pages, blocks; bounds that are numbers; values that stand
for "none" and are not among the others (`NULL`, `NONE`), which a real pointer or
index is not either. `LinesAssumption` says of `Shell` that what runs in the
background is no pipe, because `parse_back` makes its command of what `parse_exec`
returns (`parsing.c:170-183`). Each proof has the same layout: an invariant that was first checked by TLC on the instance, lemmas about the
operators, one lemma per action, and the theorems at the end.

| Module | Theorems (property) | Under the hypothesis |
|---|---|---|
| `KernEnvProofs` | `KernelLock` (`LockHolder`), `WellTyped` (`TypeOK`), `HaltedMeansUnlocked` (`HaltedFlag`) | |
| | `OneCpuPerEnv` (`CurrentExclusive`), `NoRunnerForgotten` (`RunningIsCurrent`), `LiveAddressSpaces` (`Cr3Live`), `FreeListCorrect` (`FreeListExact`), `RecvWaitsForMessage` (`RecvingBlocked`), `ZombieFreed` (`ZombieFreedByItsCpu`) | `Disciplined` |
| | `ParentsRecognised` (`ParentIdSound`) | `Disciplined`, `GenBound < GenMax` |
| `PmapProofs` | `TypeCorrect` (`TypeOK`) | |
| | `CountsExact` (`RefExact`), `FreeListExact` (`NoLeak`), `TreesExact` (`TreeOK`), `NoWriteGranted` (`WriteNeverGranted`), `KernelImplementsVirtualMemory` (`ImplementsVirtualMemory`) | `[]FewMappings` |
| | `TlbNeverStale` (`TlbFresh`) | `RemoteCalls = FALSE` |
| `ForkCowProofs` | `TypeCorrect` (`TypeOK`), `CopyOnWriteIsolates` (`NoWritableAlias`), `FaultsAreServed` (`CanFault`), `ForkImplementsForkMemory` (`ImplementsForkMemory`) | |
| `PipeProofs` | `DescriptorsPaired` (`DescriptorsOK`), `PipeImplementsByteStream` (`ImplementsByteStream`) | |
| | `ClosedMeansClosed` (`ClosedIsTrue`) | `NCPU = 1` |
| `BlockFsProofs` | `BlocksCached` (`CacheOK`), `BlocksOwned` (`Ownership`), `ContentsStay` (`ContentsKept`) | |
| `FileServerProofs` | `ServerStaysUp` (`ServerOK`), `FileServerImplementsFileService` (`ImplementsFileService`) | |
| `ShellProofs` | `DescriptorsClosed` (`ProcessesOK`), `PromptAfterAll` (`ForegroundGone`) | |
| `PrimesProofs` | `WellTyped` (`TypeOK`), `MainEndsLast` (`MainIsLast`) | |
| | `PrintsThePrimes` (`OutputOK`) | `TTY` |

*The hypotheses.* Each is where the code stops being right, and section 9 has the
counterexample without it. `Disciplined`: set_status, destroy and set_trapframe are
used as the library does. `GenBound < GenMax`: no slot is allocated so often that its
generation wraps. `FewMappings`: no page has `RefMod` mappings, 65536 in the code,
where a count of 16 bits returns to 0. The theorems of `Pmap` speak, besides, of the
time up to a panic, to a page received above `UTOP`, and to page 0 in the free list:
the first two are in the properties, and the model stops at all three (`Stopped`). `RemoteCalls = FALSE`: a parent does not remap
a child that is on a processor. `NCPU = 1`: with two, the other program may act
between the reads of `_pipeisclosed` without a change of `env_runs`. `TTY`: the sieve
writes to a terminal; redirected, a child prints again what its parent had in its buffer.

### The arguments

*`KernEnv`.* `BaseInv` adds to the types and the two lock properties that a
processor in user mode or inside a trap has a current environment, and that an
environment in use has an identifier. `ExclInv` makes exclusiveness inductive:
`CurState` relates where a processor is to the status of its current
environment (RUNNING or DYING outside the kernel; NOT_RUNNABLE only after the
call that blocks it), `Cr3Exact` says that the loaded directory is that of the
current environment, `RanInv` that an environment that never ran is not
executing or receiving. Without `CurState` the step of `sched_yield` that picks
a RUNNABLE environment might pick one that is current elsewhere; without
`FreeListExact` `env_alloc` might hand out a slot in use; without `RanInv` the
careful `set_status`, which starts only children that never ran, might start one
that waits for a message. `ParentInv` says that a generation stored in a parent
identifier is not above the one of that slot, so that it never becomes right later.

*`Pmap`.* `MemInv` is `Held`: the shape of the memory, `Exact` (a count is the
cardinality of the set of places that point to the page), `Tree` (a page of a table
has one place and no other use, and nothing is below an absent table), and `Linked`
(the free list has the pages nothing points to). None is inductive alone: a count is
only kept if the place that is overwritten had the page it says, a free page only
becomes a table if nothing points to it. The operators of `pmap.c` are composed, so
there is one lemma per operator, from memory to memory, with a page in hand that is
neither linked nor pointed to (`x` in `Sound(m, x)`: `page_alloc` before
`page_insert`). The refinement uses what these lemmas say of every other address.
All of it is said of the time before `lost`, and `Next` stops there, so no step starts in a
memory of which nothing is known. The TLB needs only that a waiting environment is on no
processor.

*`ForkCow`.* `NoWritableAlias` is not inductive, because `duppage` first maps the
page to the child and then takes W from the parent. `PairOK` says for each two
entries that name one page what they may be, with three excuses: `Copying` (between
the two steps of `duppage`), `Moving` (between the steps of the handler or of `spawn`,
where a page has two addresses in one program), `Lost` (a child that nobody can
start, because its parent panicked). A program that the theorem speaks of is none of
these. The refinement maps memory to the contents of the pages; a store in the
middle of a fork goes to the history `during`.

*`Pipe`.* The invariant says for each label of a call what is mapped; the pairing of
descriptor and data page has its exception in the slot a close or dup works on. In
`TransferOK` a byte in transit is the next one, which gives the refinement: the move
of the position is the abstract step. For `ClosedIsTrue`, `CountOK`: on one processor a
count read and not disturbed is still true.

*`BlockFs`.* `Well` relates cache and disk; `Sound` has the ownership of blocks in
the view that the server has, `OpOK` how far the request in progress is (which blocks a
flush has already written), `KeptOK` what of a written block is visible (`Reads`) and
what of it is on disk (`OnDisk`). `ContentsKept` alone says nothing of the disk, so a
crash could break it. `file_truncate_blocks` frees one block after the other in
`Freeing`, a recursive function on the block numbers; that this function exists, and
what it returns, is shown from the first number for which it would fail.

*`FileServer`.* `EntryOK`: the page of an entry that somebody holds has the entry's
number and file; `NumberOK`: the numbers of an entry are `MAXOPEN` apart, and each
open gives out at most one, so the calls of a run bound them;
`ClientOK`: the client of the request in hand waits for its answer or was destroyed;
`ResultOK`: what the reply holds is what the handler gave. The mapped state has the live clients,
the files by number, descriptors and calls; the handler's step is the abstract effect
of a call, an exit or kill drops what nobody refers to any more, every other step
stutters or is an invocation or a return. There is one lemma per abstract action.

*`Shell`.* `Good` says for each label which descriptors a process may have open; a
program started is a label where only 0 and 1 remain. `ForegroundGone` is not
inductive, it speaks of the prompt only. `TreeInv` adds how many children a process has
at each label (`Few`), that a process in the foreground is awaited by a parent in the
foreground or by the shell (`Attached`), and that parents are ranked below children, so
that there is a first. Without the last, a circle of waiting processes would be
consistent with the rest.

*`Primes`.* The same, with `Link`: until a process closes its writing end, its child
has the reading end and has not seen the end of the numbers. So nobody is killed by
SIGPIPE unless something failed, and every process waits for its child; as the
running processes are ranked, the last to end is `main`. For the numbers, `Streams` is
what is on its way to each process that reads: its pipe, then the number in the hand of
the filter before it. `Numbers` says of them that they are in order, above all that was
printed, and no multiple of the primes they passed, and that nothing is lost: every
number `main` wrote has a divisor among the printed ones or is still on its way. So the
first that reaches the last filter has no smaller divisor among the primes found, and
each below it has one: it is the next prime. `LevelsOK` orders the filters by their primes, and
`OneTip` says that only the end of the chain prints or forks, which is also why the
output stays right after a failure: nobody is at the end then.

*Only model-checked.* Liveness: `NoStarvation`, `BootCompletes`, `CallsEnd`, `Answered`,
`ShellReturns`, `Ends` (fairness and ENABLED are outside what the prover does).
`NeighboursJoined` of `Shell`.
`EofWhenEmpty` is the property of the run that shows a violation. The sequential algorithms of section 8 are compared with their definitions
on all inputs of a bounded size: what a recursive definition computes for every input
would be an induction over data, which the provers cannot be given.

## 11. Not modelled

* *Registers of devices, boot.S, entry code, traps' assembly.* The models use their
  effects: the periodic timer interrupt, a block written at once. `entrypgdir.c` is a
  generated table.
* *Of formatting and strings*: the conversions c, e and p and the flags # and l, the
  functions of one loop, buffering. *Of the monitor*: its commands.
* *Of `pmap.c`*: the detection of the memory and the boot-time self tests, whose
  subject `KernMap` and `Pmap` state for all states.
* *Of the library*: `fork_v0` and `dup_or_share` (nothing calls them),
  `pfentry.S`, `wait`, `devpipe_stat`, the check of the ELF header. *Of the file
  system*: growth of a directory over several blocks; there is no removal of
  files. *Of the server*: a message from a third party taken as the answer by
  `fsipc` (`file.c:31`), `sync` after a fork (`file.c:187`).
* *Of the shell*: descriptor 2, the variables of a command, the characters within
  a word and the capacities of buffers. *Of the exercises*: `pingpong.c`, failures
  in `xargs.c` and `find.c`.
* *Demonstration programs of `user/`.* They use the library as the models let
  programs use it.
* *`tp-parte1` to `tp-parte3`.* The same kernel at earlier moments; most of their
  lines are those of `tp-parte4`, which is why the map covers a small share of all
  lines of the repository.

## 12. Plan

Modelling is complete as far as section 11 says, and every safety property, action
property and refinement that a passing run checks is proved, but for
`NeighboursJoined`. What is left:

1. A proof of `NeighboursJoined`, from `Good` and a relation between the pipes of a
   process and those of its neighbours.
2. The earlier deliveries, if they are to be covered: their differences from
   `tp-parte4`.
