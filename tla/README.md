# A TLA+ model of the Cortex-M4 kernel

This directory specifies the parts of the firmware in which an order of events
that nobody tried can go wrong: the kernel core (scheduler, context switch,
semaphores, mutexes with priority inheritance, sleep list, interrupts), the heap,
the console with the USART driver and its rings, the network service with
the W5500 and SPI drivers under it, and the DHCP server: its messages, its lease
table and the journal in flash. TLC checks the
specifications on small instances; TLAPS proves their safety properties, the
action properties and three refinements among them, for every size.

Run inside this directory, for example

    tlc -config kernel_sync.cfg MCKernel
    tlapm KernelProofs.tla

## 1. The system

### Parts, their state and their operations

| Part | Source | State | Operations |
|---|---|---|---|
| Scheduler, context switch | `scheduler.c`, `pend_sv_handler.S`, `arm.c`, `systick.c` | `ready_queue`, `current_task`, `next_task`, PENDSVSET, `system_ticks` | `scheduler_put_task`, `scheduler_select_next`, `request_context_switch`, SysTick, PendSV |
| Tasks | `tcb.c`, `static_memory.c` | pool of TCBs: state, two priorities, what it waits on, one `next` link, list of owned mutexes | create, exit, recalculate a priority |
| Semaphores | `semaphore.c` | pool: state, count, wait queue in order of arrival | create, wait, post (also from an interrupt), close |
| Mutexes | `semaphore.c` | owner, wait queue by priority, link in the owner's list | lock, unlock, raise the owners' priorities, release all at exit |
| Sleep list | `sleep.c` | list ordered by `wake_tick` | sleep, tick |
| System calls | `syscall.c`, `sv_call_handler.S` | `should_yield` | dispatch, then a request for a switch |
| Heap | `heap.c` | blocks with `next` and `prev` | `kmalloc`, `kfree`, `kcalloc` |
| USART2, ring buffers, console | `usart.c`, `ring_buffer.c`, `driver.c`, `console.c` | two rings, `rx_sem`, TXEIE | put, get, interrupt |
| Network service | `net.c` | one request slot, `net_posted`, `net_done` | request, serve, reply |
| SPI, W5500 | `spi.c`, `w5500.c` | SPI state and lock; chip registers, `has_unreaped_send` | frames with timeouts, recovery; open, close, send, receive |
| DHCP messages | `dhcp.c` | `net_buffer`, `received_msg` | parse, build a reply, choose its destination |
| DHCP leases | `dhcp.c` | lease table | DISCOVER, REQUEST, DECLINE, RELEASE |
| Lease journal | `dhcp.c`, `flash.c` | header and 32-byte records in one flash sector, write pointer | append, load, compact |
| CLI, user program | `cli.c`, `user_main.c` | line buffer; none | read a line, run a command; start the server |
| Boot, faults, MPU, clock, formatting, benchmarks | `main.c`, `*.S`, `debug_handlers.c`, `mpu.c`, `clock.c`, `kprintf.c`, `uprintf.c`, `bench.c` | registers | straight-line code |

### How they interact

Tasks enter the kernel by SVC only. `svc_dispatch` calls the component and, when
the component wants it, `request_context_switch`, which pends PendSV. PendSV
(lowest priority) puts the old task back, selects the next one and, a few
instructions later, makes it current. SysTick preempts tasks and PendSV; it moves
sleepers to the ready queue and asks for a switch. The USART2 interrupt preempts
everything that is not under `irq_save`; it posts `rx_sem` and asks for nothing.
Exception priorities (`main.c:66`): USART2 0xC0, SVC 0xD0, SysTick 0xE0, PendSV
0xF0.

The network service task takes requests from the tasks through one slot and two
semaphores, and drives the W5500 over SPI under a mutex. The DHCP server is a
task that uses the network service and writes flash directly. Everything that
prints goes through `console_write` into the USART's transmit ring, from every
task and, by `SYS_CONSOLE_WRITE`, from SVC; the CLI alone reads.

### What is hard, and what makes each part correct

* **Scheduler.** A wake-up between a task's block and the switch that takes it off
  the processor; a tick between the choice of the next task and the moment it
  becomes current; a switch that is skipped because the queue is empty. Correct:
  a task is on the one list its state names; only the RUNNING task executes; the
  most urgent one does; equals take turns.
* **Semaphores.** Posts from tasks and from the interrupt. Correct: no unit beside
  a waiter; closing wakes the waiters.
* **Mutexes.** Priorities change while tasks are queued by priority; boosts travel
  along chains and round cycles; a mutex moves between two lists that share its
  link. Correct: inheritance is exact; queues stay sorted; every lock call
  returns; an exiting task owns nothing.
* **Sleep list.** Two comparisons of ticks, one modular and one not. Correct: a
  sleeper wakes at its tick.
* **Leases.** Power fails between any two flash words; messages are lost,
  repeated and interleaved; uptime wraps and restarts. Correct: a lease that was
  acknowledged is known to the server as long as its client counts on it, and is
  nobody else's.
* **Heap.** Pointers of neighbours after splits and merges; products and sums that
  wrap. Correct: blocks partition the heap, owners share nothing, and what is
  freed can be had again.
* **USART, rings, CLI.** Statement-level interleaving of a handler with tasks; an
  interrupt that both sides switch on and off; an index that is out of range for
  a moment. Correct: each direction is a queue of bytes; units of `rx_sem` match
  bytes; output never stalls; the terminal shows the line that Enter executes.
* **DHCP messages.** Buffers that are used again for every datagram, lengths that
  the sender chose. Correct: the parser reads what this datagram says; a reply
  answers its own request.
* **Network service.** Several clients, one slot; a chip that may fail under it.
  Correct: a call that returns has been answered; every call returns; DEAD means
  dead.
* **SPI and W5500.** A chip that works at its own pace, frames that are lost
  between two halves of a transaction, outcomes that arrive after the driver has
  stopped waiting. Correct: a datagram leaves whole or not at all; one that is
  delivered is intact and in order; an OK is backed by the bus.

## 2. Modules

| Module | Contents |
|---|---|
| `Kernel` | specification of the kernel core, its properties, its fairness |
| `MCKernel` | which tasks boot creates, for the TLC runs |
| `KernelLists` | lemmas about the list operators of `Kernel` |
| `KernelProofs` | inductive invariant; types, lists, execution, semaphores, mutexes |
| `KernelPriorityProofs` | theorems about the order of queues, inheritance, who executes, sleep |
| `DhcpLease` | lease table, journal, power failures, clients |
| `DhcpLeaseProofs` | theorems about leases, offers and quarantine across power failures |
| `MCDhcpLease` | symmetry for the TLC runs |
| `Net` | the network service as its clients see it: mailbox, semaphores, answers |
| `W5500` | extends `Net`: what net_task and the drivers do on the bus, and the chip |
| `W5500Proofs` | the drivers implement the contract of `Net`; a lone client's answers; its datagrams |
| `MCW5500` | which clients make which calls, for the TLC runs |
| `ByteQueue` | what a buffered serial line promises: an abstract specification |
| `Usart` | USART2 driver and ring buffers, statement by statement |
| `Console` | extends `Usart`: the CLI, the tasks that log, the terminal; both directions implement `ByteQueue` |
| `ConsoleProofs` | theorems about the rings, that both directions are queues of bytes, and about the screen |
| `MCConsole` | which line is the command reboot, for the TLC runs |
| `Heap`, `MCHeap` | the kernel heap, and the requests of the TLC runs |
| `HeapProofs` | theorems about the heap of programs that split the last block only |
| `DhcpMessage` | option parser, `dhcp_task`, replies |
| `DhcpMessageProofs` | the parser reads what the bytes say, a reply answers its request |
| `MCDhcpMessage` | the datagrams of the TLC run |

Operators called "Mutant of X" in a comment are deliberately wrong versions of X;
nothing uses them. Replacing X by its mutant makes the property listed with it in
`PROJECT.json` fail, which shows that the property depends on X.

### Kernel

The variables are the fields of the C structures under their own names:
`state`, `base_priority`, `effective_priority`, `waiting_on`, `wake_tick`,
`owned_mutexes` of a TCB, `ready_queue`, `sleep_list`, `owner`, `mutex_queue`
and so on. A pointer into a pool is a number and 0 is null. An intrusive list is
the sequence of its elements. The lists of owned mutexes are the exception: they
keep their heads and links, because `mutex_unlock` relinks a mutex while it is
still on another list and the model has to show what comes of it.

A step is a stretch of code that no other context can see half done. `mode` says
how far the handler in progress is:

| `mode` | the processor is |
|---|---|
| `thread` | executing a task, unless `in_tick` or `pendsv` |
| `raise` | in `task_raise_priority`, interrupts off; one step per recursion |
| `exit` | in the loop of `mutex_unlock_all_owned`; one step per round |
| `svc` | at the end of `svc_dispatch`, before `request_context_switch` |
| `entered` | in PendSV, before `scheduler_select_next` |
| `selected` | in PendSV, before `current_task = next_task` |

`in_tick` says that SysTick is in the loop of `sleep_tick`. Guards follow the
exception priorities: `SysTick` is enabled in `thread`, `entered` and `selected`,
`UsartReceive` everywhere but in `raise` and `in_tick`. Tasks make any system
call of the set `Syscalls` with any arguments, in any order. Calls that fail
(pool full, not the owner, relocking one's own mutex) change nothing and are left
out. The receive semaphore is semaphore 1, created by `usart2_init`.

`Nesting` says whether programs lock a mutex while they hold one. The code has
two defects for programs that do (see the findings), so the exact properties of
inheritance and exit are checked for programs that hold one mutex at a time, as
all programs in this repository do; the lists, the types and the execution of
tasks are checked and proved for all programs.

Left out: registers and stacks, the reference counter of semaphores (nothing
reads it), names, privilege, and the creation of mutexes on the heap. With
`current_task` null, `request_context_switch` reads the state at address 4; the
model takes the value there as not RUNNING.

### DhcpLease

`slots` is the lease table, `journal` the entries of the flash sector (erased,
torn, or a whole record), `phase` says where the task is in `setup_lease_table`
(`boot`, `erase`, `header`, `compact`) or that it serves. Appending a record
takes two steps, `BeginRecord` (magic) and `EndRecord` (CRC); `Crash` may come
between any two steps of the phases in `CrashIn`, loses memory and uptime and
keeps flash. A flash word is programmed as a whole; a record whose words are not
all there fails its CRC (the one-byte CRC of the code misses one case in 256,
which its document lists as a known gap); an interrupted word of the magic counts
as erased, since programming the same word again completes it. An erase is one
step.

`offered` and `leased` are what the clients were told: how many seconds a client
may still count on an offer or a lease. `fromFree` marks the offers that
`chose_address` made because it found the client's key in a FREE slot; nothing
holds those (section 3). No action of the server reads the three. A
client counts a lease from its request; an ACK may be lost. Time passes at any
moment. Seconds are `sys_uptime() / 1000` and wrap at `UptimeMod`; comparisons
are 32-bit (`WordMod`).

A client whose option 61 is empty has the key of a slot that was never given out:
`NoClient` may be among the `Clients`. `dhcp_lease` has two clients with keys; the
theorems are about any clients. The journal has `MaxJournal` entries, and `Room` in
`Request` and `Release` keeps the pointer below that. This is a bound of the model:
the code appends wherever the pointer stands (`flash.c:62`), and nothing here says
that it stays inside its sector.

Left out: messages for other servers or outside the pool (they change nothing).
The bytes of messages are in `DhcpMessage`.

### Usart, ByteQueue and Console

The build is `-O0`, so a task's every C statement on a ring is a step: the store,
the increment, the wrap, TXEIE. The test for room is one step with the store,
because the handler only makes room. `usart2_handler` preempts tasks between any
two steps and is one step itself; the interrupt is level-triggered, so while it
is pending no task runs. `pc` says where each writer is, `todo` what it has still
to write. `current` is the task that has the processor.

A byte takes 87 us on the line, an increment and its wrap a few instructions.
Without preemption at most one byte per direction can move in that window
(`moved`). `Preemption` lets a task lose the processor there, `Paced` says that
the host waits while the receive ring is full, `EarlyBytes` that it sends before
`usart2_init` is over.

`ByteQueue` has strings submitted by several sources, a queue, and a byte being
delivered. `TxIsQueue` maps `todo` to the sources, the contents of the ring
between `tail` and `head` to the queue and DR to the delivery; `RxIsQueue` maps DR
to the source and the return of `usart2_getc_blocking` to the delivery. Both are
checked as `PROPERTY`.

In `Console` a text is a byte or two (NL for `\r\n`, `>` for the prompt), enough to
see which byte is where on the line. `CliInput` is the whole of `cli_input_char`
after the read has returned. `screen` is the terminal's last line. `Reboot` loses
what is in the rings and starts over.

Left out: `usart2_getc` and `SYS_GETC`, which nothing calls and which would take a
byte without its unit; the polling output of the fault handlers; what commands
print.

### Heap

`hdr` maps addresses to headers and keeps those of blocks that were merged away,
as memory does; `blocks` are the ones in the list, `live` how many bytes an owner
counts on. `kmalloc`'s search takes a step per block, the rest of a call is one:
interrupts are off. Words have `WordMod` values, so that products wrap.
`SplitInside` FALSE keeps to programs that split the last block only, for which
the links stay right; TRUE is any program.

### DhcpMessage

The options of a datagram are bytes, the fixed part before them is a record.
`Recv` overwrites as much of `net_buffer` as the datagram has. Each turn of
`parse_options` is a step, `received_msg` keeps what it had where the code does
not reset it. A reply's options are bytes again, so that a reply can be read the
way a client reads it; those with four-byte values between the lease time and the
client's identifier are one. Addresses have two bytes, network and host. What the lease
table answers is open: `DhcpLease` says it.

`OptionsFrom` is the reference, a recursive function: the list of options that a
string of bytes holds from each of its positions on; `OptionsIn` is the one from
the first. It shares no state with the parser, and everything the properties say
is said about it: a field is the last option of its code, the parameter list is
the union. There are `Rounds` datagrams; the last is one of `Datagrams`, those
before it are of `Earlier`, so that the run can keep the latter few.

### Net and W5500

`Net` is the contract of the service: a client's system call fills the mailbox
`current_req`, posts `net_posted` and waits on `net_done`; `net_task` takes the
request, and answers it with any status, but with DEAD exactly from the first
initialisation that failed on. The semaphores are those of `Kernel`, reduced to a
count and a queue in order of arrival.

`W5500` keeps these variables and actions and adds what happens between taking a
request and answering it. `pc` names the driver's next SPI frame and each frame
is a step, so that the chip and the other client can act between any two. `Frame`
is `spi1_transfer_frame`: transferred; cut short by a byte that times out, after
which SPI is FAULTED and the chip has or has not seen the frame; or refused
because SPI is FAULTED. `Polled` is one turn of the driver's seven loops that
wait for a register. `chip` holds the socket's registers and its two buffers. The chip
takes commands, transmits, gives up on ARP, receives and loses power whenever it
likes; what it does is taken from how the driver uses it. Two assumptions about
it matter: TX_RD moves when a datagram has left and stays after an ARP timeout
(this is why the driver resets TX_WR then), and CLOSE drops a send under way.

`sync` says that driver and chip still agree: since the socket was opened no frame
was cut short, no command was given up on, and the chip kept its power. It is
written and never read by the actions. The properties about datagrams hold while
`sync` does; the ones about SPI, the service's contract and the return of every
call hold always.

Left out: TCP sockets (nothing opens one) and the second to eighth socket, the
addresses that `w5500_init` writes, the SPI lock (one task uses SPI), pointer
wrap (the driver's 16-bit sums wrap as the chip's do), a two-byte pointer of
which only one byte was written, and a byte that arrives after `spi1_transfer`
has drained the data register. Frames with the same error handling that nothing
distinguishes are one step: the four of `w5500_init`, the destination of a send,
the two of `w5500_reset_tx_wr`. A register that keeps changing for 255 reads of
`w5500_read16_stable` is a possible outcome of every such read (`UnstableRead`).

## 3. What the runs show

| Run | Instance | Shows |
|---|---|---|
| `kernel_all` | 2 tasks + idle, 1 semaphore, 2 mutexes, all calls but yield and sleep, nesting, slot reuse, console interrupts | `TypeOK`, `EveryTaskOnItsList`, `OnlyRunningTaskExecutes`, `NoUnitBesideWaiter`, `WaitersHaveAnOwner` |
| `kernel_sync` | 3 tasks of 2 priorities + idle, 1 semaphore, 2 mutexes, sleep up to 2 of 3 ticks, yield, exit; no nesting, no console, no creation | `QueuesSorted`, `PriorityInheritanceExact`, `MostUrgentTaskExecutes`, `FinishedTasksOwnNothing`, `WokenOnTime` |
| `kernel_chain` | 3 priorities, one shared with idle, 2 mutexes, nested locks that are not released, sleep | `PriorityInheritanceExact` along chains, `HandlersReturn` also round a cycle, `EqualsTakeTurns` |
| `console` | the CLI and a task that logs, rings of 3, 3 keys, 1 log, a line of 2, reboot | `TypeOK`, `UnitsMatchBytes`, `ScreenShowsLine`, `TxIsQueue` and `RxIsQueue` (refinement of `ByteQueue`), `OutputFlows`, `KeysAreRead` |
| `heap` | 16 bytes, headers and alignment of 2, requests for 1, 3 and 6 bytes, 5-bit words | `TypeOK`, `BlocksTile`, `OwnersDisjoint`, `Coalesced`, `NothingLeaks` |
| `net_driver` | 1 client, 2 sends and 2 datagrams of 2 cells, a buffer of 1 cell, 2 polls, 1 frame cut short or 1 loss of power | `TypeOK`, `DatagramsWhole`, `ReceivedInOrder`, `UnreapedHasOutcome`, `OkMeansHealthy`, `ServiceContract` (refinement of `NetSpec`), `EveryCallReturns` |
| `dhcp_msg` | 4 first datagrams and about 2100 second ones: two options in any order, cut at any byte; a type and two more; six unusual headers | `TypeOK`, `ParserCorrect`, `RepliesMatchRequest` |
| `dhcp_lease` | 2 addresses, 2 clients, all messages, 2 power failures while the server boots or serves | `TypeOK`, `LeasesSurvive`, `OneClientPerAddress`, `ReservedOffersHeld`, `QuarantineKept` |

Bounds. Three tasks besides idle are enough for a waiter, an owner and a third
party of another priority, for a chain of two inheritances and for a cycle; two
mutexes for nesting and for a list with a predecessor. `MaxCount` 1 distinguishes
no unit from a unit; the guard `count < MaxCount` in a post is the bound. A tick
count of 2 or 3 values wraps in every behaviour; `SleepOverWrap` FALSE keeps
`wake_tick` below the wrap where the property is about something else. Two
addresses make clients compete and the search choose; two journal entries are a
whole record and a torn one, or one record after the other; the bound is the guard
`Room`. In `net_driver` two polls
instead of five keep the three ways out of a loop (seen, failed, spent); two sends
are one whose outcome is left open and one that meets it, and the buffer has room
for both, so that a payload left behind would go out with the next; two datagrams
let one arrive while the other is received, and a buffer of one cell truncates
them. A second frame cut short changes nothing before `spi1_recover`, which ends
the call. A ring of 3 is full with two bytes and wraps every third; the CLI's
longest text and a log fill it several times over, and three keys type a letter
and erase it, fill the line, or reboot. Sixteen bytes of heap hold four blocks: an
owner with a neighbour on each side and a rest. The heap's first request of 6
leaves a rest that is too small to split. One earlier datagram suffices to leave
something behind in both buffers; its options are the longest there are, and
`Rounds` is 2. The proofs have any number of datagrams.

Deadlock is checked where somebody always has something to do: idle and the timer
never stop, nor do the DHCP clients of `dhcp_lease`; a client of the network may
always ask for the link; a program may always ask for memory or free what it has.
It is not checked in `console`, `usart_race` and `dhcp_msg`, which end when nobody
types or sends any more.

### Fairness

`FairSpec` assumes that a handler that has started finishes (weak fairness of its
steps), that the timer keeps firing (strong, because a tick waits for SVC), and
that a pending PendSV is served between ticks (strong: a tick is 84000 cycles, far
longer than PendSV, but may arrive in the middle of it). Nothing is assumed of
the tasks, of the console or of anyone releasing a lock or posting a semaphore.

In `W5500`, `FairSpec` assumes weak fairness of `net_task`: it has the highest
priority and its sleeps end. Nothing is assumed of the chip: `EveryCallReturns`
holds although it may never answer.

In `Console`, `FairSpec` assumes that the line shifts bytes out and the interrupt
is taken (weak), and that every task that has something to do gets the processor
again and again and then takes its next step (strong, as the interrupt disables it
in between): the CLI and `net_task` share a priority, and `EqualsTakeTurns` of
`Kernel` says that equals take turns. Nothing is assumed of the host.

### Disagreements between documents and code

Each is a run that is expected to be violated, with the quoted sentence under
`findings` in `PROJECT.json`.

| Run | What happens |
|---|---|
| `kernel_close` | `semaphore_close` drains its waiters but leaves them BLOCKED; `scheduler_put_task` refuses them and they never run again |
| `net_two` | a client's request is overwritten in the mailbox by another one's; its call returns with an untouched reply slot, which reads as OK |
| `usart_race` | a writer loses the processor between the increment of `head` and its wrap: the handler sends old bytes of the ring again |
| `heap_split` | splitting a block that is not the last leaves the `prev` of the one behind on the wrong block: `kfree` leaves two free neighbours unmerged, or merges what is not adjacent |

The same models show further behaviours that the properties above are worded
around:

* `mutex_unlock` of a task that holds two mutexes links the one it hands over into
  the new owner's list before it takes it off the old one's (`semaphore.c:167`):
  with nested locks that are released, `PriorityInheritanceExact` and
  `FinishedTasksOwnNothing` fail. The lists may then become cyclic, and the code
  would walk them for ever; `Listed` in the model is the set of what such a walk
  visits, so that `HandlersReturn` is only checked where locks are kept.
* With `"compact"` in `CrashIn`, `LeasesSurvive` fails: `journal_compact` erases the
  only copy of the journal before it writes the slots back (`dhcp.c:734`), while
  `docs/13-dhcp-server.md:115` wants leases to survive a reboot.
* With `Paced` FALSE, `KeysAreRead` and `OutputFlows` fail: a byte that finds the
  receive ring full stays in DR, and its interrupt is taken for ever
  (`usart.c:30`).
* With `EarlyBytes`, `UnitsMatchBytes` and `RxIsQueue` fail: a byte received before
  `rx_sem` exists is never counted (`usart.c:73`).
* With `Preemption` and two writers, one writer's byte is stored over the other's
  (`usart.c:88`).
* `OwnersDisjoint` and `NothingLeaks` fail with `SplitInside`, as `Coalesced` does.
* A request for more than 2^32 - 8 bytes is rounded up to 0 (`heap.c:30`);
  `Requests` leaves it out. `kcalloc` does not clear its memory, as
  `docs/06-memory-management.md:60` says it does (the call is commented out).
* An acknowledged address is the one requested, also if its network is not the
  server's (`dhcp.c:632`).
* A DECLINE with an empty client identifier matches a slot that was never used
  and quarantines it (`dhcp.c:545`); a DISCOVER is offered such a slot, which stays
  FREE.
* Replies always carry options 1, 3, 6 and 28, whatever the parameter list says
  (`docs/13-dhcp-server.md:78` has the list decide).
* `SYS_TASK_CREATE` does not ask for a switch (`docs/04-syscalls.md:67` lists it
  among the calls that do): `MostUrgentTaskExecutes` is checked without creation.
* After a console interrupt the reader waits for the next tick or system call:
  `MostUrgentTaskExecutes` is checked without the console.
* `WokenOnTime` fails with `SleepOverWrap`: a sleep that ends after the wrap of
  `system_ticks` is queued in front of shorter ones and delays them.
* `OffersHeld` fails: a client that released its address and discovers again is
  offered it by its old key and the slot stays FREE (`dhcp.c:322`), so that it may be
  offered to another client as well and the REQUEST is not answered
  (`dhcp.c:638`). `docs/13-dhcp-server.md:100` calls an address "held for a client
  that received an OFFER". With `OffersHeld` as an invariant of `dhcp_lease`, TLC
  shows it in three messages; `ReservedOffersHeld` is the same but for these
  offers.
* A repeated DISCOVER gives an offer the lifetime of a lease instead of 60 s.
* A late REQUEST of the client that declined an address ends its quarantine;
  `QuarantineKept` speaks of the other clients.
* Uptime in seconds wraps at 4294967 and the comparison of `slot_alive` at 2^32:
  after the wrap, slots that were alive stay so for another 49 days.
* The driver takes TX_WR or RX_RD back after a command that failed, but a command
  fails only with SPI FAULTED, and then the write that takes it back is refused
  too (`w5500.c:408`, `w5500.c:588`): the next send carries the payload of two, the
  next receive reads a header where there is none. `DatagramsWhole` and
  `ReceivedInOrder` need `sync` for this.
* A datagram that arrives while another is retired makes `w5500_socket_recv`
  answer RETRY with `got = 0` for one it has already retired (`w5500.c:443`).
* A send on a socket that is not open is answered OK, and `has_unreaped_send` then
  stays set; so it does when a socket is reopened with a send under way. Clients
  of `net_driver` open their socket once and use it after that, as `dhcp_task`
  does.
* A client that closes its socket may, in the model, call anything at any time, and
  then two properties fail. `DatagramsWhole`: an open of a socket that was open is
  given up, the client sends all the same, and the chip takes the OPEN in the middle
  of that send and transmits nothing. `UnreapedHasOutcome`: a send on a socket that
  was not open leaves `has_unreaped_send` set, and the open that follows does not
  clear it. No program in the repository opens an open socket, or uses one whose
  open failed.
* A send may be answered OK with SPI FAULTED, when the last poll for its outcome
  is the frame that is cut short; `OkMeansHealthy` speaks of the other calls.
* The journal is compacted only after a torn record, so it outgrows its 511
  records; the model stops at `MaxJournal`.

## 4. What is proved

A theorem holds for every value of the constants that the named assumptions of
its module allow. What it asks of the programs or of the environment beyond that
is its hypothesis, and each hypothesis is there because the property fails
without it, as section 3 says.

| Theorem | States | If |
|---|---|---|
| *Kernel* | | |
| `TypeCorrect` | `[]TypeOK` | |
| `ListsCorrect` | `[]EveryTaskOnItsList` | |
| `ExecutionCorrect` | `[]OnlyRunningTaskExecutes` | |
| `NoUnitLost` | `[]NoUnitBesideWaiter` | |
| `NoWaiterForgotten` | `[]WaitersHaveAnOwner` | |
| `QueuesInOrder` | `[]QueuesSorted` | |
| `ExitReleasesAll` | `[]FinishedTasksOwnNothing` | no nested locks |
| `InheritanceIsExact` | `[]PriorityInheritanceExact` | no nested locks, or no mutex is ever given up |
| `MostUrgentExecutes` | `[]MostUrgentTaskExecutes` | the same; no console interrupts, no task creation |
| `SleepersWakeOnTime` | `WokenOnTime` | sleeps end before the wrap and span at most half the counter, and a tick |
| *Heap* | | |
| `HeapTypes` | `[]TypeOK` | `SplitInside` FALSE |
| `HeapTiled` | `[]BlocksTile` | the same |
| `HeapDisjoint` | `[]OwnersDisjoint` | the same |
| `HeapCoalesced` | `[]Coalesced` | the same |
| `HeapRecovered` | `[]NothingLeaks` | the same |
| *Console* | | |
| `ConsoleTypes` | `[]TypeOK` | `Preemption` and `EarlyBytes` FALSE |
| `UnitsAreBytes` | `[]UnitsMatchBytes` | the same |
| `OutputIsQueue` | `TxIsQueue`, refinement | `Preemption` FALSE |
| `ScreenShowsTheLine` | `[]ScreenShowsLine` | `Preemption` FALSE |
| `InputIsQueue` | `RxIsQueue`, refinement | `Preemption` and `EarlyBytes` FALSE |
| *Network* | | |
| `ServiceImplemented` | `ServiceContract`, refinement | |
| `LoneClientAnswered` | `[]RepliesWritten` | one client |
| `LoneClientHealthy` | `OkMeansHealthy` | one client |
| `DriverTypes` | `[]TypeOK` | one client |
| `UnreapedSettles` | `[]UnreapedHasOutcome` | one client, which does not close its socket |
| `DatagramsLeaveWhole` | `DatagramsWhole` | the same |
| `DatagramsInOrder` | `ReceivedInOrder` | the same |
| *Leases* | | |
| `LeaseTypes` | `[]TypeOK` | |
| `LeasesDurable` | `[]LeasesSurvive` | power does not fail between the erase of a compaction and its end |
| `LeasesExclusive` | `[]OneClientPerAddress` | the same |
| `OffersReserved` | `[]ReservedOffersHeld` | an offer lives no longer than a lease |
| `AllOffersReserved` | `[]OffersHeld` | the same; the clients have keys and send no RELEASE |
| `QuarantineHolds` | `QuarantineKept` | |
| *Messages* | | |
| `BuffersKept` | `[]TypeOK` | |
| `ParserIsCorrect` | `ParserCorrect` | |
| `RepliesMatch` | `[]RepliesMatchRequest` | |

### Kernel

The assumptions: the pools are not empty and the bounds are numbers
(`SizesAssumption`), boot creates idle first, at the lowest priority, and no more
tasks than there are slots (`BootAssumption`), the programs' calls are system
calls and their priorities are priorities (`UseAssumption`).

The inductive invariant `IInv` of `KernelProofs` has six parts. `TypeOK` and
`EveryTaskOnItsList` are goals; neither is inductive alone. That a task leaves
the processor in the right state needs `RunningPhase`: which task may be RUNNING
in which mode, including the window in PendSV in which `next_task` runs already
and `current_task` does not. `RunningPhase` after a system call that stops its
caller needs the ready queue not to be empty, or `request_context_switch` would
return to it: hence `IdleIsThere`, idle never stops, which with
`EveryTaskOnItsList` puts it in the queue whenever it does not run. `BootPhase`
says that nothing but the console happens before boot is over, so that a current
task implies idle. `UnusedSemsEmpty` says that a semaphore slot that can be
allocated has no waiters, or `semaphore_init` would drop them. One lemma per part
(`TypeStep`, `PhaseStep`, `ListStep`, `UnusedStep`) goes through the actions;
what an unlock, a post or a selection does is stated once (`UnlockFacts`,
`PostFacts`, `SelectFacts`), and what the list operators do in `KernelLists`:
which elements a list has after a push, a removal or a reordering, that it has no
duplicates, and that it stays sorted. `NoUnitLost` is inductive with `IInv`;
`NoWaiterForgotten` is proved for the waiters instead of the queues
(`WaitsForAnother`), because `task_raise_priority` rearranges the queues and
leaves the waiters alone.

`KernelPriorityProofs` builds on `IInv`. The order of the queues needs nothing
else. Exact inheritance is not inductive: between two recursions of
`task_raise_priority` the next owner's priority is wrong, and `mutex_unlock`
recomputes a priority from the list of owned mutexes, which must be right for
that. `Inherit` says what holds of that one task meanwhile (`Raising`: a task
behind it has come to `raise_prio`, and nothing but that is missing) and of all
others (`Fitting`, the property itself). `OwnInv` has what the lists of owned
mutexes are: without nesting a list is the one mutex that names its task as owner
(`OwnedLists`), and the loop of `mutex_unlock_all_owned` is at its head; when
nothing is given up no list is walked to recompute. `Urgent` adds the window in
PendSV after the choice of the next task, and rests on the order of the queue:
`request_context_switch` looks at the head only. `SleepInv` puts every wake tick
between now and `MaxSleep` from now, and the one half of the counter is what the
comparison of `sleep_queue_pop` can tell apart. The real counter has 32 bits, so
half of it is 24 days; `SYS_SLEEP` accepts more.

### Heap

`HeapAssumption`: sizes are multiples of the alignment, a header and its payload
fit, the heap is smaller than the address space by a header and an alignment (it
lies in 128 KB of RAM), and no request, also of `kcalloc`, rounds up to zero
(the flaw listed in section 3; products that wrap to anything else are allowed).

`HInv` has four parts: `Tiling` (each block ends at the next one's header or at
the end of the heap, links have their converse), `Owned`, `NoFreePair`, and `Walk`:
the search of `kmalloc` has passed only blocks that do not fit, hence the
block it stops at is the first that fits, and the one that is split is the last.
That every address of the heap belongs to a block, and that two blocks do not
overlap, follows from `Tiling`; `NothingLeaks` from `NoFreePair`: a free heap with a
second block would have a free pair.

### Console

`Size` is between 2 and 255, as the indices are 8-bit, and the CLI is one of the
writers; keys, lines and the number of logs are any.

`CInv` has a part for each direction. `Control` says that only the task that has
the processor is inside a ring function, which is what `Preemption` FALSE means.
`TxWindow` and `RxWindow` say what can happen between an increment past the end
and its wrap. The handler may empty the ring with `head` one past the end and
`tail` wrapped to 0, and would then take it for full; but it has filled DR in doing
so, and the wrap comes before DR is free again. `TxBytes` and `RxBytes` tie what the functions hold in
variables to the ring. Both refinements take a step of the handler, of the
line or of `usart2_putc` to a step of `ByteQueue` or to a stutter; lemmas say
what a store, an increment, a wrap and a removal do to the contents of a ring.
`OutputIsQueue` needs the transmit half only (`TxInv`), hence no hypothesis on the
host.

`ScreenShowsTheLine` speaks of a terminal at rest, and its invariant, `ScreenInv`,
of the one that the bytes on their way lead to: those in DR and in the ring, one
after the other (`Leads`, a run of screens, so that a byte more at the end or less
at the front needs no induction). What the CLI has still to write completes the
line on that screen (`Completes`: one case per text and how much of it is left), or
the screen's last line follows a log and will until the CLI's next new line. A
log may fall between any two bytes of an echo or of an erasure: `LogBetween` says
that this keeps `ScreenInv`, since everything after the last new line of a text is
on a line of its own. That a letter is no control byte is part of
`ConsoleAssumption`: `cli_input_char` has handled those before.

### Network

`Service` and `Bus` are invariants for any clients: what was posted is a request,
the driver's status is one that `net_task` maps, a dead service initialises no
more, a function that takes a pointer back has failed, and one that says OK has
lost no frame unless it sends. `Leads` says where a frame may lead, and is proved
function by function. With them every frame is a stutter of `NetSpec` and the end
of a call its `NetAnswer`. `OneCall` is about one client: its call is in the
mailbox, or served, or answered. `RepliesWritten` is the property that run
`net_two` refutes for two clients; the theorem says that one client is safe, which
is what the firmware has once `user_main` has started the DHCP server, unless the
CLI's user asks for the link (`cli.c:247`).

The types of the driver need a bound on the pointers into the transmit buffer,
which only grow: each send moves TX_WR by at most the size of the buffer, and once
(`Within`); hence one client, whose call is served before it makes the next.

The theorems about datagrams are about a client that opens its socket and keeps
it, as `dhcp_task` does. `Unopened` and `Opened` follow the socket until then, so
that OPEN, when the driver sees it succeed, has left the chip's pointers where the
driver thinks they are. From then on, while `sync` holds, `Agreed` says that a
command is pending only where the driver waits for it. `Receiving` says for each
point of `w5500_socket_recv` where RX_RD and the driver's copy of it are, and
that both are at a header (`Boundary`, `Chained`: datagrams lie one behind the
other). `Sending` does the same for the transmit side: the buffer is empty
(`Drained`), or holds one payload that a SEND has been accepted for (`Committed`):
it is under way, or has timed out and will be taken back, or has left. A send
starts only from an empty buffer because the driver reaps the one before first,
and this is what `DatagramsWhole` rests on. The steps that the chip takes on its own
are one lemma, the driver's one per group of frames; a step that ends the
agreement (a frame cut short, a command given up on) has nothing to show. With
`"close"` among the client's calls `DatagramsWhole` and `UnreapedHasOutcome` are false, as
section 3 says.

### Leases

The assumptions: times are positive and twice their sum with the range of uptime
fits a word (`TimesAssumption`; 4294967 s and an hour against 2^32), the
table fits the journal (`TableAssumption`; 511 records). Any number of clients,
addresses, power failures.

`Base` holds wherever power fails: types, the shape of the journal (whole records,
at most one torn one, erased flash, the pointer behind the last whole one) and
what the phases imply. `Durable` follows a lease: it is in the table of a server
that has loaded it (`InTable`); it is the last whole record of its address
(`InFlash`) in every phase in which power may fail; a record that is being written,
over an older one of the same address, keeps it (`InWriting`); a compaction has
written it back once it has passed its slot (`Compacting`); and a lease that is
about to be acknowledged has all this already (`InReply`), since `SYS_NET_SEND`
comes after the append. The hypothesis excludes the phases `header` and `compact`;
a power failure during the search for the torn record or before the erase is
covered, as are those while a record is appended. `OffersReserved` needs no
journal: an offer is forgotten with the memory it is in. `AllOffersReserved` drops
its exception for clients that never release an address: then a FREE slot is one
that was never given out, and no record in the journal or on its way there frees a
slot (`NoneReleased`), so that a restart brings none back either.

### Messages

The assumptions: a datagram is any bytes that fit `net_buffer`, before them any
fixed part (`MessageAssumption`), and the longest reply fits its buffer
(`RoomAssumption`; 1000 bytes for at most 300).

`OptionsFrom` is defined by recursion, and that a recursive definition has a
solution is itself something to prove. `StepSolution` does so with sets instead
of an induction principle: the positions for which there is no solution would
have a largest one (`Downward`, from `LeastNat`), and there is one for it, since a
step looks at later positions only. `Unfold` is then the equation that everything
else uses.

The invariant's centre is the loop invariant of `parse_options`, `ReadSoFar`: there
is a list `read` such that the options of the datagram are `read` followed by the
options from `pos` on, all of `read` are right, and the fields of `received_msg`
say what `read` says. An option more on the list is one turn of the loop (`OneMore`:
the last option of a code is the new one or the old one). At the end nothing
follows, and `read` is all there is; where the parser gives up, the next option is
the wrong one. `Delivered` ties `net_buffer` to the datagram that arrived last, up to
its length and no further, and this is why what an earlier one left behind does
not matter. For the replies the bytes that `embedd_options` writes are read with
`OptionsFrom` in turn (`BytesOfReply`, `OnlyPadding`, `ReplySays`), so that
`RepliesMatchRequest` is about what a client reads.

### Only model-checked

* Liveness: `HandlersReturn`, `EqualsTakeTurns`, `OutputFlows`, `KeysAreRead`,
  `EveryCallReturns`. Fairness is out of the prover's reach.

Every safety property of a passing run is a theorem under the hypotheses of the
table, and the instances of the runs satisfy these.

## 5. State of the project

Done: the kernel core, the heap, the console, the network service and its
drivers, the DHCP server; proofs of all their safety properties. Open:

1. A client that closes its socket: the driver would have to refuse a send on a
   socket that is not open, and to clear `has_unreaped_send` when it opens one.
2. Heaps split anywhere, and nested locks that are released: the properties fail
   in the code as it is, so there is nothing to prove before it changes.
3. The number of records in the journal against the end of its sector: the code has
   no bound to compare the model's with.

Not modelled, and not planned: the MPU (disabled in `main`), the clock and the
start-up code (fixed sequences of register writes), fault dumps, formatted output
and the benchmarks (output only), the commands of the CLI that print, the user
program (it waits for the link and starts the server), the driver registry (filled
once at boot), the host test client.
