# A TLA+ model of UNP_Learning

The repository (`src/`) is a collection of C programs that a reader of *UNIX
Network Programming* wrote while working through it: small servers, each built around one
mechanism (epoll, poll, signals, fork and shared memory, timers, an incremental
parser), and many one-page examples of single system calls.  This directory models
the programs that keep state over time, states what makes each of them
correct, checks that with TLC on small instances, and proves the most important
results with TLAPS for instances of any size.

## 1. Inventory

### Programs with a logic of their own

**Timer containers** (`src/TIMER/heap_timer.h`, `tw_timer.h`, `lst_timer.h`).
`time_heap` keeps an array, `capacity` and `cur_size`; `time_wheel` keeps 60 doubly
linked lists, `cur_slot`, and a rotation and slot per timer; `sort_timer_lst` keeps
`head`, `tail` and a doubly linked list in order of expiry.  Operations: `add_timer`,
`del_timer` (the heap's is lazy: it takes the callback away), `adjust_timer` (list),
`tick`.  Correct means: the container holds exactly the timers that were added and not
deleted, and a tick calls those that are due and no others.  Hard: loops over an array
that is resized, a list that is walked and cut at once, pointers to deleted timers.

**Servers that close idle connections** (`src/TIMER/close_unactive_sock*.c`, one for
each container).  One thread around an edge-triggered epoll instance; signals reach it
through a socket pair that the signal handler writes to; `alarm()` is the clock, and is
set again by the handler it triggers.  State: the connections, the events still to be
handled, `timeout`, `stop_server`, and `users[fd].timer`.  Operations: accept, data,
hangup, the two signals, `timer_handler`.  Correct means: a connection is closed because
its peer left or because it was silent for the timeout, and for no other reason; a silent one is
closed; no handler meets a closed descriptor or a deleted timer; SIGTERM ends the server.
Hard: every order of arrivals, of signals within a batch, and of ticks.

**Chat server with shared memory** (`src/IPC/SHM/serv.c`).  A parent that accepts, one
child per client, `users[]` (kept dense) and `sub_process[]` (its index by pid), a shared
memory segment per slot, a pipe per child, SIGCHLD and SIGTERM through a socket pair.
A child receives its client's text into the segment of the slot it was forked for, and sends the segment's number to
the parent, which sends it to all other children; each of these sends the segment to its client.
Correct means: the tables describe the children that exist; children that ended are
waited for; SIGTERM ends children and then the parent; a text reaches the others, and not its author.  Hard: several children that end
at once, signals that are merged, a signal that meets a child before it is ready; texts that are overwritten in
the segment while their number is on its way; slots that are moved while segments are not; several numbers for one event.

**Chat server with poll** (`src/IO_multi_advanced_app/chatroom/server.c`).  One thread
that scans `fds[]`, moves its last entry into the place of one that is removed, and
passes texts on by pointers between the entries of `users[]`.  Correct means: `fds[]` polls the open
connections, all that poll reports is handled, a text goes to all others.  Hard: the
scan and the removal work on the same array; one failed send leaves an entry behind.

**HTTP request parser** (`src/HTTP/http.c`).  `parse_line` looks for line ends in what
has been received, `parse_requestline` and `parse_headers` judge lines, `parse_content`
goes on where the last recv stopped.  State: the buffer, `read_index`, `checked_index`, `start_line`,
`checkstate`.  Correct means: the answer is that which the whole request deserves,
wherever the network cuts it.

**EPOLLONESHOT server** (`src/epoll/EPOLLONESHOT/serv.c`).  The main thread accepts and starts a
worker thread for each connection that is reported; EPOLLONESHOT keeps it disarmed until its worker
has read everything and arms it again.  State: the connections, which of them are armed, the batch of main, and
`fds_for_new_worker`, a struct on main's stack that tells a worker its descriptor.  Correct means: a connection has
at most one worker; none with data is forgotten; one whose peer left is closed.  Hard: the worker reads the struct
when main may have filled it again; data that comes between EAGAIN and re-arming; a number that is closed and
accepted again meanwhile.

**LT and ET server** (`src/epoll/serv.c`), **TCP and UDP server**
(`src/IO_multi_advanced_app/tcp_and_udp_at_the_same_time/server.c`) and **signals as events**
(`src/SIG/serv.c`).  Three programs around one epoll loop with an edge-triggered listening socket.  A connection's event
is handled by one `recv` (`lt()`), by `recv` until `EAGAIN` (`et()`, and the TCP part of the second program, which echoes), or not at
all (the third, which only looks at its signals).  State: the connections, what the kernel holds for them, the ready list, and
the batch.  Correct means: no connection with data is forgotten; a connection is closed when its peer has left, after its data
is read, and only then; SIGTERM and SIGINT end the third server.  Hard: the `while(1)` of the edge-triggered reader, which goes
on receiving after it closed its descriptor, and which a busy peer never lets end; `lt()`, which closes on any error;
one `accept` or `recvfrom` for an edge that may stand for several arrivals; a send to a peer that has reset.

### Programs without

The rest (out-of-band data, splice, tee, sendfile, writev, dup, descriptor passing, id,
backlog, timed connect, the clients) makes a fixed sequence of system calls and keeps
nothing between them.  What they do is what the kernel does.  The examples of `src/Thread/` are of one page each, and let
`sleep()` put their threads in order: a consumer that is cancelled, and two mutexes taken in opposite orders to show the deadlock.
All of these are listed in `PROJECT.json` as not modelled, with the reason.

### How the parts interact

    timer container  <-- add, del, adjust, tick --  server  -- epoll, alarm, signals --> kernel
    cb_func of a timer  -- closes users[fd] -->  connection

    SHM parent  -- fork, kill, pipe -->  child  -- SIGCHLD, exit, pipe -->  parent
    SHM client  -- socket -->  child  -- shared memory -->  other children  -- socket -->  their clients

The list of hazards, what can go wrong in this code where a test would hardly look, is in
`PROJECT.json` ("hazards"), each at its line and with the properties that cover it.

## 2. Modules

| Code | Module | What it is |
|---|---|---|
| `heap_timer.h` | `TimerQueue` | what a timer container promises (abstract) |
| | `TimeHeap` | the array, each iteration of a loop a step |
| | `TimeHeapProofs` | theorems |
| event loop of `close_unactive_sock*.c` | `IdleReaper` | what such a server promises (abstract) |
| | `EventLoop` | peers, kernel, signals, clock, and the loop's own steps |
| | `ServerTimers` | the timers of the servers' connections: when each is due, and whose it is |
| `close_unactive_sock_use_heap.c` | `HeapServer` | `EventLoop` with the timers of a heap |
| `close_unactive_sock_use_tw.c` | `WheelServer` | `EventLoop` with the timers of a wheel, and the allocator |
| | `TimerServersProofs` | theorems: the event loop, then each of the two servers |
| `tw_timer.h`, `lst_timer.h` | `TimerAddresses`, `LinkedLists` | timers, and what a list of them linked by pointers holds |
| `tw_timer.h` | `Countdown` | what the wheel promises (abstract) |
| | `WheelParams` | the parameters, and ticks of a timeout |
| | `WheelSlots` | the wheel as a set of timers per slot |
| | `TimeWheel` | the wheel's linked lists |
| `lst_timer.h` | `SortTimerLst` | the linked list, on memory that is freed and used again |
| | `TimerListsProofs` | theorems: any linked list, the slots of the wheel, its lists, and the sorted list |
| `IPC/SHM/serv.c` | `ShmTables` | what the parent keeps of its children (abstract) |
| | `ShmServer` | the parent, its children, and signals |
| | `ShmRelay` | the texts: clients, segments and pipes, on `ShmTables` |
| | `ShmProofs` | theorems about both |
| `HTTP/http.c` | `HttpParser` | the parser on a text cut into pieces |
| | `HttpParserProofs` | theorems |
| `chatroom/server.c` | `PollChat` | poll, the scan, and the texts |
| | `PollChatProofs` | theorems |
| the programs around epoll | `EpollSockets` | connections, the kernel's data for them, the ready list, the batch |
| `epoll/EPOLLONESHOT/serv.c` | `OneshotServer` | the main thread, its workers, and epoll |
| `epoll/serv.c`, `tcp_and_udp_at_the_same_time/server.c`, `SIG/serv.c` | `EpollServers` | the loop of the three, with four handlers of a connection |
| | `EdgeOnce` | what an edge promises to a handler that takes one unit for it (abstract) |
| | `EpollProofs` | theorems about `EpollServers`, then `OneshotServer` |

`MC*` modules and `.cfg` files instantiate them for TLC.  Operators beginning with a
comment "Mutant:" are changed forms of the definition that follows; nothing of the models uses
them, and each makes one of the properties fail.

### How state and actions correspond to the code

*Names.*  Variables and actions have the names of the code where TLA+ allows; `"map"` in
`PROJECT.json` gives for each definition the lines it stands for.

*Steps.*  In the servers, a step is one handler of the event loop, together with all it calls, because
nothing but a signal handler runs in between, and a signal handler only writes a byte to
a socket pair.  `epoll_wait` fixes the batch; peers, signals and
time act between any two handlers of it.  In the containers, a step is one iteration of a
loop, so that invariants speak about the middle of `percolate_down`, `resize` and
`tick` as well.

*Layers.*  `HeapServer` does not contain the array heap, but uses it as `TimerQueue`
says: a tick runs the armed timers that are due, and drops all that are.  That the array heap
is such a queue is a theorem (`HeapImplementsQueue`).  Likewise `WheelServer` uses
the wheel as `Countdown`; `WheelSlots` implements it, and the
linked lists of `TimeWheel` implement `WheelSlots` (both theorems).  The two halves of the SHM server meet in
`ShmTables`: `ShmServer` implements it (checked, and a theorem), `ShmRelay` builds on it.  `EdgeOnce` is implemented three times: by the listening
and the UDP socket of `EpollServers`, and by the pipe of each child of `ShmRelay` (theorems).

*Event loop.*  The lines named for `EventLoop` are those of
`close_unactive_sock.c`; the other two servers repeat the text.  `quiet` is a history
variable: seconds since the server last heard from a connection.  The
socket pair is a set of signals, as the order and number of equal bytes do not matter to
a loop that looks at each byte.  Edge triggering is modelled as the kernel's ready list:
an arrival puts a descriptor on it, `epoll_wait` takes it off, and data that is left unread
does not put it back.  `setnonblocking` calls `fcntl` without a command that sets flags, so the sockets block; that an accept
or recv never blocks the loop is therefore something to show (`EventsAreGood`).

*Memory.*  Where the code may use a deleted timer, the model says so: `wild` becomes true,
and nothing is claimed of what follows.  In `WheelServer` it depends on the allocator what a pointer leads to,
because `users[fd].timer` is not updated on data: the model has an allocator with a
last-in-first-out cache of `CacheMax` freed timers (glibc's tcache, 7 of a size) and any free
address beyond it.  The pointer may lead to a deleted timer, or to the timer of another connection.  The use of a deleted one is
`wild` and ends the model; the deletion of another's is defined behaviour of the program, the model goes on after it, and the history variable `crossed` remembers it.  In `SortTimerLst` an address is free again
once its timer is deleted, and any later timer may get it.

*SHM server.*  A child's life is `forked` (before it closes the signal pipe), `starting`
(before it has its own SIGTERM handler), `enter` and `wait` (around `epoll_wait`), `leave`
and `zombie`.  SIGCHLD is one pending bit, as in the kernel.  The parent looks at the first of
the bytes it read, as often as there are bytes, because the code says `signals[0]`.

*SHM texts.*  A segment is known by the author of the text in it, or NULL after a `memset`; `memset` and `recv` are two steps of a child, because another may read the
segment in between.  A recv takes all that a client has written.  Pipes are sequences of numbers.  `due` is a history variable: which clients have not got an author's
latest text; and so is `twins`: the children that have, or had, a segment in common with another.  That a pipe
was closed while its event was still in the batch, and its number given to the pipe of a new child, is `stale`.
A client may leave while its child is writing to it, which the kernel may report as a new event (`SendTo`).
Signals, and the children they end, are in `ShmServer`; here children end with their clients.

*HTTP parser.*  A text is a sequence of symbols, the words the parser knows and `CR`, `LF`,
`SP` and `NUL`, the byte 0, which a client can send as any other; recv returns any non-empty part of what is to come, or nothing.
`parse_line` goes through the buffer by index and puts a byte 0 over each line end; `parse_requestline` and `parse_headers` are
given a C string, which ends at the first byte 0, be it that one or the client's own (`Text`).

*Poll chat server.*  `events |= ~POLLIN` clears no bit and sets almost all others: POLLIN stays
asked for, and so does POLLOUT from the first text on; the model follows the code.  Texts
are known by their author's descriptor; that `send` takes the length with `sizeof` and
reads into the next entry is left out.  Clients read what they are sent.

*EPOLLONESHOT server.*  A step is what a thread does up to its next access to something shared.  `slot` is the descriptor in the
struct; main's next `accept` may use its place on the stack for other variables, which the model leaves to choice (NULL).  `mixed` is a
history variable: a worker has found another descriptor than main meant for it.  The model goes on after
that, but claims little.  A worker that calls recv on a descriptor that is not open fails and tries again for good; as this changes nothing,
it is no step.  Not modelled: failures of `accept` and `pthread_create`, and the counter of workers, which is only printed.

*LT, ET, TCP and UDP, signals.*  `server` says which of the four handlers this is, chosen at the start and never changed: the loops are the same lines of code, so
one module has them.  `main` calls `lt()`; its call of `et()` beside it is commented out, and the model has both.  What a connection holds is counted in units of one
recv.  A connection is up, `"fin"` when its peer closed it, `"rst"` when its peer reset it, `"broken"` when that was reported to a call already: the next `send` raises SIGPIPE, which no
program handles, and the process is gone (`"killed"`).  After a reset, what was sent before it can still be read.  `SIGHUP` stands for `SIGCHLD` and `SIGTERM` for
`SIGINT`, which the code treats alike.

## 3. Runs

Each run is one configuration of one `MC` module.

| Run | Question | Instance | Answer |
|---|---|---|---|
| `heap` | Is the array a timer queue, and do its loops end? | 4 timers, times 0..2, capacity 1 at first | yes |
| `heap_server` | Does the server with the heap close exactly the connections it should? | 2 descriptors, 4 timers, timeout of 3 ticks | yes |
| `wheel` | Do the linked lists implement the sets per slot, and is each timer called by the tick its timeout asks for? | 3 slots, 4 timers, timeouts 0, 2, 3, 4, 7 | yes |
| `wheel_server` | Does the server with the wheel close exactly the connections it should, whatever the allocator does? | 2 descriptors, 2 addresses, `CacheMax` 0, timeout of 1 tick | yes, until a handler deletes another connection's timer |
| `list` | Is the list sorted, complete and well linked, and does a tick run what is due? | 3 timers, times 0..2, any delays | yes, until the tail of a longer list is deleted |
| `list_lost` | Is every timer that was added in the list? | 3 timers, one delay, as the server uses it | **no** |
| `shm_server` | Do the tables describe the children, as `ShmTables` says, and do children and server end? | 2 pids, 2 slots, one SIGTERM from outside | yes, with the exceptions its properties name |
| `shm_relay` | Does a text reach the others, and nobody else? | 2 pids, 2 slots, 2 numbers on their way | yes, with the exceptions its properties name |
| `http` | Is the answer independent of how the request is cut? | about 28 000 texts, with bytes 0, a buffer of 12 | yes |
| `chat` | Does the scan handle everything, of the right clients? | 2 users and one to refuse | yes, with the exceptions its properties name |
| `epoll_servers` | Is no connection forgotten, and are those closed, and only those, whose peer left? | 2 descriptors, 2 waiting connections, units and datagrams | yes, with the exceptions its properties name |
| `oneshot` | Has each connection one worker, and is none forgotten? | 2 descriptors, 3 workers | yes, until a worker finds another's argument |

**What the properties say**, in the words of the code:

- `HoldsExactlyLive`, `TopIsEarliest`, `QueueSpec` (`heap`): no timer is lost or kept through `percolate_down`,
  `pop_timer` and `resize`, at any step of their loops; a tick
  runs due timers, earliest first, and stops only when none is left, although deleted timers
  stay in the array without a callback.  `CallsReturn`: each loop ends.
- `OneTimerEach` (`heap_server`): each open connection has its one timer, found through `users[fd].timer`,
  and each armed timer an open connection: `cb_func` never closes a stranger's descriptor.
- `ReaperSpec`: the server implements `IdleReaper`: closing a connection takes a peer that left or `Limit` seconds
  without data, and new data counts at once.
- `EventsAreGood`: no event of a batch is for a connection closed in the meantime, and no accept or recv blocks.
- `AlarmChain`, `SignalsAreSeen`: SIGALRM is never lost or doubled; nothing stays in the socket pair unnoticed.
- `TickLeavesNone`: stale timers in the heap never hide an idle connection from a tick.
- `WellLinked`, `SlotsSpec`, `TickReturns` (`wheel`): the lists are doubly linked and hold what `WheelSlots`
  says, while `tick` deletes from the list it walks.  `CountdownSpec`: slot, rotation and walk together call each timer at the tick
  its timeout asks for.  `WheelSlots` computes slot and rotation as the code does, so it is this property that would notice if they were wrong.
- `OneWheelTimerEach` (`wheel_server`): the same as `OneTimerEach` for the wheel, until a handler has deleted the timer of another
  connection (`crossed`); that `users[fd].timer` leads to another's timer, or to none, does no harm before it is used.  `WheelReaperSpec`: so long, the server implements `IdleReaper`.
  `SilentIsClosed`: so long, a connection that stays silent is closed, also while the pointer of the other one leads to its timer (up to the use of a deleted timer, with
  which the model ends).  `TermStops` holds after a crossing as well.
- `SortedList`, `TickRunsTheDue`, `WalksEnd` (`list`): order, links, completeness; what a tick runs; that walks end.
- `SlotsMatch` (`shm_server`): after any compaction, `users[]` and `sub_process[]` find each other, and only children that
  exist.
  `TablesSpec`: the parent's loop, with its signals and pid bits, does to the tables what `ShmTables` does.
  `ZombiesAreReaped` and `TermStops` hold with exceptions that the code really has:
  `skipped`, a signal read together with another and not looked at (line 273);
  `missed`, a SIGTERM that reached a child before it could notice, or a child forked after it.
- `AnnouncedWhileStored` (`shm_relay`): as long as a text is in its segment, its number is in the pipe of every client that has not got it, or
  on its way there.  `SegmentsAreOwn`: a child does not pass its client's text back to it, and nobody else writes to its segment, unless
  it has a twin (below).
- `RequestLineIsPattern`, `AnswerIsVerdict` (`http`): `parse_requestline` accepts what a declarative pattern describes;
  the answer after each recv is the verdict on all that was received, defined without the parser's indices.  Both take a line to end, as text, at the
  first byte 0 in it, as the code does.
- `EntriesMatch`, `ReportsAreHandled`, `TextsAreOthers`, `PendingIsSent` (`chat`): `fds[]` polls exactly the open
  connections, until a send fails (line 152 closes the descriptor and leaves the entry); a scan handles all that was reported, of entries
  that moved too; pointers lead to texts of others, unless the author has left (line 113 copies another's entry
  over it); a text is sent to a client that does not itself go on talking (line 147 is an `else if`).
- `NothingForgotten` (`epoll_servers`): there is no moment at which data of an open connection would stay unnoticed, although the edge-triggered readers
  take it while more arrives, and `lt()` reads only a part.  `OnlyLeaversClosed`: none of the handlers closes a connection whose peer is there, or
  that has data; the `recv` after `close` never reads another's, as nothing is accepted in between.  `LeaversAreClosed`, `StopsOnTerm`: what must happen does, except that a peer
  that always sends before its data is read keeps the `while(1)` from ending, and that SIGPIPE ends the echo server.
- `OneWorkerEach`, `NobodyForgotten` (`oneshot`): the threads never share a connection, and there is no moment, between EAGAIN
  and re-arming either, at which data would stay unnoticed.  All of this as long as not `mixed`.
  `WorkersCloseLeavers`: so long, a connection whose peer left is closed; and none, `mixed` or not, is closed before its peer has left and all that is there to
  receive is read (`OnlyReadAreClosed`).  What was sent before a reset is not there: the kernel of this model drops it.

The type invariant of a module is a conjunct of one of its invariants (`WellLinked`, `SortedList`, `AnswerIsVerdict`, `EntriesMatch`,
`NothingForgotten`, `AnnouncedWhileStored`); those of `TimeHeap`, `HeapServer`, `WheelServer`, `OneshotServer` and `ShmServer`, and the heap's `HeapOrder`, are
proved and need no run.  So are three properties that say what the code does rather than what could go wrong with it: `StopsAfterLast` (the parent of the SHM server decides
to stop only when all its children are waited for), `OneNumberPerEvent` (an event of a child's pipe sends one segment) and `OneTakenPerEdge` (an edge of the listening or UDP socket
takes one arrival; those that came with it stay).  The inductive invariants of section 4 were checked by TLC on these instances before they were proved.

**The violation.**  `list_lost`: `del_timer` of the tail does not clear the `next` of the new tail (`lst_timer.h:94`).

**What the code does that a reader might not expect.**

- *Wheel server.*  On data the timer is deleted and a new one made, but `users[fd].timer` stays (`close_unactive_sock_use_tw.c:190-191`).  As long as `new`
  returns the address just deleted, that is harmless (`LargeCacheIsSafe`); once the allocator's cache is full (glibc's takes 7), the new timer may get another address, and the
  old one go to the timer of another connection.  When the first connection sends or hangs up, it deletes that timer instead of its own.  On data the new timer is made for the other connection,
  whose wait begins anew, although it sent nothing, while the first, which did, is closed when its old timer runs.  After a hangup the other connection has no timer, and if it stays silent it is never
  closed; the timer of the one that left still runs, and closes a descriptor that may be another's by then.
  The instance of `wheel_server` reaches this, and its properties except what follows (`crossed`).
- *SHM server, twins.*  A child uses the segment of the slot it was forked for (line 114).  When the last user moves to the slot of one that left, its old slot is
  free, and the next child gets the same segment: the texts of the two overwrite each other, and a client may get its own back.
- *SHM server, texts.*  A text is gone when its author writes again, or leaves, before the others have read it: `memset` comes before `recv`, that
  of the end of the connection included.  Of several numbers in a pipe for one event the first is taken, and the rest wait until another comes.
  A client that writes and leaves before its child has read is noticed only when something is sent to it.
- *Echo server.*  A peer that resets, or closes with data still to be echoed, may end the process by SIGPIPE.
- *Edge-triggered listening sockets.*  Two clients that connect at once give one edge, and the second waits until a third comes.

- *HTTP parser, byte 0.*  `GET / HTTP/1.1`, a byte 0 and anything up to the line end is accepted as a request line, and a header line that begins with a byte 0 ends the request
  as the empty line does: what follows a byte 0 in a line is not looked at (`http.c:48-92`).

### Bounds, and why they are enough

- *Heap*: capacity 1 and four timers give two resizes, three levels of the heap, and both
  children of a hole; two different times and ties are all a comparison can tell.  The proofs need no bound.
- *Heap server*: two connections make every clash there is between two (one closed by a tick,
  the other hanging up or sending in the same batch); a timeout of 3 ticks puts up to
  two stale timers between a connection and its own; `MaxUnread` 2 leaves data behind at a recv;
  `Backlog` 1 with two descriptors reuses descriptors.  `Room` keeps a free address for each timer that may be
  made.  Descriptors and addresses are interchangeable, so symmetry is sound; no liveness is checked with it.
- *Wheel*: N = 3 with timeouts below a slot, of exactly a turn, more than a turn and more than two; four
  timers put two or more in one list, and delete at its head, middle and end.
- *Wheel server*: two connections and two addresses are enough for the pointer of one to lead to the other's timer (one connection's data moves its timer to
  the second address, and the other's new timer gets the first).  `CacheMax` 0 leaves the choice of the address free, as a full cache does.  A timeout of one tick (`COUNT` 1) makes a timer be passed once
  before it is called.  `PeersGoOn` is FALSE: once a timer was crossed the properties claim only that SIGTERM ends the server, and the peers fall silent.  The instance has
  534 000 states.  The safety properties are proved, without these bounds and for any cache.
- *List*: three timers have a head, a middle and a tail.
- *SHM*: two children, two slots: one moves into the place of the other.  One SIGTERM from outside, and those children
  send back.  `PipeSize` bounds bytes of SIGCHLD not yet read.
- *SHM texts*: two children and two slots give twins (one child moves down, the next is forked on its slot), an event for
  two numbers, and a text overwritten in between; `MaxNumbers` 2 puts two numbers in a pipe.  The instance has 1.2 million states; with three children it exceeds 7 million.
  The clients are interchangeable, so symmetry is sound; no liveness is checked with it.
- *LT, ET, TCP and UDP, signals*: two connections, one of which starves the other, or takes a number while the other is handled; two units are more than one recv takes, and
  two waiting connections or datagrams more than one edge does.
- *HTTP*: every text of up to five symbols as a request line (the shortest good one has five), some longer ones, and every
  sequence of up to five parts out of a good line, another, and whole and broken line ends; buffers that are too short included.
- *Chat*: USER_LIMIT 2 with one more client to refuse; clients come, talk, leave and reset without a bound.  With three
  users the instance exceeds 30 million states; what a third adds is a removal of which neither entry is the scanned one's
  neighbour.
- *EPOLLONESHOT*: two connections suffice to fill the struct twice before it is read, and to close and accept a number again
  while the other has a worker; of three workers one is always free unless `mixed`, so main never waits for the bound.  `MaxUnread` 2
  leaves data behind at a recv.  With three connections the instance takes longer than is useful; the proofs have no bound.

### Fairness, and why the code justifies it

Weak fairness is assumed only of what the program or the kernel does by itself: the loop's own
steps (a thread is scheduled, and blocks nowhere but in `epoll_wait` or `poll`, which is enabled only when there is
something to report), the passing of time and the delivery of an alarm or a SIGCHLD, a child's own steps,
and those of each thread.
Nothing is assumed of peers: they may never send, read or leave.  (In `PollChat`, clients are taken to read, so that `send` does not block.)

For the handlers of `EpollServers` it is the fairness of their one thread, `WF(Loop)`: it does not say that a `while(1)` ends, and so
`LeaversAreClosed` names the peer that keeps it going.

`CHECK_DEADLOCK FALSE` is set where the program ends by itself: `http` (the connection is closed), `shm_server` (the parent exits),
`epoll_servers` (SIGTERM, or SIGPIPE), `shm_relay` (where clients that left without being noticed leave nothing to do),
and `list` (time ends at its bound, and nothing follows the use of a deleted timer).

## 4. Proofs

Every invariant and every action property of the passing runs, and every refinement, is a theorem: TLC shows it on
a small instance, the proof for all values of the constants.  (`CountdownSpec` is proved in two parts: `TimeWheel` implements `WheelSlots`, and `WheelSlots` implements `Countdown`.)  The constants get no assumption beyond those that the modules name (`ASSUME`).  (One further result has one: `LargeCacheIsSafe`, below.)

| Theorem | Module | For every | Argument |
|---|---|---|---|
| `TypeCorrect`, `ContentsCorrect`, `TopCorrect` | `TimeHeapProofs` | capacity, timers, times | `Inv == TypeOK /\ HoldsExactlyLive /\ HeapOrder` |
| `HeapImplementsQueue` | | | each step of the heap is one of `TimerQueue` or a stutter, from `Inv` |
| `EventsAreGoodCorrect`, `AlarmChainCorrect`, `SignalsAreSeenCorrect`, `WheelEventsCorrect` | `TimerServersProofs` | descriptors | `EventInv`, once for both servers |
| `OneTimerEachCorrect`, `TickLeavesNoneCorrect`, `ServerImplementsReaper` | | and addresses, timeouts | `Inv == TypeOK /\ OneTimerEach /\ RemainingMatches` |
| `OneWheelTimerEachCorrect`, `WheelServerImplementsReaper` | | the same, and any cache of the allocator | `WheelInv == WheelTypeOK /\ IsFiniteSet(live) /\ OneWheelTimerEach /\ QuietMatches` |
| `LargeCacheIsSafe` | | the same, under `CacheIsLarge` | `CacheInv`: the deleted address is always the next one given |
| `WheelTypeCorrect`, `WheelImplementsCountdown` | `TimerListsProofs` | slots, intervals, timeouts | the type invariant; arithmetic of slot and rotation |
| `WellLinkedCorrect` | | and timers | `Inv == TypeOK /\ Lists /\ WalkInList` |
| `ListsImplementSets` | | | the first step of `tick`'s loop is the whole tick of `WheelSlots`, the others stutter |
| `SortedListCorrect`, `TickRunsTheDueCorrect` | | timers, times, delays | `SortedList` is inductive itself |
| `SlotsMatchCorrect`, `StopsAfterLastCorrect` | `ShmProofs` | USER_LIMIT, pids | `TableInv == TableType /\ SlotsMatch` |
| `ServerImplementsTables`, `TypeCorrect` | | | each step is one of `ShmTables` or a stutter, from `TableInv`; types of the rest |
| `SegmentsAreOwnCorrect`, `AnnouncedWhileStoredCorrect`, `OneNumberPerEventCorrect` | | and numbers in a pipe | `RelayInv`, eight conjuncts (below) |
| `RequestLineAccepted` | `HttpParserProofs` | line, of any length | none: it is about an operator |
| `RequestLineIsPatternCorrect`, `AnswerIsVerdictCorrect` | | text, way to cut it, size of the buffer | `Inv`: `LinesRead`, `NoneLeft` |
| `EntriesMatchCorrect`, `ReportsAreHandledCorrect`, `TextsAreOthersCorrect` | `PollChatProofs` | USER_LIMIT, descriptors | `Inv`, seven conjuncts (below) |
| `NothingForgottenCorrect`, `OnlyLeaversClosedCorrect`, `OneTakenPerEdgeCorrect` | `EpollProofs` | descriptors, units, arrivals | `Inv`: `NothingForgotten` with what is known of the batch |
| `OneWorkerEachCorrect`, `NobodyForgottenCorrect` | | descriptors, workers | `OneshotInv == OneshotTypeOK /\ ClosedAreEmpty /\ (~mixed => Matches)` |
| `OnlyReadAreClosedCorrect` | | | `OneshotTypeOK`: only one action closes |

*Heap.*  `HeapOrder` alone is not inductive: in the middle of `percolate_down` there is a hole, and the
order holds except there, with the carried timer known to be no earlier than the hole's parent.  `HoldsExactlyLive` counts the carried
timer in.  That the first timer is the earliest of all (`TopIsEarliest`) follows from the
order of each parent and child: of the slots with an earlier timer than the first take the lowest (`LeastNat`); its parent has one too.

*Event loop.*  `EventInv` joins types, `EventsAreGood`, `AlarmChain`, `SignalsAreSeen` and that nothing of a closed connection is left on the ready list; each of its actions keeps it, once for
both servers, which cite the lemmas.  That events stay good needs that a tick
closes connections only after the batch.

*Heap server.*  `OneTimerEach` does not say when a connection is due.  `RemainingMatches` does: for an
open connection, `quiet[fd] + remaining[timerOf[fd]] = Limit`.  So a
timer that is due and armed belongs to a connection that idled for `Limit`, and the tick implements `Sweep`; and all that idled are among them.

*Wheel server.*  `OneWheelTimerEach` speaks of `user` of the timers, not of `users[fd].timer`: a handler that deletes its connection's own timer keeps it, whatever address the
new one gets, and one that deletes another's sets `crossed`.  `QuietMatches` bounds the ticks a timer has counted by the seconds its connection has been silent, again until `crossed`; so a
timer that a tick finds at 0 belongs to a connection that idled.  Neither needs to know anything of the cache.  `LargeCacheIsSafe` says when there is no exception: with room in the cache for a timer
of each descriptor (`CacheIsLarge`) the address just deleted is always the next one given, so `users[fd].timer` stays right and no handler crosses or uses a deleted timer.  glibc's cache has room for 7, and the program for more
connections, so this is no promise of the program; it shows that the cache is all that matters.

*Linked lists.*  What a list holds is the least set that is closed under `next` (`Chain`), so that facts about it need no induction over a list: to show that
a chain stays within a set, show that the set is closed.  The lemmas say what a chain is after its head, a middle or its end was taken out or
put in (`ChainWithout`, `ChainWith`, `ChainRest`), that a chain that comes to an end has no cycle (`ChainEnds`), as has one that can be followed back (`ChainAcyclic`), and that
fields that ascend from each to the next ascend along the chain (`ChainAscends`).

*Wheel.*  With slot and rotation of a timer, `WheelImplementsCountdown` computes the ticks to go from the distance of the
slot to `cur_slot` and the rotations; a tick takes one off each.  The facts about modulo are lemmas.  For the lists the invariant has
that each holds the timers of its slot (`ListsHold`), that heads have no `prev` (`HeadsHaveNoPrev`; without it a list could be a ring), that `prev` and `next` agree, that nothing is left in deleted
timers (so that a new one at the same address begins unlinked), and that the walk is in the list of the current slot.  While the wheel ticks, what the walk has not come to yet is read as done (`TurnsLeft`); then `tick`'s loop only catches up with what its first step stands for.

*Sorted list.*  `SortedList` says enough of each step of a walk to be inductive, until the tail of a longer list is deleted (`cut`).  That the place where the walk of `add_timer`
stops is the right one needs only its neighbours; that the head is the earliest of all, which `TickRunsTheDue` needs, is `ChainAscends`.  That no deleted timer is
touched (`NeverWild`) follows as all pointers of members lead to members.

*SHM server.*  `SlotsMatch` is inductive with the types of the tables: `Reap` moves the last user, also if it is the one that ended.
`ServerImplementsTables` needs it: that the pid in `sub_process[]` leads to the slot that holds it makes `Reap` the step that `ShmTables` describes.

*SHM texts.*  `RelayInv` has, of the tables, that a child is in one slot (`UsersOnce`), that the children in the tables are those not yet waited for (`UsersLive`), and that of one that has gone nothing is left (`GoneAreEmpty`).
`TwinsKnown` says that children with one segment in common are known as twins; what a segment holds was written by a child that has this segment (`AuthorsOwn`).  `DueToOthers`: a text is due to others
only.  `PipesCovered`: each event of a child's pipe, reported or yet to be, has a number of its own there, which is what `OneNumberPerEvent` needs.  With these, a text in a segment stays announced to all it is
due to (`AnnouncedWhileStored`): its number is in the pipe of the parent, or in theirs, or their child is sending.

*HTTP parser.*  `LinesRead` describes the parser between any two of its steps: all before `start_line` are whole lines, the first of them a request line and none of the rest
empty; after it the buffer is as received, and nothing that `parse_line` has passed there breaks a line.  `parse_line` then finds one of four things (`ParseLineFinds`): nothing, a CR at the
end, a line, or a flaw; its branch for an LF behind a CR that it passed earlier is never the one that accepts.  The text it hands on is what the client sent between two line ends
(`LineText`).  For each of these the verdict is computed from the indices (`VerdictOf`).
`RequestLineAccepted` follows `strpbrk` and `strspn` through the line: a suffix of the line is named by where it begins, and each call moves that index (`FirstBlankOf`, `BlanksSkipped`).

*Poll chat server.*  `Inv` has types; `ScanInOrder` and `ReportedIsThere` (the scan left nothing reported behind it, and a text that was reported is there to be received); `OpenArePolled` and
`EachOnce` (the entries of `fds[]` are the open connections, each once, until a send fails); `NotItsOwn` and `TextsAreOthers`.  That the entry moved into the gap is scanned next, and that `fds[]` has room for the newcomer that
`user_count < USER_LIMIT` admits, are its two hard steps; the second counts: entries that are all different are no more than descriptors.

*LT, ET, TCP and UDP, signals.*  `NothingForgotten` is inductive with `LevelTriggered` (in `lt()`'s server a connection of the batch is on the ready list until its turn), `BatchIsReadable` (what was
reported has something to read, so that a `recv` there is not in vain), and `Covered`, for each of the two sockets that take one unit for an edge: an event, reported or yet to be, has an arrival of its own.

*EPOLLONESHOT server.*  The two invariants are inductive only together, and with `EpollMatches`: only armed connections are on the
ready list, no connection is both armed and in the batch, and all of these are open.  So a connection is in one of
three places, armed, in the batch or with its one worker, and each step of main or a worker moves it to the next.  `ClosedAreEmpty` is needed at an accept: the new
connection has nothing to read, so being armed is enough.

## 5. Only model-checked

Liveness (`CallsReturn`, `TickReturns`, `WalksEnd`, `SilentIsClosed`, `TermStops`, `ZombiesAreReaped`, `PendingIsSent`,
`LeaversAreClosed`, the second half of `WorkersCloseLeavers`, `StopsOnTerm`) and
whatever involves ENABLED are out of the prover's reach.  `EveryTimerInList` does not hold, which the run `list_lost` shows.

## 6. Not modelled, and left out on purpose

- Failures of `malloc`/`new`, of `epoll_ctl`, of `socketpair`, and a full socket pair.
- `accept` failing for a connection that was reported; in `PollChat` it is not retried in the code either.
- In `EpollServers`, `epoll_wait` interrupted (by a stopped and continued process; two of the programs then end), and events of the
  descriptor -1 that a failed `accept` leaves.  In `ShmRelay`, signals from outside, and sends to a full pipe or socket.
- What is in the buffers: `lt()` writes a 0 behind a buffer that recv has filled (`epoll/serv.c:54`).
- In `PollChat`, output that blocks because a client does not read.
- What happens after the use of a deleted timer.
- Text: what is printed, and the exact bytes of messages.
- The heap's constructor from an array, which nothing calls.

## 7. Plan

Done: the timer containers with their servers, the tables, signals and texts of the SHM server, the HTTP parser, the poll chat server, the EPOLLONESHOT server, and the
LT, ET, TCP and UDP, and signal servers; proofs of all their safety properties.  Next, in this order:

1. `SortedQueue`, what `sort_timer_lst` promises as long as its tail is not deleted: a bag of timers of which a tick runs those that are due, in order; that `SortTimerLst` implements it, as a theorem.
2. `ListServer` (`close_unactive_sock.c`): `EventLoop` with the timers of `SortedQueue`.
