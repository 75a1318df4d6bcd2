# A verification of ccybe

TLA+ models of the HTTP server in this repository, TLC runs that check them on
small instances, and TLAPS proofs, for every size, about its queue, its thread
pool, its client list, its start-up, its event loop and its workers. Line references are to the repository's
files (`http.c` is `src/http.c`, `queue.c` is `src/ds/queue.c`, and so on).

## The system and its parts

ccybe is a process with five threads. The main thread owns the listening socket
and a kqueue; it accepts clients, reads requests, and sends responses. Four
worker threads take requests from a work queue, parse them, build responses and
hand them back by registering a WRITE event that carries the response. The two
sides share the work queue (under a mutex), the kqueue, the routing table and
the descriptor numbers; everything else is passed by pointer.

| Part | State | Operations | What makes it correct |
|---|---|---|---|
| work queue, `ds/queue` | array, `cap`, `len`, `readAt`, `insertAt` | init, push with resize, pop, free | a FIFO through wraps and resizes |
| thread pool, `ds/threadpool` | mutex, condition, queue, `shutdown`, threads | `create_pool`, `push_task`, `start_pool`, `destroy_pool` | each accepted task executed once; no lost wake-up; nothing freed while used; destroy returns |
| start-up, `main`, `http`, `cnet` | the fields of `server_t`, the listener, signal handlers | `init_server`, `register_route`, `init_listener`, `s_listen` | the loop finds everything it uses; a failed start releases what it has |
| event loop, `http` | listener, kqueue, batch of events, client list, route table, shutdown flag | `serve_and_listen`, `accept_client`, `read_from_client`, `write_to_client`, `remove_client`, signal handler | every request answered or its connection closed; nodes owned by one party; clean shutdown |
| client list, `ds/llist` | doubly linked list of clients | insert, search by fd, remove, free | linked both ways; the search finds every open client; the final free closes them all |
| sockets, `cnet` | listener and client structs | `s_listen`, `s_accept`, `conn_close` | no descriptor leaked |
| parser, `parser` | `http_request_t` filled by llhttp callbacks | init, parse | what is stored is what arrived |
| URL, `url` | `url_t` | `decode_url`, `seperate_query` | decoding and splitting lose nothing |
| handlers and response, `http`, `main`, `response`, `ds/buffer`, `mime` | status, headers, body strings | `handle_conn`, the two pages, static files, 404, `set_header`, `generate_response` | the answer is the one the request calls for; its body has the announced length |
| routes, `route` | hash table from path to handler | register, lookup, destroy | a path leads to its first handler; lookups only while allocated |

The behaviour that is hard to test: workers that sleep, wake and exit against a
pool being filled and destroyed; a descriptor number that outlives its
connection in a worker's copy of `client_t`; a batch of events in which one
frees what another points to; a response only partly sent; a request in two
segments, which becomes two tasks; a start of which any step fails without
stopping the next; a file that changes while it is served; a shutdown at any of
these points; each system call and allocation failing. `PROJECT.json` lists
these hazards with their lines and the properties that would notice them.

## The modules

| Module | Models | Uses |
|---|---|---|
| `FifoQueue` | what `queue.h` promises: an abstract FIFO | |
| `RingQueue` | `queue.c`: the growing ring | refines `FifoQueue` |
| `TaskPool` | what `threadpool.h` promises: an abstract pool | |
| `ThreadPool` | `threadpool.c`: threads, lock, condition variable | refines `TaskPool` |
| `ClientSeq` | what `llist.h` promises: clients in order of arrival | |
| `ClientList` | `llist.c`: nodes, links, the loops over them | refines `ClientSeq` |
| `Startup` | `main`, `init_server`, `init_listener`, `s_listen`, `route.c` | |
| `Kernel` | the operating system as `http.c` uses it (external) | |
| `Server` | the event loop of `http.c` | `EXTENDS Kernel`, `INSTANCE TaskPool` |
| `Url` | `decoder.c` and `url.c` as functions | |
| `Request` | `parser.c` over the spans llhttp reports | `EXTENDS Url` |
| `Worker` | `handle_conn`: handlers, `response.c`, `buffer.c`, `mime.c` | `EXTENDS Request` |
| `RingQueueProofs`, `ThreadPoolProofs`, `ClientListProofs`, `StartupProofs`, `ServerProofs`, `WorkerProofs` | theorems and their proofs | each the module it is about |
| `SequenceFacts`, `RequestProofs` | lemmas for `WorkerProofs`: induction and folds; what the parser stores, where `seperate_query` ends the path | |
| `MC*` | instances for TLC | |

Composition follows the code's layering. `ThreadPool` uses the queue through
its FIFO contract, which `RingQueue` is proved to implement; `Server` uses the
pool through `TaskPool`, which `ThreadPool` is proved to implement, and keeps
its clients in a sequence with the operations of `ClientSeq`, which `ClientList`
is proved to implement. `Server` begins where `Startup` is `"serving"`. What
`Server` takes as one outcome of a worker (answered, rejected, or stuck) is
`Worker` in detail. So the server is checked without the pool's locking steps,
the ring's indices or the list's links, and the answers without the event loop.

**RingQueue.** Variables are the fields of `queue_t` and the last call's result.
Every call is made under the pool's lock, so a call is one step. Indices count
from 0 as in the code. `push` has three forms: a slot is free, the resize
succeeds, the resize is refused (limit reached or `malloc` failed). Slots
`malloc` returned unwritten hold `NoTask`. Overflow of `int` needs no modelling:
`resize` computes in `long long` and refuses from 1e7 on. `1e6` and `1e7` are
the constants `MaxInitCap` and `GrowLimit`.

**ThreadPool.** A step is what a thread does between two points where another
can intervene: taking the mutex; the section under it together with its unlock;
running a task. Waiting on the condition variable releases the mutex and joins
the wait set in one step; a signal moves one waiter back to taking the mutex, a
broadcast all; a waiter may also wake spuriously (`MaxSpurious` bounds how
often). `create_pool` acquires five resources in order; failing at any of them
runs the cleanup label the code jumps to, and `pthread_create` failing half-way
runs `destroy_pool(pool, i)`. Freeing the never-assigned `q->q` after
`init_queue`'s `malloc` failed is undefined: the step may end in the process
being aborted.

**ClientList.** A node is the address `malloc` returned, so a freed one may come
back. The loop of `search_client` takes one step per node it looks at, and so
does that of `free_list`; insertion and the pointer updates of removal are one step
each, since only the main thread uses the list. A client whose READ registration
failed is closed but kept (`http.c:165`), so the list may hold nodes whose
descriptor is closed, or open again for a later client. `insert_client` clears
the node before it tests `malloc`'s result: without memory the process crashes.

**Startup.** `server_t` is a local of `main`: a field is `"junk"` until it is
assigned. `init_server` gives up silently at any of its calls and `main` goes
on, so registration and `init_listener` meet fields that were never assigned;
a junk table either crashes the process or happens to be usable (`ub`). `stop`
is junk as well until `init_server` clears it. Signals may arrive at any point: before
`sigaction` they kill the process, after it they set the flag. `init_listener`
overwrites every error of `s_listen` by 1 and a release with error 1 does not
close the listener. Registration follows khash: a path that exists keeps its
handler, a table that cannot grow refuses, `strdup`'s failure crashes.

**Kernel.** Connections, the descriptor table and one kqueue. Clients and the
files a worker opens share the table (`fdt`, `files`), and both get the lowest free
descriptor; `close` drops a descriptor's registrations but not events
already copied into a batch; READ level triggered, WRITE one-shot, the listener
edge triggered (`EV_CLEAR`); re-adding a registration replaces its user data.
A client sends its request in `Parts` chunks and may half-close or close.

**Server.** `pc` is where the main thread is; `list` and `cfd` are the client
list and the descriptor in each node; `tn` holds the `thread_node_t`s in
allocation order, each also being the task submitted to the pool. A handler
call is one step, except `accept_client`, whose loop takes one step per
accepted connection, because workers act in between. Reads and sends of one
handler call are one step: another thread can change what they see only by
registering events, which the main thread does not look at before it calls
`kevent` again. Each call of the handlers may fail where the code would notice or
ignore it, `MaxFaults` times: `kevent` with any error but `EINTR`, which leaves
the loop; `accept`, which ends its loop whatever the error is; `fcntl`; `EV_ADD` of a READ
registration, and of a WRITE one for a descriptor that is open (`http.c:125`,
`http.c:255`); each allocation, an append half-way through the received bytes
included. `lost` collects the clients that such a failure, or a refusing queue,
leaves to themselves. A WRITE event is reported whenever the registration exists (a
socket can take at least one byte); a send then transfers all, some or none of
the response. The order of a batch is arbitrary. Freed memory that is used again
(`ub`) reads as any descriptor, or crashes the process. `handle_conn` takes two
steps: parsing with building, during which a file may be opened that is never
closed, and registering the WRITE event.

Abstracted: request bytes are chunks classified as a whole request, a prefix,
the rest of one, nothing, or bytes that are rejected. `BadConn` are the clients
whose request is rejected: it is not HTTP, or it is but `decode_url` does not know an
escape of its URL (`/%26x`). llhttp accepts every prefix of a valid request and
`decode_url` every prefix of a URL it decodes, one cut inside an escape
included, for it looks for the digits only before the last three characters
(`decoder.c:55`); so a client not in `BadConn` is rejected only for the rest of
a request, of which both outcomes are possible. A response is `RespLen` chunks, and one that could not be allocated is
not told from one that is sent. Left out: batches longer than
`MAX_KQUEUE_SIZE`, which `kevent` would report in the next call.

**Url, Request.** `decode_url` and `seperate_query` are functions over
one-character strings, with the two decoding tables in full. `Request` folds the
parser's callbacks over the spans llhttp (external) reports for the bytes read
so far: several pipelined requests, the last one unfinished, a method that is
rejected. The buffers are arrays that keep the tail of what they held before;
the last method and URL win, headers accumulate.

**Worker.** A state holds the bytes of one connection, growing a method, a URL
token (a character or an escape) or a header at a time, and where `handle_conn`
is. `handle_conn` itself (parse, test the method, look the path up), each
handler's body and each append of `generate_response` are steps; the system calls
of the static-file path (`stat`, `open`, `read`) are steps of their own, because the file
may be overwritten, removed or restored between them (`file_changes`). A string
is `NULL` or the sequence of its characters, a word counting as one character;
the answer is the sequence of the pieces appended to it.
`append_string` stops copying at a NUL, as `strncpy` does, while `len` counts on.
`Faults(calls)` chooses which of a step's allocations and calls fail. The
file's type is an attribute of the file, `get_mime` a function of it; a type of
ten characters or more overruns `ext[10]` (`mime.c:8`), after which the process
either dies (`get_mime_overflows`) or finds the type unknown. `file_fd`
is never closed (`response.c:204`), so `fds` only grows, over one answer after
another (`next_task`). The response's memory holds an earlier answer's status
until `handle_conn` clears it.

Definitions marked *Defective* take no part in any specification. Each is a
plausible mistake in the definition that follows it and shows that the property
listed for it in `PROJECT.json` can fail.

## The runs

Passing runs:

| Run | Instance | Checks |
|---|---|---|
| `ring` | 2 tasks, initial capacities 1, 2 and 3 (requests -1, 2, 3, and 4, above the limit), growth below 8 | `TypeOK`, `RingInv`; `FifoSpec` (refinement) |
| `pool` | 3 workers, 3 tasks, capacity 1, 1 spurious wake-up, every creation failure | `TypeOK`, `NoLostWakeup`, `TaskAccounting`, `WorkersFindPoolAlive`, `DestroyDrains`; `PoolSpec` (refinement), `AcceptedTasksRun`, `DestroyReturns` |
| `list` | 3 nodes, 3 descriptors | `TypeOK`, `Linked`, `SearchMissesNobody`, `FreeListClosesAll`; `ListSpec` (refinement) |
| `startup` | `main`'s two routes and one of them again, every call failing, signals at any time | `TypeOK`, `ServingIsReady`, `EarlySignalStops`, `StartedIsDefined`, `FailedStartReleases`, `FirstRegistrationCounts` |
| `server` | 2 clients, one of them with a request that is rejected, requests in 2 chunks, 1 descriptor for clients and a file, 2 workers, a queue of 1 that may refuse, one failing call, one hang-up, one send that would block, shutdown at any time | `TypeOK`, `OneOwner`, `ClosedAfterResponse`, `OpenIsServed`, `StoppedIsClean` |
| `server_live` | 2 clients, requests in 1 chunk, 2 descriptors, 1 worker, one file, one failing call, one hang-up, one send that would block, fair threads | `ListCoversDescriptors`, `PendingNoticed`, `ConnectionsEnd`, `PendingAccepted`, `ShutdownCompletes` |
| `worker` | bytes of up to 8 methods, URL tokens (a character, `?`, `&`, `=`, `%3D`, `%25`, the unsupported `%26`) and headers, those of up to 4 answered; 2 failing calls and 1 file change per answer, 2 files open at most | `TypeOK`, `DecodesTokens`, `QueryRoundTrip`, `ParametersKept`, `RequestStored`, `AnswersRequest`, `AnnouncedLength`, `PiecesWhole` |

Why the bounds are enough. Growth below 8 lets each ring wrap, resize while
wrapped, wrap again and be refused. Three workers are the least with one
asleep, one on its way and one running; with capacity 1 the queue both accepts
beyond its capacity and refuses. Three nodes are the least with a head, an end
and one between; a descriptor may come back while
two stale nodes carry it. Three registrations hold a duplicate, before or after a refused
one. Two clients are the least for a descriptor to change hands, two chunks for
one connection to have two tasks. In `server` a response is one chunk: what the
client got is a history variable, and a response of two has the same control
(`resend` has two). The two runs of the server divide what together has too many states: in `server` a
request has segments and both clients need the one descriptor, so that it is
reused, and `accept` finds none, at every point of an answer; in `server_live` both are
connected at once, so that the loop of `accept_client` takes more than one and the list has
several nodes. Liveness of a request in two segments is not checked for that
reason: `OpenIsServed` and `OneOwner` say that the two `thread_node_t`s it leads
to do not lose the connection. The proofs cover all of it at once. One file is
the least for a worker to take the descriptor that `accept` needs. `MaxTn` (the number of `thread_node_t`s) is larger than any
passing instance allocates, so it never disables a read. In
`worker`, eight elements are a method and a URL of up to seven tokens, which
hold two parameters with a delimiter after them; such URLs are only read, which
is all the properties of decoding, splitting and storing need. The four elements
of an answered request reach every handler, every file, a header, a query and a
second request in the same bytes. Two failing calls are the least
for one failure to hide another; two open files the least
for one answer with a leaked descriptor to succeed and a later one to fail.

`CHECK_DEADLOCK FALSE` stands where the system may stop. A server whose clients
are done waits in `kevent`, and stops for good after a shutdown; that it does
not stop earlier is what `ConnectionsEnd` and `ShutdownCompletes` are for. A
list that was freed, or whose insertion crashed, has no next step; nor has a
start that has ended; nor a worker that crashed, or that has read the `MaxTokens`
elements of bytes longer than `MaxHandled`.

Fairness. In the pool every thread that can take a step takes one: POSIX threads
are all scheduled and tasks return. Weak fairness is enough for the mutex too:
contention for it ends by itself, since a worker that finds no task goes to
sleep and tasks are finite, so a thread waiting for the lock is not passed over
for ever. Main owes nothing while it is between calls. In the server, weak
fairness of the main thread's loop, of the pool's starting the oldest task, and
of every worker with a task; clients and signals owe nothing, and fairness of the
loop asks for no failure: a `kevent` that has nothing to report may wait for ever.
`ConnectionsEnd` and `PendingAccepted` promise nothing to clients that a failing
call left (`lost`) nor after a shutdown; the first asks for the end of an answer
as long as nobody hung up.

Runs that must find a violation, each against a line of the repository:

| Run | Property | What happens |
|---|---|---|
| `misdirected` | `ResponseReachesRequester` | a client hangs up while its request is processed, its descriptor is reused, and the response goes to the new client |
| `resend` | `ResponseSentOnce` | after `EAGAIN` the response is sent again from its first byte |
| `freed_node` | `NodeOutlivesEvents` | a WRITE event frees the list node the READ event of the same batch carries |
| `bad_request` | `BadRequestEnds` | a rejected request is neither answered nor closed |
| `partial_request` | `WholeRequestAnswered` | a request whose second segment is late is answered, and closed, after the first |

Also modelled, and seen to happen, but contradicting no statement of the
repository, or one that the properties above already leave out:

- `destroy_route` frees the table while workers may still look paths up in it
  (`ub` gains `"route"`); `create_pool` frees an unassigned pointer when
  `init_queue` cannot allocate; after a failed `init_server` the routes are
  registered in an unassigned table.
- After `accept` failed, for want of a descriptor or with any other error,
  pending clients wait for another one to connect (`PendingNoticed`); a signal that arrives
  outside `kevent` is noticed at the next event; when `push_task` refuses, an
  allocation fails or a WRITE registration cannot be made, the client is left
  waiting (`OpenIsServed`). The properties name these clients: they are the ones in `lost`.
- The listener stays open when `setsockopt`, `bind` or `listen` failed
  (`FailedStartReleases` says exactly when). The files `response.c:204` opens stay
  open after the shutdown; so does the kqueue's descriptor, which is not in the model.
- The capacity of a ring grows past the 1e6 of `queue.h:20`, which bounds the initial one.
- A client that sent its request and shut down its sending side is dropped
  unanswered: `EV_EOF` is tested before the bytes are read (`http.c:302`). And the `EV_EOF`
  event of a descriptor that an earlier event of the batch closed, and `accept`
  reused, drops the new client (`http.c:303`). `ConnectionsEnd` promises an
  answer only as long as nobody hangs up.
- An escape at the end of a URL is not decoded (`decoder.c:55`), so
  `DecodesTokens` excludes such URLs; `%3D` is decoded before the split and
  splits a value, so `ParametersKept` excludes escapes of delimiters.
- POST, unknown methods ("send unknown method type", `http.c:117`), directories and
  files of unknown type are answered with status 0; so is every file once the
  descriptors are used up. A file with a NUL, a PNG for one, arrives with NULs
  from there on (`buffer.c:47`). `AnswersRequest` leaves all of these out: it is
  about the GETs that the code answers as it should.
- A file whose type has ten characters or more can crash the process.
- `generate_response` goes on after a failed append, so a line or the body is
  missing (`PiecesWhole`); when a line's own buffer cannot be allocated it
  crashes (`no_line`).

## The proofs

The theorems hold for every value of the constants that satisfies the named
assumptions. In `RingQueue`: `NoTask` is not a task, requested capacities are
integers and there is one, the limits are naturals. In `ThreadPool`: there is
at least one worker, and the main thread, the workers and the free lock's owner
are distinct. In `ClientList`: `NULL` is not a node. In `Startup`: `Routes` is a
sequence of pairs of a path and a handler. In `Kernel` and `Server`: `None` is
neither a client nor a number; there is at least one descriptor, one worker, one chunk of a
request and one of a response; the bounds are naturals.

*RingQueueProofs.* The inductive invariant is `TypeOK` with `RingInv`
(`insertAt = (readAt + len) % cap`, and the `len` slots from `readAt` on hold
pushed tasks). Neither half is inductive alone: without the equation, `pop`
could reach an unwritten slot. The modular arithmetic is isolated in lemmas
about slots (`SlotValue`, `SlotNext`, `SlotAfter`, `SlotDistinct`), because the
provers do not reason about `%` with a variable divisor beyond one wrap.
`RingImplementsFifo` maps the ring to the sequence `Contents` read off it; a push
that resizes unrolls the array, and `Contents` shows that this is invisible. A
refused push needs `cap >= MinCap`, an invariant of its own.

*ThreadPoolProofs.* `Control` strengthens `TypeOK` with three parts: `LockInv`,
the lock's owner is exactly the thread at a point under the lock; `WorkerInv`,
the wait set is exactly the workers asleep, which workers exist, and
an exited worker saw shutdown and an empty queue; `StageInv`, what main's
control point says of the fields. It is inductive and gives `PoolTypeCorrect`
and `PoolAliveWhileUsed`. `NoLostWakeup` is inductive relative to it: the count
of workers on their way to the queue drops only when the queue is empty or when
one of them takes a task from it. `Accounting` (the queue is the suffix of what was accepted,
tasks are distinct, each taken task is with one worker or done) gives
`TasksAccountedFor` and `DestroyDrainsPool`, and with it every step is shown to
be a step or a stutter of `TaskPool`: `PoolImplementsTaskPool`.

*ClientListProofs.* The inductive invariant is the conjunction of the four
invariants the `list` run checks. `Linked` relates
`head`, `tail`, `next` and `prev` to the history sequence of the clients in the
list; removal unlinks the right neighbours only because the search's position is
one of that sequence, which is `SearchMissesNobody`, and `FreeListClosesAll` needs
both. `ListImplementsSeq` then maps each step to one of `ClientSeq`, the steps
of the loops to a stutter.

*StartupProofs.* `Control` has five parts: `InitInv`, what has been acquired when
`init_server` is at each call; `SignalInv`, a caught signal has set the flag;
`FieldInv`, with the kqueue there is everything, until the release, in its
order; `ListenerInv`, what `main`'s place says of the listener and its error;
and `EarlySignalStops`. The key is that the kqueue is the last thing
`init_server` acquires and that `init_listener` cannot succeed without it: that is
why silent failures do not reach the loop. `Registered` gives
`FirstRegistrationCounts` for any sequence of routes: it needs `TableInv`, that a path is in
the table because a registration put it there.

*ServerProofs.* `IInv` has six parts; with `History` and `OpenFds`, which are inductive
relative to it, it gives the seven invariants of the two server runs. `Types` is `TypeOK` with the domains it leaves out, and that only
descriptors of clients have `EV_EOF` events. `StageInv` says what the main thread's place has
left behind: the batch is consumed when the loop turns, the listener and the
connections waiting at it are gone once the loop is left, the pool is drained after the
join. `Listing` is `ListCoversDescriptors` with `ListInv`: a node is in the list
once, it and every `thread_node_t` belong to an accepted connection, and a
connection keeps the descriptor its node names; and with `BacklogInv`, the same
for the connections that wait. `ListCoversDescriptors` is
not inductive without them, because `accept` would then overwrite a node that is
still in use. `OwnerInv` strengthens `OneOwner` with the state a
`thread_node_t` has in each place: queued tasks are unparsed, a registration or an
event of the batch carries a built response for its own descriptor, and no
registration's event is still in the batch when it is made again. This is what
excludes a second owner when a descriptor is reused: a worker that
answers on it replaces the registration, and the event a batch already holds
stays the only holder of the other node. `ServedInv` is `OpenIsServed` without
the condition that bytes were read, and names the place of the response that is
still to come, or that a failing call has put the connection in `lost`; it needs `OwnerInv`, for a WRITE event frees its node only after
the connection was closed, and `EAGAIN` registers the same node again.
`ClosedAfterResponse` is inductive given `Types`, since a full send and the close are one
handler call. `History` relates what happened to `lost`: a connection that was read
from has a `thread_node_t`, is closed, or is in `lost`; and it contains `PendingNoticed`:
only `accept`'s failure ends its loop with clients pending, and it puts them in `lost`.
`OpenFds`: the connection at a descriptor in the table is not closed. The two take
`ServedInv`, which allows that no `thread_node_t` was ever made, to `OpenIsServed`. The proof follows the calls: lemmas about each handler's effect
(`RequestFacts`, `WriteFacts`, ...) give what it changes; then each part of
the invariant has one lemma per handler, and one for a new batch from
`kevent`; `ServerInvariant` joins them.

*SequenceFacts, RequestProofs.* The library states induction with an operator for
the formula, which cannot be instantiated here; stated with a set instead
(`Induction`, `SequenceInduction`), it follows from the well-foundedness of `<` on
the naturals, which the library has. From it come that a recursive function exists
and is unique (`Iterates`, `Unfolds`), and with that the lemmas about `FlattenSeq`
and `FoldLeft` of a longer sequence (`FlattenAppend`, `FlattenConcat`, `FoldTo`). `EverythingStored` is by
induction over the requests, and within one over its headers: after each span,
the buffers read as C strings are what the client wrote, whatever they held
before.

*WorkerProofs.* `IInv` has five parts. `InputInv`: the bytes are requests made of
`Token` and `Header`, no larger than `MaxTokens`, so that all of them fit the
arrays; this is all that `RequestsAreStored` and `UrlsAreDecoded` need. The first
is `EverythingStored`. For the second, `DecodeTokens` is by induction over
the tokens from the last one on, because `decode_url` makes of a character or an escape what
it makes of the rest with one character before it; that the loop sees the same
rest in a longer URL is `DecodeBehind`. `TypesInv` bounds the control, `FileInv` says that a
path about to be opened, or a file being read, had a known type when `stat` saw it: files change
their data and come and go, not their names. `RespInv`: the first header announces the
length of the body, and without headers there is no body; every handler gives
headers and body in one step, so nothing is known between. `LeftInv`: at each
point of `generate_response`, what has been appended are the pieces up to there
without some, and those are missing only if an allocation failed. It is
inductive because leaving out elements of a concatenation is leaving out elements of
its parts (`WithoutConcat`). `AnnouncedLength` then needs that no line of a
header is the empty line, and `WordAssumption`: without `'\0'`s in words,
`strncpy` copies the lines of a header whole (`StrncpyWords`).

`RequestsAreAnswered` joins all of it, from the client's bytes to the answer. With
`IInv`, `DueInv` is inductive: as long as nothing has failed and no file has
changed, what `stat` saw still holds when the file is opened and read, and
from the handler's last step on `resp` is the page that the path calls for (`Due`),
or empty when there was no descriptor left. `PathMeant` says that the path looked up is
the one the client means: `seperate_query` is a fold, of which the proof keeps that
before the first `?` the path is what was read, and after it nothing is written
to it (`PathIs`). `DuePage` says that the page of a `resp` that is due is the one
promised, and `LeftInv` that `generate_response` has then written all of it.
The theorem is about the requests the code answers as it should: `Servable` is
where a leaked descriptor, a directory, an unknown type or a NUL are excluded, so
that the empty page, which `Due` allows, is none of the answers promised.

The assumptions of the worker: URLs are made of characters and of escapes, a
`%` being the beginning of one (`TokenAssumption`); the buffers are long enough
for what is read (`SizeAssumption`, `HeaderAssumption`); `main` registers two handlers
(`RouteAssumption`); files are data with a type (`FileAssumption`); `'\0'` is
no letter, and a null pointer no string (`NulAssumption`, `WordAssumption`).

What `seperate_query` makes of the query is an induction over the decoded URL.
Its invariant (`Here`, from the `?` on) says that the parameters completed so far are sequences
of letters when read as C strings, that the buffer being filled holds letters
up to `j`, that `query_count` and `j` have not outrun the characters read, and that
`qeury_name` tells whether the last delimiter was an `=` (`Expects`). The last two
parts need each other and `WellFormed`: in a URL in which names and values alternate,
every parameter takes an `=` of its own, so `query_count` stays below half of what was read
(`HasRoom`), and no index leaves its array. `Parsed` sums the loop up without
buffers: a sequence of complete parameters and one being read, of which a `&` makes
a new one and any other character a longer one. Both theorems follow from that.
`QueriesMakeARoundTrip`: putting the two together again gives what
was read (`TogetherAgain`). `ParametersAreKept`: they are the stretches
between the cuts, the number of cuts so far counts them, and the index of a
parameter is the number of cuts before it (`Stretched`); `DelimiterTokens`
takes the decoded characters back to the tokens the client wrote, and `WellFormedAlike`
the condition on what is decoded to one on what was written, as long as no escape
stands for a delimiter. That a decoded URL
fits `url_t` at all is `DecodedLength`: no token becomes more than one
character, except the last escape, which stays as it is.

Only model-checked: all liveness (`AcceptedTasksRun`, `DestroyReturns` and the
server's), since the prover does not handle fairness. Every invariant and every
refinement that the passing runs check is a theorem.

## Not modelled

Request bodies, which the code ignores. Who frees a string, and when: a worker's
strings are values. Upper-case extensions and finding the extension in a name; what
`get_mime` overwrites when a type overruns `ext[10]`, but for the crash.
Requests that overrun the arrays of `url_t` and `http_request_t` (more than
`MAX_QUERY_COUNT` parameters, `MAX_HEADER_COUNT` headers, names longer than the
buffers): `SizeAssumption` excludes them. Functions without a caller: `s_read`,
`s_write` (empty), `remove_client_fd`, `free_queue`, `write_response`,
`send_close_resp`, `is_closed_conn`, `init_string`, `reset_string`,
`home_page_test`. `config.h` holds constants, `trie.c` is empty, `www/` is
assets, `llhttp` and `klib` are external. Timeouts are fields nobody reads.

## What would come next

The overruns that `SizeAssumption` excludes: with `url_t` and `http_request_t` as
memory in which the fields follow each other, what the eleventh parameter or a name
longer than its buffer overwrites. `HasRoom` gives the length up to which a
well-formed URL cannot reach that. And the files of `www/` as the handlers find
them, with names as well as data that change.
