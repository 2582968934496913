# A TLA+ model of MTProxy

This directory holds a TLA+ development of the MTProxy repository: modules that
model its components, TLC configurations that check them on small instances, and
proofs checked by TLAPS. It needs nothing but the repository, TLC, TLAPS and the
community modules.

    cd tla
    tlc -workers 2 -config NativeSafety.cfg MCNative    # one run
    tlapm HotReloadProofs.tla                           # proofs of one module

`PROJECT.json` lists the components, the runs with the properties each checks,
for every definition the source lines it stands for, the mutated definitions
that break each property, the findings, the hazards and the theorems. A mutated
definition stands just before the real one and has its name with a suffix
(`Close_Below` before `Close`).

## The system

MTProxy relays Telegram clients to Telegram's data centres (DCs). The repository
has two programs that do this: the original one in C (`c-original/`), and a port
to Go (`cmd/`, `internal/`). A *client* connects over TCP, sends a 64-byte header
keyed with one of the proxy's secrets, possibly inside what looks like TLS, and
then packets in one of three framings. The proxy wraps each packet as
`RPC_PROXY_REQ` with the `ext_conn_id` of the client and sends it over a shared,
encrypted RPC connection to a DC of the cluster the client asked for. The DC's
`RPC_PROXY_ANS` carries the same `ext_conn_id` back.

**The C program** is a family of processes (`--slaves`), each with an engine of
*jobs*. A job is a set of pending signals, each to be handled in a thread of its
class: main (epoll, listening, targets), io (sockets), connection (parsing),
engine (the proxy's own table). Without `--multithread` one thread is all of these.

    epoll ─> event heap ─> listening job / socket job ─> connection job ─> engine job
    (main)   (main)        (main)          (io)          (connection)      (engine)
             timers: heap per thread       raw messages in shared buffers
    target jobs (main) keep connections to the DCs of the configuration open

**The Go program** has a goroutine per client, one per RPC connection, and a
mutex around the pool of connections.

    client ──> IngressServer ──> handleConn ──> DataPlane.HandlePacket
                 (accept)        (goroutine      │ Router.Route   <── HotReloader (SIGHUP)
                                  per client)    ▼
                                          OutboundProxy.ForwardPacket
                                                 │ pool of rpcOutboundConn
                                                 ▼ writeEncryptedFrame / readLoop
                                                DC

## Modules: the C program

| part | source (`c-original/`) | module |
|---|---|---|
| jobs: signals, lock, queues, references | `jobs/jobs.c` | `AsyncJob`, proved: `JobProofs`, `CountingProofs` |
| lock-free queue | `common/mp-queue.c` | `MpQueue` |
| a job's timer between two threads | `jobs/jobs.c` | `JobTimers`, proved: `NativeProofs` |
| heap of timers | `net/net-timers.c` | `TimerHeap` |
| epoll round and heap of events | `net/net-events.c` | `EventLoop` |
| edge-triggered reading and writing | `net/net-connections.c`, `net/net-events.c` | `SocketIO` |
| accepting under the limit | `net/net-connections.c` | `Listening`, proved: `CountingProofs` |
| targets and their connections | `net/net-connections.c` | `Targets` |
| external connections, the engine | `mtproto/mtproto-proxy.c`, `net/net-thread.c` | `ExtConnections` |
| what a client speaks, domain fronting | `net/net-tcp-rpc-ext-server.c` | `ExtAccept` |
| repeated TLS hellos | same | `ClientRandoms` |
| TLS messages, key share, domain probe | same | `TlsHello`, `DomainProbe` |
| framing, padding, block cipher, TLS records | `net/net-tcp-connections.c`, `net/net-tcp-rpc-*.c` | `TcpStream` |
| RPC handshake | `net/net-tcp-rpc-client.c`, `-server.c`, `net/net-crypto-aes.c` | `RpcHandshake` |
| Diffie-Hellman | `net/net-crypto-dh.c` | `DhExchange` |
| raw messages | `net/net-msg.c` | `RawMsg` |
| message buffers | `net/net-msg-buffers.c` | `MsgBuffers`, `BufferTree` |
| processes and signals | `mtproto/mtproto-proxy.c`, `engine/` | `Workers`, proved: `NativeProofs` |
| statistics in shared memory | `mtproto/mtproto-proxy.c` | `WorkerStats`, proved: `NativeProofs` |
| configuration | `mtproto/mtproto-config.c`, `common/parse-config.c` | `NativeConfig`, `ConfigLexer` |
| HTTP statistics server | `net/net-http-server.c` | `HttpServer` |

How state and actions correspond to the code:

* **Shared memory.** In `AsyncJob`, `MpQueue`, `MsgBuffers` and `WorkerStats` an
  action is one atomic operation or one access to shared memory. A
  compare-and-swap in a loop is one action with the read it confirms.
* **Jobs.** In `Targets`, `SocketIO`, `Listening` and `ExtConnections` a signal is
  a flag of a job and a handler an action, or several where another thread can see
  it half done. `AsyncJob` is what justifies that: a sent signal is handled, by
  one thread at a time, and no job is used after its last reference.
* **Several threads or one.** Modules whose order of events depends on
  `--multithread` have a constant for it, and are checked for both.
* **Streams.** `TcpStream`, `HttpServer`, `ExtAccept` and `DomainProbe` read input
  that is cut anywhere. A unit of a stream is a fraction of a word and knows the
  packet it comes from; a block of a cipher is what it hides and the key and place
  it was written with, and anything else on reading it elsewhere.
* **Reference definitions.** `RawMsg` keeps, beside the chain of shared parts of
  each message, the bytes it should hold. `TlsHello`, `ConfigLexer`,
  `NativeConfig`, `HttpServer`, `TimerHeap`, `EventLoop` and `BufferTree` compare
  what the code computes with a definition written without it.
* **Numbers** keep the code's constants where they matter (positions in TLS
  messages, days of months, the inverse that finds a buffer) and are scaled down
  where only their order does (buffer sizes, fields, the prime).

## Modules: the Go program

| part | source | module |
|---|---|---|
| connection pool, request/answer exchange | `outbound.go`, `rpc_outbound.go` | `Outbound`, abstract: `Exchange`, proved: `OutboundClients`, `OutboundConns`, `OutboundProofs` |
| RPC frames over AES-CBC | `rpc_outbound.go`, `aes.go` | `CbcStream`, abstract: `FrameFifo` |
| accept loop, handlers, shutdown, exit | `ingress.go`, `client_ingress.go`, `lifecycle.go`, `runtime.go` | `Lifecycle`, proved: `PartsProofs` |
| client session, packet checks, counters | `client_ingress.go`, `dataplane.go`, `stats.go` | `Session`, proved: `PartsProofs` |
| client framings (reading) | `client_transport.go` | `ClientFraming` |
| configuration, reload, routing | `config.go`, `manager.go`, `load.go`, `router.go` | `HotReload`, proved: `HotReloadProofs` |
| worker supervisor | `supervisor.go` | `Supervisor`, proved: `PartsProofs` |

**Outbound.** One process per client goroutine (`pc`), per `readLoop` (`rpc`),
per `watchConn` (`watched`), and the goroutine that runs `OutboundProxy.Close`
(`cpc`). `p.mu` is a variable because `reconnect` keeps it across a dial; every
other lock region is one action. The select-then-close pairs of
`rpcOutboundConn.Close` and of `readLoop` are two actions each, as in the code.
A frame is its opcode, the `ext_conn_id` it names and a serial number. The peer
may reset a connection, send any number of answers, or never finish a handshake.
`Exchange` is what clients may rely on: a `ForwardPacket` ends once, with an
error that ends the client or with an answer sent for this client that was not
returned before. `Outbound!ImplementsExchange` is the refinement.

**CbcStream.** Words (4 bytes) are the unit; a block is four. A ciphertext word
remembers its plaintext and its place in the chain, and decrypts to garbage
anywhere else. `FrameFifo` is what a direction promises, and is refined.

**Lifecycle.** One process per client handler, the accept loop (main), the signal
goroutine. When main returns every goroutine stops, unless `Embedded`: then
another program has called `Runtime.Start`, as the tests of the repository do.

**Session, ClientFraming, HotReload, Supervisor.** `handleConn` against
the shared counters, one step per atomic update; offsets in a client's stream,
where a read in the wrong place sees any number; a file as a sequence of
directives that `ParseConfig` goes through; edits, SIGHUP (a channel of capacity
one), the two steps of a reload and round-robin choices; one monitor per slot.

## Runs

`MCOutbound` instantiates the pool. The other modules share no state with one
another, so `MCParts` (Go) and `MCNative`, `MCNativeData`, `MCNativeLive` (C) are
sums: the initial state chooses a part, and the behaviour is that part's. A module
with theorems is extended there, so that the property a run checks is the one the
theorem states. The other parts of `MCNative` and `MCNativeData` share variables
`x1`, `x2`, ...; those of `MCNativeLive` have their own. A property with several
sides is one conjunction in the part's module (`JobSafe`, `PoolSafe`, ...), each
conjunct named and explained.

* `OutboundSafety`: no live connection is lost, no finished request leaves a
  pending entry and the one-slot response channel never drops an answer
  (`PoolSafe`); an answer reaches the client it names, once (`AnswersItsClient`);
  the pool refines `Exchange`; `IInv` is the invariant of the proofs.
  `OutboundLive`: every `ForwardPacket` and `Close` return and closed connections
  leave the pool.
* `PartsSafety`: forceClose can reach every open client and a drain that ends early
  ends quiet; a slot of the supervisor has one process and none is left; the
  encrypted stream implements `FrameFifo`; the router never goes back to an older
  file and routes as the file says; packets are read as framed; sessions are apart
  and every packet is counted once. `PartsLive`: signals end the process, dead
  workers come back, frames and packets arrive, a signalled file is served.
* `NativeSafety`: the concurrent parts of the C program. Jobs are handled by one
  thread and never used when freed; the queue loses and repeats nothing and no
  thread follows a freed block; timers are neither forgotten nor leaked between
  threads; edge-triggered sockets leave nothing unread or unwritten; no listening
  socket stays deaf below the limit; targets know their connections and free only
  closed ones; external connections lead to live DC connections, give a client
  only its own answers, tell the DC of every one given up, and count each key and
  client once; clients passed on reach the web server from their first byte;
  shared statistics are never torn; no worker is left behind.
* `NativeData`: data structures, codecs and protocols against reference
  definitions. Messages that share buffers hold what they should with exact
  reference counts; streams are put together again however TCP cuts them; no
  TLS hello is accepted twice; the hello and its key share are as its readers
  demand; the two ends of the handshake switch keys and checksums together; the
  configuration that was checked is the one accepted; requests are answered as
  their lines say, whatever the blocks.
* `NativeLive`: what must happen does. Signals are handled, unreferenced jobs
  destroyed, failed connections and unused targets freed, waiting clients
  accepted, data read and written, every client served, passed on or closed,
  timers go off, a family of processes ends together, handshake and probe end.

Runs that end in a violation state what a comment of the repository says and show
how the code departs from it:

| run | what is said | what happens |
|---|---|---|
| `OutboundPanic` | Close is graceful | Close and readLoop close one channel twice |
| `OutboundSilent` | Close shuts down all connections | blocked by a silent handshake |
| `LifecycleExit` | drain waits for connections | main returns as soon as the context is cancelled |
| `SupervisorSignal` | signals go to all children | a worker being restarted is missed |
| `FramingPadded` | trailing pad allowed | the pad is read as the next length |

Met while modelling, with no promise in the repository to hold it against: the Go
pool is closed before the drain and reopened by requests of the drain; nobody
asks the Go rate limiter; the abridged reader takes the quick-ack bit for length;
`--force-dh` of the C program sets a variable nothing reads.
`max_special_connections` is passed for a moment, by up to
`(2 + threads) * sockets - 1` connections, because sockets are put back on a
signal that may be old (`LimitNearlyKept`, reached exactly in the part `limit`).
The limit on message chunks is looked at without its lock and passed by at most
one per other thread (`ChunksNearlyBounded`).

### Bounds

* `Outbound`: two clients, two connections, two addresses. `Small`: one client
  sends two packets to any address, so that a late answer meets a later request,
  or two clients send one each to the same. Every race listed is between one
  connection, its replacement and two goroutines. `OneAnswered` (liveness): one
  client is answered, the other left to its timer.
* `MCParts`: three worker slots let a signal pass before, at and after a slot
  that restarts; frames of 1..4 words give every padding of a block; all files
  of up to three directives; packets on both sides of every test.
* Threads and processes: two interchangeable ones (`Twins`) and a third at the
  other end, so that one is overtaken while two others meet; three connections on
  two descriptors (`ext`), so that a descriptor is used again while work of its
  former connection is queued; two keys (`packets`). `ShortQueues`: three jobs and
  events on their way.
* `MpQueue`: blocks of two places, so that blocks fill up, are closed, replaced
  and freed. `MaxTime`, `MaxSets`, `MaxQ` of timers: a timer is set, moved and
  removed before the first request is taken. `Listening`: three clients at two
  sockets, and eight at one with two closing threads, as many as the bound on the
  overrun needs.
* Data: three messages, four operations, buffers of two and four bytes, so that
  messages share parts, extend them in place and copy them; five buffers in a tree
  of eight leaves; five timers in the heap, five descriptors; two packets in every
  transport; domain lengths around the longest that fits and messages that end
  around every field; a field of 29 elements and a prime of 23, with the
  properties of the real ones that the code relies on; files of four directives
  with limits on both sides; texts of two directives with every blank; requests of
  two headers with blocks of one, three and forty units; days around the ends of
  months and leap years.
* Counters that only bound a behaviour (`MaxSends`, `MaxUses`, `MaxUpdates`,
  `MaxSignals`, `MaxEagain`, `MaxShort`, `MaxArrivals`) are constants tested in
  guards. Symmetry: `Twins`, messages of `RawMsg`, clients and connections of the
  Go modules; none in the runs with liveness.
* `CHECK_DEADLOCK FALSE` in all runs: parts end when their work is done or their
  bounds are used up, and programs exit.

### Fairness

*Go.* A goroutine that can run does run (weak fairness). `sync.Mutex` in its
starvation mode hands the lock to the longest waiter, so whoever finds `p.mu` free
again and again gets it (strong fairness on the steps that take it). Timers fire.
Nothing bounds how long a DC may take over the handshake or over draining a write:
that is `PeerFairness`, assumed by `OutboundLive` and not by `OutboundSilent`.

*C.* The threads of a class never stop taking jobs from their queue, and the main
loop never stops, so each thread's steps are weakly fair, as are the alarms of
timers that are set; `MCNativeLive` writes the fairness of a part before its
property. Peers owe nothing: clients and data centres may stay silent, forks may
fail, no signal need come. Assumed of the environment are only that the kernel
drains a send buffer (`Written`), that accepted clients leave some day
(`ClientsAccepted`), that signals sent to a process are delivered and that time
passes.

## Proofs

For every value of the constants, under the named assumptions of the modules
(bounds are naturals, null values are not real ones, sets of threads and workers
are finite). A proof module extends the component it is about; the invariants
were checked by TLC before they were proved.

**The pool** (`OutboundClients`, `OutboundConns`, `OutboundProofs`): `PoolKept`,
`AnswersRouted` and the refinement `RefinesExchange`. `IInv` adds to the
properties what the code relies on: `LockInv` (the holder of `p.mu` is the client
that dials), `ClientInv` (a client past the lookup holds a connection that
exists), `PoolInv` (an entry of the pool has that address, and what is not dialled
yet is untouched), `SlotInv` (the slot of a request is in one place: pending, in
the reader's hand, or filled) and `FrameInv` (a frame was sent for the client it names, is not among its
answers, and is in one place only). The refinement maps a client's program counter
to idle, busy or gone; every action but `Submit`, `DCSend`, `Receive` and the
failing ends is a stutter.

**Jobs** (`JobProofs`, `CountingProofs!JobsKept`). `JobInv` says where every
reference is. `Counted`: while nobody is the last owner, the counter is the number
of threads that have a reference, plus the entries of all queues, plus the
references held elsewhere; a thread that has found itself to be the last owner is
alone. `Finishing`: JS_FINISH is pending, being sent or being handled only when
the counter is 1, so no second thread can find the job. `Locking`: the flag is set
exactly while one thread is in `unlock_job` or in the handler. `Finishing` is what
makes it inductive: handling JS_FINISH frees the job whoever else has a reference.
`MarkBacked` (a class marked as queued has an entry, or somebody who will push it)
is one of the properties and needs the others. The lemmas take the laws of cardinality as a hypothesis
(`CountingLaws`), which `CountingProofs` discharges with the library's theorems;
with the library in sight of every step the provers are several times slower.

**Listening** (`CountingProofs!ListeningKept`), for any finite number of listening
sockets (at least one) and closing threads, any limit and any number of clients
(`Setting`). The bound is not inductive: what is counted in `Spent` makes it so. A
socket out of epoll, a listening job without `JS_AUX` and a thread with no signal
left for a job are each good for one connection at or above the limit: accepting
it takes the socket out of epoll, and putting the socket back uses a signal up.
New signals come only from a close at the limit, after which the count is below
it.

**Timers** (`NativeProofs!TimersKept`), for any times, any length of the queue and
both arrangements of threads. `TInv` adds `Overtaken`: if the time the heap's
thread has read is no longer the one the job wants, then another request is being
pushed or queued.

**Shared statistics** (`NativeProofs!StatsKept`), for any number of updates.
`Written` says what both copies hold at each store of the worker's update, and
`ReadSoFar` what the reader has so far: as long as the copy's counter is the one
it read first, its values are those of that update.

**Processes** (`NativeProofs!WorkersKept`), for any number of workers and signals.
`FamilyInv` adds that a parent that lives has the pid of every worker that lives,
and of none that is gone for good.

**Supervisor, shutdown, sessions** (`PartsProofs`): `NoneLeft` and `NoneOrphaned`
from `SupInv` (where the monitor of a slot is decides what its process is, and
Wait has seen every monitor end); `OpenReachable` and `DrainQuiet` from `LifeInv`
(what is registered is in service, and the other way round); `SessionsKept` and
`CountersKept` from `SessionInv` (an id is drawn before the first packet, ids do
not pass the counter, and a packet is checked before it is sent). The last one
counts the packets read, as a set of pairs of client and number, against the two
counters and the packets in hand.

**Reload** (`HotReloadProofs`): `NeverBack` and `RoutesKept`, for files of any
length. What the loop of `ParseConfig` computes is proved by induction on the
line: after line `n` the clusters hold the hosts of the `proxy_for` lines up to
`n`, and the default is that of the last `default` line (`Good`). The induction
is over a set of numbers (`Least`, `UpTo`, from the library's well-foundedness of
`<`) and takes no predicate as a parameter. `RotInv` says what the choices since
the last reload add up to, from which round robin is even.

Only model-checked:

* all liveness (the prover handles neither fairness nor ENABLED);
* the lock-free queue, targets, external connections, client detection, sockets
  and Diffie-Hellman (`NativeSafety`), the message buffers, and the encrypted
  stream's refinement of `FrameFifo`: their inductive invariants are not written;
* what the data structures and codecs of `NativeData` compute: their definitions
  are recursive operators or folds, of which the provers know nothing.

## Not modelled

* C: MD5, SHA, CRC and AES themselves (pure functions on bytes with tables; where
  they matter they are records of their inputs); `kprintf`, options, printing of
  statistics, the resolver, CPU detection, opening and setting of sockets; TL
  serialisation and the RPC machinery of the engine, which the proxy links and
  does not use; message queues and children of jobs, likewise unused;
  `put_event_into_heap`'s path for an event that is queued already, which
  `BatchHandled` shows is never taken.
* Go: the obfuscated2 header and the RPC key exchange (of which the pool sees
  success, failure or silence), the AES-CTR layer of clients, which maps bytes in
  place; the HTTP page, command line and log writer; the rate limiter and the
  protocol helpers the program never calls.
* Hazards without a property are in `PROJECT.json` with the reason.
