# A verification of the DS2020 labs

The repository holds three labs of a distributed systems course and a vendored
copy of DPDK they are built with:

- `rdt/` (lab 1): a reliable transport protocol over a simulated lossy,
  corrupting, reordering link;
- `lab2/udp`: a DPDK program that builds and sends UDP packets;
- `lab3`: a traffic meter (srTCM) and a packet dropper (RED) over DPDK.

The protocol of `rdt/` is the core of the labs' own code: it is modelled,
model-checked and proved about here. So are lab 3 with the two libraries of DPDK
it calls, the meter and random early detection, and the packet buffers of lab 2
with the memory pool and the lockless ring under them. Lab 2 itself is modelled
and model-checked. The timer library is the one further part
of DPDK that is modelled, checked and proved about, for its protocol between
lcores.

## The system and its parts

### `rdt/`

One thread runs an event loop (`rdt_sim.cc`, `main`) that takes events off a
chain ordered by time and calls one handler for each. Handlers call back into
the simulator to send packets, start and stop the timer and deliver messages.

| Part | State | Operations | Hard because |
|---|---|---|---|
| sender, `rdt_sender.cc` | `buffer` (ring of messages) with `next_message_seq`, `msg_buffer_num`, `cur_message_seq`, `cursor_sender`; `windows` (ring of packets) with `pkt_seq`, `next_packet_to_send`, `ack_expected`, `pkt_window_num` | `Sender_FromUpperLayer`, `Sender_FromLowerLayer`, `Sender_Timeout`, and the loops they share, `Sender_ConstructPKT` and `Sender_SendPKT` | two rings indexed by running numbers; acknowledgements late, repeated, out of order; a single timer for the whole window; messages that arrive while the timer runs are only buffered |
| receiver, `rdt_receiver.cc` | `expected`, `window` with `valid_checks`, `cur_msg` with `cursor` | `Receiver_FromLowerLayer` | old packets come again after their slot has been reused; messages are put together from packets of two formats |
| simulator, `rdt_sim.cc` | event chain and clock, `sender_timer`, the generator's and the verifier's `cnt`, character counts, verdict flag | event loop, `schedule`, `cancel`, `next_event`, the links, the timer, `generate_msg`, `Receiver_ToUpperLayer` | loss, corruption and reordering at every packet; ties in time; a timer cancelled and restarted inside handlers |
| packet format, `rdt_struct.h` | - | - | a size header at the start of each message |
| checksum, `rdt_check.cc` | - | `RDT_AddChecksum`, `RDT_VerifyChecksum` | a wrong entry of the table would be wrong on both sides; the network changes all bytes, the checksum's too |

What makes them correct: messages come out in order, once, unchanged
(`DeliveredPrefix`, `ChannelSpec`); no packet is overwritten while it may have
to be sent again (`WindowIntact`); acknowledgements never run ahead of the
receiver (`AckSound`); the timer runs whenever something is outstanding
(`TimerCovers`); buffers are not overrun (`InBounds`); loops end
(`ConstructProgress`) and sessions end (`Termination`) with success
(`Verdict`); the checksum is the polynomial's (`CrcOfPolynomial`) and tells what
it is chosen to tell (`ChangeDetected`).

### `lab2/udp`, `lab3`

| Part | State | Operations | Hard because |
|---|---|---|---|
| UDP sender, `lab2/udp/main.c` | one mbuf | `construct_pkt` with `initialize_ipv4_header`, `send_pkt` | who owns the buffer once the driver has it; a checksum in one's complement |
| meter and dropper, `lab3/qos.c`, `lab3/main.c` | a meter and a start time per flow, RED data per flow and colour, one queue length per flow, `last_time` | `qos_meter_init`, `qos_meter_run`, `qos_dropper_init`, `qos_dropper_run`, the loop of `main` | averages outlive the bursts they were made in while queue lengths are cleared; fixed-point numbers; two clocks |

What makes them correct: the driver alone frees what it was given
(`DriverFrees`); a receiver accepts the header (`HeaderVerifies`); the bytes of
a colour stay within the configured bursts and rates, and no less is let
through (`RateLimited`, `DegradedForCause`); averages follow the
queues (`AverageBounded`), no packet is dropped below its threshold
(`DroppedForCause`) and no flow is shut out by what an earlier burst left behind
(`EveryFlowServed`).

### The parts of DPDK below them

| Part | State | Operations | Hard because |
|---|---|---|---|
| ring, `librte_ring` | `prod` and `cons`, each with head and tail, the table, the watermark | bulk and burst enqueue and dequeue, single and multiple; `rte_ring_set_water_mark` | no lock: two indexes are read one after the other and one is moved by a compare and set; tables are copied side by side and published in order; indexes wrap |
| memory pool, `librte_mempool` | the store (a ring or a stack), a cache per lcore | `__mempool_generic_get`, `__mempool_generic_put`, `rte_mempool_cache_flush` | a failed enqueue is not noticed; caches spill and are filled behind the back of the caller |
| packet buffers, `librte_mbuf` | reference counts, chains of segments, indirect segments | alloc, free, attach, detach, clone, chain, `rte_pktmbuf_refcnt_update` | a count that reads as 1 is stored without an atomic operation |
| meter, `librte_meter` | two token buckets, the time they were filled | configuration and check of srTCM and trTCM | periods are rounded; times wrap |
| random early detection, `librte_sched/rte_red` | average, count, time the queue became empty | `rte_red_config_init`, `rte_red_enqueue` | fixed-point numbers with table look-ups |
| timers, `librte_timer` | a status word per timer, a list with a lock and a cached expiry per lcore | reset, stop, their `_sync` forms, `rte_timer_manage` | a timer is passed between lcores by its status alone, also from inside callbacks |

What makes them correct: the ring is a bounded first-in first-out queue
(`FifoSpec`), its indexes keep their order (`IndexOrder`), no entry is used by
two lcores (`SlotsExclusive`), nobody spins for an lcore that is gone
(`TailReserved`), full and empty are not made up (`HonestFailure`); every
object of a pool is in one place (`OnePlace`), caches are not overrun
(`CacheFits`) and a get fails only for want of objects (`FailsOnlyWhenUsed`);
reference counts are exact (`RefcntExact`), which needs that a count stored
without an atomic operation is nobody else's (`UniqHolder`, which the code
violates, and `StoreSafe`, what is left of it), buffers are freed exactly once
(`FreedOnce`); a timer is linked and run once (`LinkedOnce`,
`RunningOwned`), in order (`ListOrdered`), not before its time (`NeverEarly`),
not after it is stopped (`StoppedUnreferenced`) and not lost while it is pending
(`PendingLinked`, which the code violates, and `PendingKept`, how little it does).

## Modules

    RdtStruct          messages, packets, checksum verdict
      RdtServices      links, timer, generator, verifier      (rdt_sim.cc)
        RdtSender      rdt_sender.cc
        RdtReceiver    rdt_receiver.cc
          Rdt          the event loop over both; the safety properties
            RdtInv     the inductive invariant
              RdtProofs     it is inductive, and what follows from it
              MCRdt         for TLC
            RdtTimed   the event chain and the simulated clock; liveness
              RdtTimedProofs  its theorems
              MCRdtTimed    for TLC
    ReliableChannel    what the transport promises; Rdt refines it
    RdtCheck           rdt_check.cc on the bytes of a packet
    UdpPacket          lab 2: the headers of construct_pkt
      MCChecksums      both for TLC

    Mbuf               librte_mbuf                    MCMbuf for TLC
      MbufProofs       its theorems
      UdpSend          lab 2: send_pkt and the driver over Mbuf

    RteMeter           librte_meter, as operators
      Metering         one flow through a meter
        MeteringProofs its theorems
    RteRed             rte_red, as operators
      Qos              lab 3, over RteMeter and RteRed
        QosProofs      its theorems
        MCLab3         Metering and Qos for TLC

    RteRing            librte_ring                    MCRteRing for TLC
      RteRingProofs    its theorems
    RingFifo           what the ring promises; RteRing refines it
    Mempool            librte_mempool                 MCMempool for TLC
      MempoolProofs    its theorems
    RteTimer           librte_timer                   MCRteTimer for TLC
      RteTimerProofs   its theorems

Variables and operators keep the names of the code. Two kinds of variables of
`Rdt` are not in the code: `ctl` and the locals `ack` and `rpkt` say where the single
thread is inside a handler; `sent`, `starts`, `delivered` and `made` are
histories that only properties read.

**Steps.** The simulator calls one handler at a time, so a handler could be one
action. The loops (`Sender_ConstructPKT`, `Sender_SendPKT`, the loop of
`Receiver_FromLowerLayer`) take one step per iteration instead, and `ctl`
forces them to run to the end before any other event: the order in which they
happen, and with it every reachable state of the event loop, is that of the
code. This keeps each action close to the text of one iteration, and lets TLC
see a loop that would never end as a deadlock: `Sender_ConstructPKT` has no
branch for `Rest <= 0`.

**Messages and packets.** A message is a size and a function from positions to
bytes; `generate_msg` writes running digits, and the model does too, so a byte
out of place is visible. A buffered message has its size in the first
`SizeofInt` cells. A packet is a record; the payload is a function. A corrupted
packet is `Garbage`, the value on which `RDT_VerifyChecksum` is false: that
corruption is detected is an assumption of the protocol modules. A random change
of a whole packet verifies with a chance of 2^-32, and such changes exist:
`MCChecksums` has one. A corruption that changes no byte is included (the packet
arrives).

**Links.** In `Rdt` a link is a bag from which any packet may arrive next, and
the timer may expire at any time: every order that any latencies could produce.
`Transmit` loses, corrupts or passes on each packet. In `RdtTimed` the chain
decides: its events carry the time that remains until they happen, `schedule`
inserts after all events of the same time (as the code's `<=` does), `cancel`
removes the timer event, `next_event` advances the clock. `args` are the
arguments of `main`: which rates are above zero and how far messages are
apart. Every step of `RdtTimed` is a step of `Rdt` (`TimedRefinement`), so the
safety properties carry over.

**Integers.** Sequence numbers are unbounded; the code's are `int` and would
overflow after 2^31 packets. The payload size is stored in one `char`, at most
119: no overflow.

**Backlog.** `UpperLayerEvent` is taken only while fewer than `MaxBacklog`
messages are unprocessed. This is an assumption about the load, not about the
code: the code has no such test. See *Findings*.

| Code | Model |
|---|---|
| cases of the switch in `main` | `UpperLayerEvent`, `AckEvent`, `TimeoutEvent`, `DataEvent` |
| `Sender_ConstructPKT`, `Sender_SendPKT` | the same names, an iteration or the exit; `SendReturn` is the rest of the handler that called them |
| `Receiver_FromLowerLayer` up to line 103 | the same name, with `StoreAhead` and `AckOutOfWindow` |
| its loop | `Receiver_Consume` |
| `next_event` returns NULL, finalisation, verdict | `Finish` |

### The other modules

**RdtCheck.** A 32-bit word is a pair of 16-bit halves, so that every number
stays within TLC's integers. A behaviour makes a packet, gives it its checksum,
adds something to every byte of it, the checksum's four included, as the simulator
does, and asks `RDT_VerifyChecksum`.

**UdpPacket, UdpSend.** The headers are sequences of the 16-bit words the code
sums up, for a little-endian host. `UdpSend` runs `send_pkt` over `Mbuf`; the
driver behind `rte_eth_tx_burst` does what `rte_ethdev.h` says of all of them: it
takes the packet or not, and frees it once it is sent.

**RteMeter, Metering.** The two `rte_meter_*_check` functions are operators from
a meter and a packet to a meter and a colour; blind mode is the aware mode with
green packets, whose code is the same. `Metering` is `qos_meter_run` for one
flow. Its histories are the log of its packets and `sent`, the bytes given each
colour so far; an entry of the log keeps `sent` as it was before the packet, so
that the bytes of a stretch of packets are a difference. `qos_meter_init` reads
the clock before the meter does (`MeterLeads`), so that the first packet may be older
than the meter; in the run the clock starts just below its overflow. Times are
kept without overflow and reduced modulo `Word` (2^64) where the code computes
with them. `Fits` is what is assumed of them: a flow is not silent for a whole
turn of the clock, and a bucket with the tokens of a whole turn is still below
2^64. The second is so when the rate is below one byte per cycle; the lab's
160 MB/s with a clock of some GHz is well within.

**RteRed, Qos.** `Packet` is one iteration of the inner loop of `main`: the
meter, the dropper and the counting. `NextBurst` moves the time. The random
numbers are drawn from a set. The two tables of `rte_red.c` are written out, and
so are the powers of 2 it shifts by. Averages and counts wrap at `RedWord` (2^32).
The undefined shift of `__rte_red_calc_qempty_factor` for an exponent of zero is
taken as what a shift instruction of the target does.

**RteRing.** Every access to a shared index is a step of its own, and so is
each pointer copied. Indexes are kept as the numbers they would be without
overflow, and every comparison and difference takes them modulo `Word` (2^32):
what the code sees, while properties can speak of order. An lcore is not held
up between its two reads for so long that an index comes round (`InStep`): the
code cannot exclude it, the documentation does when it calls the ring "not
preemptable". Memory is sequentially consistent; the code has its compiler
barriers and a strongly ordered target for that. A ring that was created single
producer or single consumer is used by calls that do not overlap, which is the
contract. The ring has been in use before the behaviour starts: `Used` objects
have gone through, `Filled` are in it.

**Mempool.** A call is cut where it reaches the store. In the ring an enqueue
first reserves and later publishes, a dequeue keeps its entries occupied until
it returns; the stack has a lock and takes one step. Kind of store and size of
the caches are chosen when the pool is created. The ring is the smallest power of
2 that holds the pool, which is below 2^27 objects: what `RTE_RING_SZ_MASK` lets
`rte_ring_create` accept.

**Mbuf.** `rte_mbuf_refcnt_update` is two steps, the read and the store or the
atomic addition. Every loop over segments (free, clone,
`rte_pktmbuf_refcnt_update`) takes steps per segment. `refs` is how many
references each thread has to a packet. Threads keep the contract of the
library: a packet is chained only by its sole holder, which `rte_pktmbuf_chain`
does not test. The segments of a packet are
what its `next` pointers lead to, defined as the smallest set that has the head and
is closed under `next`: a cycle is then not excluded by the definition. The
references to a buffer are those of the threads that hold a packet it is part of
(`Held`), those of calls in progress (`Working`) and those of the indirect buffers
attached to it (`Attached`).

**RteTimer.** A step is a write of a status word or a critical section under a
list's lock. The levels of the skip list are left out: a list is its lowest
level. Callbacks may reset and stop any timer.

| Code | Model |
|---|---|
| `construct_pkt`, `rte_eth_tx_burst`, `rte_pktmbuf_free` in `send_pkt` | `construct_pkt`, `rte_eth_tx_burst`, `FreeSent`; `TxDone` is the driver |
| `qos_meter_run`, `qos_dropper_run` | `Metering!MeterPacket`, `Qos!Packet` |
| `__rte_ring_mp_do_enqueue` and the `sp` form | `Enqueue`, `ReadProdHead`, `ReadConsTail`, `MoveProdHead`, `WriteEntry`, `PublishProd` |
| `__rte_ring_mc_do_dequeue` and the `sc` form | `Dequeue`, `ReadConsHead`, `ReadProdTail`, `MoveConsHead`, `ReadEntry`, `PublishCons` |
| `__mempool_generic_put` | `Put`, `Spill`, `Enqueue`, `Publish` |
| `__mempool_generic_get` | `Get`, `Backfill`, `Fill`, `Direct`, `Return` |
| `rte_pktmbuf_free`, `_detach`, `_clone`, `_attach` | `Free`, `FreeRead`, `FreeDrop`, `DetachRead`, `DetachDrop`, `Clone`, `AttachRead`, `AttachJoin`, `CloneNext`, `CloneDone`, `CloneFails` |
| `rte_timer_reset`, `rte_timer_stop` | `Begin`, `SetConfig`, `Delete`, `Add`, `Done` |
| `rte_timer_manage` | `Manage`, `ManageCheck`, `ManageCut`, `MarkRunning`, `ManageUnlock`, `Callback`, `CallbackEnd`, `ManageEnd` |

## Runs

| Run | Bounds | Shows |
|---|---|---|
| `rdt_safety` | 3 messages of 1 or 3 bytes (1 or 2 packets), windows and buffer of 2, 2 packets per link | the safety invariants, `IndInv`, and the refinement of `ReliableChannel` |
| `rdt_timed` | 2 messages of 1 or 2 bytes, clock, three command lines: no faults and arrivals 0 to 3 ticks apart; loss and reordering; corruption | `ChainAgrees`, `NoSpuriousTimeout`, `Termination` |
| `rdt_overflow` | a backlog of one more than the buffer | `BufferRetainsUnprocessed` is violated |
| `checksums` | all packets of one byte and one of six, -10, 0, 1 or 9 added to each byte; the lab's addresses, 0 to 2006 bytes of data | `ChangeDetected`, `CrcOfPolynomial`; `HeaderVerifies` |
| `udp_send` | one packet, two buffers | `DriverFrees` is violated |
| `lab3` | 8 configurations, srTCM and trTCM, 4 packets in all colours; 2 flows, 2 bursts of up to 5 packets, clock readings of 1 and 2^16 | `RateLimited`, `DegradedForCause`; `AverageBounded`, `EveryFlowServed`, `DroppedForCause` |
| `ring` | 2 producers, 2 consumers, 4 entries with 2 filled, tables of 1 and 2, indexes that wrap at 8, all flags | the ring's invariants and the refinement of `RingFifo` |
| `mempool` | 2 lcores with caches of 1 or 2, a thread without, 5 objects, calls of up to 3, ring and stack | `OnePlace`, `CacheFits`, `FailsOnlyWhenUsed` |
| `mbuf` | 2 threads, 4 buffers, chains of up to 2 and clones of clones, 5 references held at a time, until an update is lost | `RefcntExact`, `StoreSafe`, `FreedOnce`, `SegsCounted` |
| `mbuf_uniq` | as `mbuf` | `UniqHolder` is violated |
| `timer` | 2 lcores, 2 timers, 3 calls of all kinds, 3 ticks | the timers' invariants and `PendingKept` |
| `timer_lost` | as `timer` | `PendingLinked` is violated |

`SizeofInt` is 1 and `MAX_PAYLOAD_SIZE` 2, the smallest with room for a header
and data: a message then has a first packet with the header, full packets and a
last one. Windows of 2 slots with up to six packets make slots of both rings
come round again, which is where reuse goes wrong, and two packets in
flight in each direction suffice for loss, duplicates (a retransmission beside
the first copy) and overtaking; a packet sent on a full link is lost, which the
link may do anyway. The theorems remove these bounds.

In `rdt_timed` one tick is 0.1 s: `pkt_latency` is 1, `TIMEOUT` 3, an
out-of-order packet takes 0 to 2 ticks. There the links need no bound, the
clock drains them (`LinkCap` is above what is ever in flight).

The other bounds: two lcores on each side are what a race needs, and three
objects more than a ring takes make it fill up; `Used` puts its indexes just
below their overflow, so that a turn of the table and one of the index both
happen; tables of two make a partial burst and a bulk that does not fit. Four
buffers are a chain of two and its clone, or a packet, its clone and two clones of
that; a clone may fail at any segment but the first. Five objects are more than the two caches keep
together and fewer than all threads may ask for. Two timers are enough for a
list to have an order and for one to expire with, before or after the other. A
meter of 10 Hz with rates of 2 to 7 has periods of one and of several bytes;
three gaps are below, at and above a period. The numbers added to a byte are the
ends of the simulator's range, one that turns over single bits, and none; the
packet of six bytes is one that they can change so that it still verifies. What
follows a lost update of a count is not explored: the counts are wrong for good.
The two halves of `checksums`, and of `lab3`, share no variable, and a behaviour
runs one of them. The runs of `checksums`, `lab3` and `timer` end when their bound
on packets, calls or time is reached, and do not check for deadlock; `rdt_safety`,
`rdt_timed`, `ring`, `mempool` and `mbuf` do.

**Fairness** is assumed in `rdt_timed` only. `WF(TimedNext)`: the program keeps
running. `SF` of an intact hand-over for each slot of the sender's window, and of an intact
acknowledgement: the rates are below one and each packet draws its own random
number, so one that is tried for ever gets through. Nothing is assumed about
which packet arrives first or when the timer expires; the clock decides that.

Each property of a passing run has a mutant, a plausible error in the code
(`MorePacketsOverfull`, `Receiver_ConsumeKeepsValid`, ...) that violates it;
they stand before the definitions they change.

## Findings

- `rdt_overflow`. `Sender_FromUpperLayer` (`rdt_sender.cc:155`) frees and
  overwrites a slot of the message ring without a test. `rdt/README.md:39` says
  the buffer is there "in order to retain the unprocessed messages"; with one
  message more than it has slots, it does not. The cursor of a half-sent message
  is then applied to another message, whose size it may already have passed: with
  the bounds of this run TLC also finds `ConstructProgress` (a loop that never
  ends), `DeliveredPrefix` and `Verdict` violated.
- `mbuf_uniq`. `rte_mbuf_refcnt_update` (`rte_mbuf.h:670`) stores the new count
  without an atomic operation when it has read 1, "in the case where we know we are
  the uniq holder of this mbuf" (`:665`). `rte_pktmbuf_attach` calls it for the
  direct buffer under an indirect segment, of which the caller is no holder: two
  threads that share a packet with an indirect segment and both clone it both read
  1 and both store 2. One reference is lost, and the buffer goes to the pool while
  a clone still uses it. `StoreSafe` shows, and `StoreIsSafe` proves, that no other
  use of the function loses an update.
- `timer_lost`. `__rte_timer_reset` links a timer (`rte_timer.c:413`) before it
  writes its status (`:420`). If the timer is for another lcore and expires in
  between, `rte_timer_manage` there takes it off the list, finds it in CONFIG and
  drops it (`:571`); the reset succeeds, and the timer says PENDING in no list and
  never runs, where `rte_timer.h:301` says that a pending timer "is one that has
  been scheduled and whose function has not yet been called". `PendingKept` shows,
  and `PendingStaysLinked` proves, that this is the only way to lose one.
- `udp_send`. `send_pkt` (`lab2/udp/main.c:233`) frees the packet whatever
  `rte_eth_tx_burst` returned. `rte_ethdev.h:2758` makes that the duty of the
  driver: a packet it has taken goes back to the pool before it is sent, and is
  freed twice.

Met on the way, and not stated as runs of their own:

- `Sender_FromUpperLayer` (`rdt_sender.cc:167`) constructs nothing while the timer
  is set, although `rdt/README.md:40` says that packets are constructed once a
  message comes. `TimerCovers` and `Termination` show that the message is sent
  all the same.
- `dgram_len` (`lab2/udp/main.c:202`) is stored in host order; and the header
  checksum is folded only once (`:168`), so that a second carry is lost for other
  addresses than the lab's.
- `qos_dropper_run` never calls `rte_red_mark_queue_empty`: the idle time of a
  queue counts from a clock reading of 0, and the average drops to zero at the
  start of a burst where `qos_framework.rst:1313` wants it to decay gradually.
- `free_entries` of the ring may be larger than the ring, against the comment at
  `rte_ring.h:462`, when its two reads are far apart; the compare and set then
  fails, and `IndexOrder` holds.

## Proofs

`RdtProofs!Invariance`: for all values of the constants that satisfy the
assumptions (windows, buffer, payload and `LinkCap` at least 1, a payload longer
than the size header, messages of at least one byte, as `generate_msg` makes
them) and `MaxBacklog <= MAX_BUFFER_SIZE`, `Spec => []IndInv`. From it
follow every other safety invariant of `rdt_safety` and
`Refinement`, `Spec => ChannelSpec`.

None of the properties is inductive. That the receiver delivers the right
message depends on the packets it consumed, those on what was in flight and in
its window, those on the sender's window at the time, and that on the messages
the ring retained. `IndInv` describes all of them by positions in one stream:
`made` is the sequence of packets made so far, each with the message and the
offset it was cut from, and `StreamInv` says that each packet starts where the
one before it stopped. Then

- `BufferInv`: the ring holds the messages from `cur_message_seq` on (this needs
  the bound on the backlog, and that numbers less than n apart differ modulo n);
- `WindowInv`: `windows` holds packets `ack_expected .. pkt_seq - 1` of the stream;
- `LinkInv`: an intact packet in flight is one of the stream, an intact
  acknowledgement is of a packet before `expected`;
- `ReceiverInv`: a valid slot holds the packet of the stream whose number is in
  `expected + 1 .. expected + WINDOWS_SIZE - 1` and belongs there; the number of
  messages delivered and `cursor` are the message and the offset of packet
  `expected`;
- `TimerInv`: what the timer must do at each `ctl`, with the local `ack` that
  decides whether `Sender_StopTimer` is called;
- `SourceInv`, `SinkInv`: both sides count digits alike, so the verifier passes.

The proof has a lemma per step of the event loop (`UpperLayerStep`, `AckStep`,
`TimeoutStep`, `DataStep`, `ConstructStep`, `ConstructExitStep`, `SendStep`,
`ConsumeStep`, `FinishStep`), each with a step per part it can disturb. The
window sizes of sender and receiver need not agree. `Refinement` takes
`UpperLayerEvent` to `Send`, the packet that completes a message to `Deliver`
and every other step to a stutter.

**The simulated clock** (`RdtTimedProofs`). `TimedRefinement` says that the event
chain only chooses among the steps of `Rdt`, so that the theorems about `Rdt` hold
under the clock, `TimedChannel` among them. `ChainKept` proves `ChainAgrees` for all
latencies, timeouts and command lines and needs no other part of the protocol.
Its invariant counts: for each type and packet the number of events in the chain is
the number of copies in the link, or for a timeout 1 or 0 (`Agrees`). `schedule`,
`cancel` and `next_event` put in or take out one event at some place, which changes
one count by one (`SplicedNumber`) and keeps the order; that `cancel` leaves no
second timeout behind is then part of the count.

`NoNeedlessTimeout` proves `NoSpuriousTimeout` from `2 * pkt_latency < TIMEOUT`, as
the 0.1 s and 0.3 s of the code are, and a backlog that fits the buffer. On a
perfect link (`PerfectInv`) the packets the receiver has not seen are the data
events of the chain and the acknowledgements the sender has not seen are its
acknowledgement events, each once and in sequence; so the receiver never keeps a
packet in its window and every acknowledgement that arrives moves the sender's
window and sets the timer again. `InTime` ties each event to the moment r the timer
would expire: data is due at the latest `pkt_latency` after the timer was last set,
its acknowledgement `pkt_latency` later. An acknowledgement is therefore always
before the timeout in the chain. The invariant needs `IndInv` for where the window
is in the stream and `ChainInv` for the order of the chain.

The theorems of the other components are likewise for all values of the
constants: any number of lcores, threads, timers, flows, objects and packets. Each
rests on a conjunction `IndInv` at the head of the module, shown to hold at first
and to survive every step, one lemma per action.

**Ring** (`RteRingProofs!RingInvariance`). Assumed: the size of the table divides
`Word` and is smaller, as 2^n and 2^32 are, and `InStep`. `IndexOrder` is not
inductive, since a move of an index is decided by two reads made earlier. The
invariant places each lcore between the four indexes at every point of its call
(`ProducerOK`, `ConsumerOK`): what it has read is at most what the index is now,
the room it computed is at most the room there was, and once its compare and set
has succeeded its entries lie between tail and head. Reservations of one side are
disjoint (`Apart`) and leave no gap (`Covered`), a single producer or consumer has
no company (`Alone`), and the table holds the objects in order where they are
published (`Published`) or copied (`Copied`). What remains is modular arithmetic:
numbers less than `Size` apart are in different slots, and a difference of indexes
that have wrapped is the true one (`FreeExact`, `EntriesExact`). From this follow
`IndexOrder`, `SlotsExclusive`, `TailReserved`, the action properties
`HonestFailure` and `WatermarkTold`, and the refinement `RingImplementsFifo`: an
enqueue happens where its tail is published, a dequeue where the head is moved,
every other step is not seen.

**Memory pool** (`MempoolProofs`). `OnePlace` with what a call has in hand at each
point (`CallOK`) and the lengths of the caches (`CacheOK`). A step takes some
objects of one place to another (`MoveStep`). The code ignores the result of the
enqueue that ends a put; `AlwaysRoom` shows by counting that it does not fail,
because the objects of store and calls together are not more than the pool has.
`CacheFits` needs the flush threshold for what a spill leaves and the bound on a
bulk for what a put adds before it spills. `GetFailsOnlyWhenUsed` adds that a get
below the size of the cache reaches the store on its own only after a failed
backfill, with fewer objects in its cache than it wants (`DirectOK`). When a get of
one object fails, store and own cache are thus empty and every object is some
thread's (`AllOwned`); a thread has no more than what it uses and, if it is another
lcore, one settled cache (`OwnedBound`). `SumBounds` adds these up over any finite
set of threads, by a least counterexample in place of induction.

**Timers** (`RteTimerProofs`). The status of a timer says where it may be linked and
who has to answer for it (`StatusOK`); a call in progress owns the timer whose
status it wrote (`CallOK`), a manager its run list and its current timer (`MgrOK`),
links agree with both (`LinkOK`), lists are sorted and the cached expiry is that of
the first timer while the lock is free (`OrderOK`). A step of an lcore touches its
own call and manager, one timer and one list: `StepOf` and the lemmas `StepFrame`,
`LinkFrame` and `OrderFrame` say once what all others keep. `PendingKept` is an
action property of timers that become pending as well as of those that are. No step
drops a pending timer from a list, a run list or the hands of a reload. A second
invariant, `Scheduled`, says that a reset about to write PENDING has its timer in
the hands of its target, or is for another lcore and the timer has expired: an lcore
does not manage its list while it is in a call, so only another one can drop what
has just been added, and only once it has expired.

**Dropper** (`QosProofs`). All thresholds, probabilities and weights that
`rte_red_config_init` accepts, all packet lengths, times and random numbers. The
queue of a flow is the number of its packets that passed in this burst once
`last_time` is the time of the burst, and of no concern before (`InBurst`). The
average is bounded by the longest queue: x - x div w grows with x, the table's
factor of decay is at most 1, and the remainder modulo `RedWord` only makes an
average smaller, so the theorem holds with overflow. That an average
below the lower threshold drops nothing then gives `DroppedForCause`. A packet that
meets an empty queue passes whatever the average is, and `InBurst` shows that the
first of a flow in a burst meets one (`EveryFlowServed`).

**Meter** (`MeteringProofs`). All parameters that `rte_meter_*_config` accepts and
that satisfy `Fits`. Neither property can be shown of a bucket alone: the invariant
keeps, for each packet of the log, a number n of fillings since it. `Above` says
that bytes taken since then and the level are at most the size and n fillings,
and that those n periods ended in the time since the packet, which gives
`RateLimited`. `Below` says the reverse from some packet on, the last at which the
bucket was full, which gives `DegradedForCause`. The srTCM excess bucket is filled
by what the committed one cannot take and is bounded together with it (`Excess`).
The time since a filling is below a period once the first packet has come
(`Clock`); the first packet may be older than the meter, the difference of times
is then nearly a turn of the clock, and it finds the buckets full as they already
are. The lemmas `Remainder`, `Elapse`, `Later` and `Tick` do the arithmetic of the
wrapping clock.

**Packet buffers** (`MbufProofs`). Any number of threads, buffers and references,
with counts wide enough for all of them and a limit of `nb_segs` above 1; indirect
segments may be shared and cloned again. Since a clone of one can lose an update
(see *Findings*), `MbufInvariant` is `Spec => [](~lost => MbufInv)`: the history
`lost` turns true in the step that overwrites another thread's update and stays
true, and every step that does not keeps `MbufInv`. That a store after a read of 1
loses nothing depends on the count being exact in the state of the read and of
every state up to the store, and the count on no earlier store having lost an
update: `RefcntExact` and `StoreSafe` hold together or not at all. `MbufInv`
has both, and the reason why no other thread interferes: whoever may touch the
count, the pointers or the attachment of a buffer has a *claim* to it (`Claims`: it
holds the packet, its call has a reference, or it detaches from it), every claim is
a counted reference, and two threads with a claim are two references
(`TwoClaims`). With the count at 1 there is one claimant, so the
value read stays true. The clone of an indirect segment has no claim to the buffer
under it, and this is where the argument, and the code, fails; `UnderClaims` still
says that such a clone finds a count above 0, and above 1 where someone else has a
claim. `HeldInv` keeps held packets apart and without cycles,
`DirectInv` says that an indirect buffer has a reference and its direct one is
not indirect, `RetainInv`, `FreeInv`, `DetachInv` and `CloneInv` where each loop is
on its packet. `StepOf` and `CallKept` say once that a step leaves alone what other
threads claim; each action then counts what it adds to or takes from `Held`,
`Working` and `Attached`. The lemmas on segments (`SegsUnfold`, `Acyclic`,
`EndReached`, `SegsAppend`) replace induction along the chain by the minimality of
`SegsOf`.

### Only model-checked

- `Termination`: liveness under fairness, out of the prover's reach.
- `CrcOfPolynomial` and `ChangeDetected`: they need induction over the bytes of a
  packet, and the definitions are recursive.
- `HeaderVerifies`: it holds for the lab's addresses and not for all, because the
  sum is folded once (see *Findings*); TLC tries every length.
- The four violations of *Findings*.

## Not modelled

- Command-line parsing, tracing and memory release in `rdt/`; what the
  protocol does with a corrupted packet that verifies; overflow of the sequence numbers.
- `port_init` and `main` of lab 2, which only configure devices; the printed
  statistics of lab 3.
- Of the DPDK libraries modelled: creation and lookup by name, memory zones,
  debug cookies and statistics; the counts of a ring; control mbufs and the
  operations on the data area of an mbuf; `rte_red_mark_queue_empty`, which lab 3
  never calls; the upper levels of the timers' skip list.
- The rest of DPDK. It is all but a few thousand of the repository's 694 000
  lines of code, and most of it is poll mode drivers (Intel, Broadcom,
  QLogic, Mellanox and others), their firmware interfaces and register
  definitions, kernel modules and test programs. A driver's other half is the
  hardware, whose behaviour is not in the repository; there is nothing to check
  a model of it against. Libraries that no lab calls (ACL, hash, LPM,
  fragmentation, vhost, pipeline) are left aside. The modules therefore cover a
  small share of the lines, and the share of the labs' own code is what counts.

## Plan

1. Done: `rdt/` with its proofs; lab 2 and lab 3; ring, memory pool, packet
   buffers, meter, random early detection and timers of DPDK.
2. Done: proofs for the timed model, ring, pool, timers, meter, dropper and packet
   buffers; every safety property of these modules has its theorem.
3. Liveness of the ring and of the timers on larger instances.
