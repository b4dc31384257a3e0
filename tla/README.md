# Verification of Stabilize

Stabilize is the firmware of a stabilised camera or flight platform: a Teensy
reads roll, pitch and yaw from a UM7 IMU, high-pass filters them, commands up to
four IQinetics position motors to turn against the motion, and logs what it did
to an SD card. The sketch is `src/stabilize/`, the libraries it uses are under
`src/libraries/`. This directory models the parts with state worth arguing
about in TLA+, checks them with TLC and proves part of what they promise with
TLAPS.

Run a check with `tlc -config X.cfg M`, a proof with `tlapm M_proofs.tla`.
`PROJECT.json` maps every definition to the lines it was translated from.

## 1. Inventory

The sketch runs in one thread and the repository has no interrupt handlers, but
its second SD library is written to be called from them (`SD_t3.h`). What else
happens concurrently is outside the processor: the IMU sends when it likes, each
motor controller answers when it likes, the SD card and its controller work on
their own, and the power can go. Serial ports are buffered by the Teensy core, so the sketch sees bytes
"available" at arbitrary moments.

```
   UM7 --bytes--> updateImu --encode--> UM7 object --angles--> loop(): rollover, filters
                                                                 |  setVal
   SD card <-- File/SdFile/SdVolume <-- dataln <---- output -----+--> syncMotor
                                                                       |  ^
                     client entries (Set/Get/ReadMsg) <-> GenericInterface
                                          |  SendPacket      SetRxBytes |
                                          v                             v
                                     BipBuffer                    PacketFinder + ByteQueue
                                          \---- communication_buffer ---/
                                                     Serial ports 1..4
                                                   motor controllers
```

| Component (source) | State | Operations | What makes it hard | What makes it correct |
|---|---|---|---|---|
| Byte queue (`byte_queue.c`) | array, `start`, `end`, `count` | put, get, peek, is-full, is-empty, count | wraps; the counter and the pointers are kept apart; last cell is a branch of its own | a bounded FIFO of `DataSize - 1` |
| Bip buffer (`bipbuffer.h`) | two regions, one reservation, array | Reserve, Commit, CommitPartial, GetContiguousBlock, DecommitBlock, Clear | producer and consumer calls in any order; consumer moves the regions under an open reservation; misuse is accepted | bytes out = bytes committed, in order |
| Packet finder (`packet_finder.c`) | circular buffer parsed in place, parser fields, queue of packet starts | PutBytes, PeekPacket, DropPacket, GetPacketCopy | resynchronisation backwards through used bytes, wrap, overflow, packets waiting meanwhile | every well formed packet out once, in order; always returns |
| Generic interface (`generic_interface.cpp`) | a finder, a bip buffer | SendPacket, SendBytes, GetTxBytes, SetRxBytes, PeekPacket, DropPacket | three partial sends per packet, eight-bit lengths | whole packets or nothing while they fit |
| Motor clients, `motors.ino` | clients' entries, `communication_buffer` | motSetup, setVal, syncMotor, getVal | replies late, short or lost; one buffer and one static entry array for four motors | a command per motor and cycle; replies to their client |
| Control loop (`stabilize.ino`) | clock, previous angles, modifiers | one pass of `loop()` | skipped passes, wrap of `millis()`, passages of zero | unwrapped angle follows the motion |
| IMU (`UM7.cpp`, `IMU.ino`) | parser state, registers | encode, updateImu | starts in mid-packet, cut packets, lengths the parser gets wrong, writes beyond `data` | angles of one packet; finds its place again |
| Data log (`logging.ino`) | name file, data files, number | dataLoggingSetup, dataln | reset at any step, calls of the card that fail unnoticed | one boot per data file, unless the number was lost |
| SD library (`SdVolume`, `SdFile`, `File`, `SD`) | FAT, directories, one cached block, open files | open, read, peek, write, seek, flush, close, remove; exists, mkdir, rmdir, rmRfStar, ls, openNextFile | one cache for all files, order of writes under power failure, full volume, directories that grow, paths | card sound after any failure; closed data stays; every call does to the tree what it says |
| Card drivers (`Sd2Card`, `KinetisSDHC`) | type of the card, descriptor, flags of the controller, selection and transaction | init, readBlock, writeBlock | missed commands, a card busy past every timeout, a 16-bit clock, flags cleared too early | "true" means done; only the block asked for changes; the bus is released; calls return |
| Second SD library (`*_t3.cpp`, compiled instead of the other by `USE_TEENSY3_OPTIMIZED_CODE`) | cache with counted users, files, directories | begin, open, openNextFile, read, peek, seek, rewind | interrupts read through the cache the main program is using | bytes read are the file's; what is held stays; listings are complete |
| CRC helper | none | MakeCrc, ByteUpdateCrc | | used as a parameter |
| Message types, voltage monitor client, MemoryFree, Filters, Adafruit libraries, `.old/` | | | | unused or vendored; not modelled |

How the parts interact: `loop()` calls `updateImu`, which feeds all waiting
bytes to `UM7::encode`; then `setVal` for every motor queues a packet in that
motor's `GenericInterface`; then `syncMotor` for every motor queues the
requests, moves everything queued through `communication_buffer` to the serial
port, reads what has arrived into the same buffer, feeds it to the packet
finder and hands every packet to that motor's client. The client objects share a
function-local static array (`complex_motor_control_client.hpp:120`), the only
hidden coupling between motors besides the buffer. `dataln` opens, appends and
closes one SD file per line.

## 2. Modules

An operations module holds a data structure's functions as operators on a
record; a state machine applies them; an abstract module says what it promises.

| Module | Models | Built on |
|---|---|---|
| `ByteQueueOps`, `ByteQueue` | `byte_queue.c` | |
| `BoundedFifo` | abstract: what a byte queue promises | |
| `BipBufferOps`, `BipBuffer` | `bipbuffer.h` | |
| `StagedFifo` | abstract: what a bip buffer promises | |
| `PacketFinder` | `packet_finder.c` | `ByteQueueOps` (the index queue) |
| `PacketStream` | abstract: what a packet finder promises | |
| `GenericInterface` | the sending half of `generic_interface.cpp` | `BipBufferOps` |
| `MotorLink` | `motors.ino`, both client headers, serial lines, controllers | results of `PacketFinder` and `GenericInterface` |
| `ControlLoop` | `loop()` of `stabilize.ino`, one axis | |
| `Imu` | `UM7.cpp`, `IMU.ino`, the sensor | |
| `DataLog` | `logging.ino` over many boots | what `SdFile` and `FileTree` say of remove and close |
| `SdVolume` | `SdVolume.cpp`: FAT, cache, allocation | |
| `SdFile` | files of `SdFile.cpp`, `File.cpp`, `SD.cpp` | `SdVolume` |
| `FileTree` | abstract: a tree of names and what each call does to it | |
| `SdTree` | directories of `SdFile.cpp`, the paths of `SD.cpp` | `SdVolume` by `INSTANCE` |
| `SdCard` | what the drivers expect of a card; the calls of a driver | |
| `SpiCard` | the SPI half of `Sd2Card.cpp` | `SdCard` |
| `KinetisSDHC` | `KinetisSDHC.c` and its controller | `SdCard` |
| `T3Card` | `card_t3.cpp`, half of `init_t3.cpp` | `SpiCard` |
| `Sd2Card` | `Sd2Card.h`: the composition of the three drivers with a card | the three above |
| `T3Cache` | `cache_t3.cpp` | |
| `T3File` | `file_t3.cpp`, `fat_t3.cpp`, half of `init_t3.cpp`, with interrupts | `T3Cache` |
| `T3Dir` | `dir_t3.cpp` | |
| `MC*` | instances for TLC; `MCBuffers`, `MCSerial`, `MCSd`, `MCSketch` and `MCT3` put parts that share no state side by side, and a behaviour uses one of them | |
| `Buffers_proofs`, `PacketFinder_proofs`, `GenericInterface_proofs`, `MotorLink_proofs`, `Sketch_proofs`, `SdFile_proofs`, `Sd2Card_proofs`, `T3_proofs` | theorems (section 4) | the modules they name; `Buffers` are both buffers, `Sketch` the loop and the log, `PacketFinder` also its refinement of `PacketStream`, and `T3` both `T3File` and `T3Dir` |

An operator whose name ends in `_Mutated` is a plausible bug in the operator
that follows it, kept so that each property can be shown to be able to fail. No
model uses one.

### State and actions against the code

*ByteQueue.* `bq` is the C struct. `Put` and `Get` are whole calls; the array
starts with arbitrary contents, because `InitBQ` leaves it alone.

*BipBuffer.* `bip` is the object, `mem` the array. Writing through the pointer
`Reserve` returned is an action per byte, so that the consumer's calls fall in
between. All orders are allowed, also the ones the code only survives: two
reservations, commits without one, commits of too much.

*PacketFinder.* `PutBytes` is the flush, the overflow test and the copy; every
pass of the parser's loop after that is a `ParserStep`, the end of the loop is
`Exhausted`. No other call happens in between, since the code is single
threaded (`parsing`). `PeekPacket` changes nothing that matters and is
the operator `PacketAt`. Constants stand for 256 (`ByteMod`, `IndexMod`), for the
CRC, and for the sizes.

*GenericInterface.* `SendPacket` is its three `SendBytes`, whose results are
ignored as in the code. `GetTxBytes` computes the eight-bit length. A byte is
the pair of its message and its place, so any cut or swap shows.

*MotorLink.* `pc` and `at` are the place in `loop()`: setup for each motor,
setVal for each, sync for each (write, read, parse), output. `Handle` and
`Lose` are the controllers and the lines. `owner` is the static array.

*ControlLoop.* `pc` is the place in the pass, `Tick` the clock, `ImuReports` a
packet that `updateImu` has parsed. `moved`, `since` and `commanded` are
history variables.

*Imu.* `Encode` gives the set of what one byte can make of the object, a set
because writes past `data[30]` hit `data_length` and `data_index`, and whether
the increment reads the overwritten index again is up to the compiler. `SendByte`
and `CutPacket` are the sensor; `CallUpdateImu`, `ReadByte`, `Return` the loop of
`updateImu`. Real byte values are used, with their real checksum. `taken` is what the
parser takes for a packet, and `accident` whether the angles are of one that no sensor sent
and that adds up; both are history.

*DataLog.* One action per call of the card, `PowerOff` between any two. Every call may
fail, also those whose result `dataLoggingSetup` ignores: `exists` may miss the file
(`NoNamefile`), the open for read or a read may give no digit or not all (`ReadNumber`),
`remove` may do nothing or half of it, the open for write may fail before or after it has made
the file (`Create`), and what is printed may not get to the card (`PrintNumber`). `Stem` is
the name "sdat" without a number. `PrintNumber` multiplies by a power of ten
when digits are appended to digits. `lost` is history: the boots in which one of these failures or a
reset lost the number.

*SdVolume, SdFile.* An operator takes the volume and returns it as the call
leaves it, with the sequence of disks its writes led through; a power failure
picks one of these disks and mounts it afresh. A file's byte is the pair of file
and position. Allocation, the cache with its dirty mark and mirror block, the
FAT-before-directory order and both copies of the FAT are the code's. `acked`, `durable`, `failed`, `torn`
and `astray`, the files that a failed seek left at another cluster, are history.

*SdTree.* The same volume with directories: a position counts entries, `.` and
`..` are there, a directory grows by a zeroed cluster, the root does not grow.
Every call of the SD class is one action whose operator walks the path as
`walkPath` does, and it may end, as in `SdFile`, at any of its writes.
`request` and `answer` are the call and what it returned, `listing` a directory
open for `openNextFile`. `FileTree` says for every request which trees may
follow it; `SdTree` implements it with `tree` read off the disk and `lost` for
the windows in which a card is broken (below).

*SdCard, SpiCard, KinetisSDHC, T3Card, Sd2Card.* `pc` is the statement a driver
is at: a command with its response is a step, so is a pass of a waiting loop and a
chunk of words. The card may miss any command, send no or damaged data, refuse
data, stay busy for as long as it likes and fail to program; `Programs` is the
card finishing on its own, which may be in the middle of a later call. `irq` and
`wire` are the controller's flags and how far it is, `RaiseTC` and `Move` its own
steps. `clock` is `millis()` in 16 bits, and a call may begin at any value of it.
`inited`, `asked` and the card's `good` are history; `asked` keeps of each write called whether the
driver had forgotten the card's capacity by then.

*T3Cache, T3File, T3Dir.* The cache is the list of its entries. A thread's step
is a `SDCache::read`, which the bus transaction makes one, a copy, a link of the FAT
or a return; thread 2 is an interrupt and runs from its begin to its end between
two steps of thread 1. Opening and listing go sector by sector. Any read may fail.

## 3. Runs

| Run | Distinct states | What it shows |
|---|---|---|
| `buffers` | 1.0 million | from any initial memory the byte queue is a FIFO of `DataSize - 1`, and `IsFullBQ` and the refusal agree; under every order of calls the bip buffer's bytes read are the bytes committed and a reservation stays apart; from every byte stream over two values, cut in every way and overflowing, exactly the well formed packets come out |
| `packet_frames` | 434 027 | packets with data, broken ones, two waiting at every wrap position: parser inside the data, nothing complete left, noise never piles up, calls return |
| `serial_bytes` | 209 487 | runs of bytes are never cut and all packets come out whole while they fit; the IMU's angles are of one of its packets but for broken ones that add up, and the parser finds its place after a cut or a health packet |
| `motor_pair` | 1.84 million | two motors with all settings, packets of the first lost both ways and its replies of wrong length: the shared buffer never mixes them, gains come before commands, quiet lines mean current values, each sync writes this cycle's command |
| `motor_shared_entries` | violated | replies of motor 2 go to motor 1's entries (finding 1) |
| `sketch` | 435 640 | unwrapped angle follows the motion through skips and wraps and passes keep their distance; boots share a data file only if one of them or one between them lost the number, whatever calls fail and wherever the power goes |
| `sd_library` | 367 455 | files: power failures before every write, volume filling up, seeks: card sound, closed data durable, cache honest, nothing leaked, reads return what was written. Directories: every call does what `FileTree` says, listings are complete, the tree is sound |
| `sd_seek_write` | violated | a write that fails with room on the volume (finding 2) |
| `sd_tree_parent` | violated | an entry made in a file (finding 3) |
| `card_drivers` | 797 087 | three drivers against every kind of card: addresses agree, true means done, only blocks asked for change, or those that a forgotten capacity leads to, the bus is released, calls return but for the waits without end |
| `card_write_result` | violated | a refused write that returns true (finding 4) |
| `t3_files` | 1.70 million | reads under interrupts through a cache of one or two entries are the file's bytes, positions agree, what is held stays; listings and paths find what is there |

### Bounds, and why they are enough

* `buffers`: a 4-cell queue reaches every relation of the pointers, full and empty
  at every offset; the proofs are for any size. 5 cells give every case of
  `Reserve` (after A, before A, on B) and `MaxSize = 6` requests more than the
  array. The finder has `PacketBufferSize = 7`, the shortest empty packet (5 bytes) plus the
  free cell plus one, so that every wrap position and overflow occur.
* `packet_frames`: 12 cells hold two packets. The finder's correctness needs
  `PacketBufferSize >= MaxData + 6`: a smaller buffer would overwrite the cells a
  stale `packet_start_index` points at. The code has far more.
* `serial_bytes`: `LengthMod = BufLen = 16` keeps the relation of the real 256 and
  256; `MaxSent = 27` exceeds it. The IMU's lengths are the real ones; it sends two attitudes whose
  angles have no byte in common at any place, so that angles made of both would show, and
  with the values chosen so that one of them, cut after its third byte and followed by the other, adds up; and a
  health packet. One cut packet, since once the parser has found its place again only stale bytes
  of `data` tell its state from the one before; one byte in the port, since what
  the parser does depends on the order of bytes only. `VIEW View` leaves out what the parser
  keeps of an earlier packet and writes anew before it reads it.
* `motor_*`: `TxSize` 80 or 48 is below the real 256 and is what the most a cycle
  queues plus four bytes needs (76 with all gains and requests). The second cycle is
  the first whose replies can come late. One motor is faulty and one is not, so
  that harm to the sound one would show.
* `sketch`: a circle of 8 with margin 3 and motion 2 satisfies the same
  inequalities as 360, 50; a clock of 8 wraps several times. Five boots, of which
  a number needs three to lose, repeat and collide; numbers above `NameLimit` have
  names too long for the card.
* `sd_library`, files: three clusters of two blocks of two bytes and three FAT entries
  per block, so that the clusters are in different FAT blocks; writes of 4
  bytes fill a cluster, and after a seek to 7, the middle of a block, they cross blocks and clusters and leave blocks
  partly filled; seeks go back to 7 in the second cluster and to 10, the beginning of a block, in the
  third, so that they follow links of the chain. Two power failures, so that the recovery from one is hit
  by another. Directories: three clusters of one block of three entries, so that a
  directory is full with one name besides `.` and `..` and grows with the second;
  paths of two names; three changes, one power failure, begun on a new card and on
  a full one. The two names are alike (`SYMMETRY Alike`).
  `VIEW View` leaves out which block an unchanged cache holds, the bytes of clusters that are free
  on the card and in the cache, the last request, answer and list: no later call depends on them and no invariant reads
  them, and action properties are checked on every step, also one into
  a state whose view is known.
* `card_drivers`: three blocks of two bytes and addresses of 8 values keep
  `Blocks * BlockBytes <= AddressMod`; byte addresses and block numbers then differ
  for every block but 0, which the SPI driver does not write. A clock of 6 with waits of
  1 and 2 begins waits before and after its wrap. Two chunks are one that is not
  the last and one that is. Two passes of `InitCard`'s loop are one that is not
  the last and one that is.
* `t3_files`: a file of two clusters, full or not, adjacent or apart, and caches of
  one and two entries: with one, every read of an interrupt needs the entry the main
  program holds. Several partition tables and FAT types, since each takes another
  path through `begin`. Directories of one and two clusters and a root of three
  sectors, with deleted entries, long names, a label and a directory below.

Deadlock is not checked in the runs with a bound that the system itself does not
have (`motor_*`: cycles, `sketch`: boots, `sd_*`: failures and a broken card,
`t3_files`: entries listed) and in `card_*`, where a driver may wait for ever.

### Fairness

* `PacketFinder`: `WF_vars(ParserStep \/ Exhausted)` stands for the call of `PutBytes`
  itself: the loop is code that runs without interruption until it leaves, so it
  takes its next step whenever there is one. `PutBytesReturns` uses it, and shows
  that going back after a bad CRC cannot repeat forever.
* `Sd2Card`: `WF_vars(Drive)`, for the same reason, the driver being code that
  runs; and `WF_vars(Moves)`, the controller moves a block it can move. Nothing is
  assumed of the card: it need never be done with programming, and never answer.
  `CallsReturn` says that every call returns nevertheless, except in the waits the
  code gives no end, which `Hangs` lists: an SPI wait begun so late that the 16-bit
  clock wraps before its limit (`Sd2Card.cpp:411`), the builtin driver's waits for a
  busy card, for words and for TC, and the second library's for the token.

Everything else is safety.

### Findings

1. `complex_motor_control_client.hpp:120` declares `entry_array` as a static local of
   `ReadMsg` that is filled once, by the first client that calls it. "Share that
   packet with all client objects" (`motors.ino:225`) never happens for motors 2 to
   4: their replies are parsed into the entries of the first, so `getVal(2, ANGLE)`
   keeps its initial value and `getVal(1, ANGLE)` is the last motor's angle. Run
   `motor_shared_entries`.
2. `SdFile.cpp:1173`: writing a whole cached dirty block forgets the block's number but
   not the dirty mark, so the next flush, of any file, writes to block 0xFFFFFFFF and
   fails. The comment of `write` (line 1118) lists the reasons to fail, and this
   is none. It takes a seek back, which the sketch never does. Run `sd_seek_write`.
3. `SdFile.cpp:398`: `open` checks that the parent is a directory only while it reads
   entries, and an empty file has none: `SD.open("a/b", FILE_WRITE)` on an empty
   file `a` gives it a directory's cluster with an entry, and returns true, although the
   comment (line 379) promises failure. Run `sd_tree_parent`.
4. `KinetisSDHC.c:666`: after the last chunk the error flags are looked at once, before
   the card can have answered, and cleared; the call then waits for TC and returns OK.
   "RETURNS: result of operation" (line 516) is not so for a write the card refuses.
   Run `card_write_result`.

The passing runs except exactly these cases where they would meet them: `TrueMeansDone` a
transfer that went wrong after its last chunk, `TreeSound` and `FileTree` an entry made
in a file (`broken = "file"`). Other exceptions are named in the comments of the
properties: of `CardSound` and `TreeSound` a removal cut off between the FAT and the
entry; of `CardSound` the bytes, not the chain, of a file that a failed seek left at another cluster
(`SdFile.cpp:933`); of `AnglesFromOnePacket` a broken packet that adds up; of `OneBootPerFile` boots with
a loss of the number in one of them or between them; of `TreeSound` a directory cut off before its new cluster is zeroed;
of `AddressingAgrees` and `TrueMeansDone` a card that gets ready at the last pass of `InitCard`'s loop
(`KinetisSDHC.c:398`) and the second library with a card of version 2 that takes
bytes (`card_t3.cpp:92`); of `OnlyTheBlock` the first of these, where it says which block changes instead.

### Divergences seen but not given a run

* `bipbuffer.h:75` says a second `Reserve` returns NULL; the code grants it. The
  model does what the code does, and `StagedFifo` lets it replace the first.
* `bipbuffer.h:162` says `CommitPartial(0)` does nothing; on an empty buffer it
  moves `ixa`. Harmless, as `ImplementsStagedFifo` shows.
* `packet_finder.h:79` promises a negative value on data loss; when the index queue
  (19 entries) is full a verified packet is dropped and the call returns 0.
* `packet_finder.h:67`: in the build for computers buffer indices are larger than the
  eight bits a cell of the index queue has.
* `generic_interface.hpp:77`: `length_out` is 0 when exactly 256 bytes are queued.
  The buffer cannot hold that many.
* `generic_interface.hpp:65`: `SendPacket` returns 1 whatever its `SendBytes` say.
* `IMU.ino:11` "Valid packet returns true" and `stabilize.ino:179` "skip the cycle if the
  imu doesn't update correctly": `updateImu` returns true for any byte.
* `SdFile.cpp:1072`, `1210`: a write that fails on a full volume keeps the clusters it
  took; if the file's size is still 0, removing it does not free them.
  `NothingLeaked` excepts these behaviours.
* `SdFile.cpp:933`: `seekSet` sets the current cluster to the first one before it follows the
  chain, and leaves it there when `fatGet` fails, with the position unchanged. After finding 2
  it does fail without an error of the card, and the next write of a whole block goes into the
  wrong cluster, over bytes that a `flush` had made safe. This takes a file of three clusters and a
  write after a seek back, which the sketch never does; for example, write three clusters less
  a block, flush, write a byte, seek back by it, write a block, seek back to that block,
  seek back to the second cluster (fails), write a block. `sd_library` has such a volume and reaches the case;
  `CardSound` excepts the bytes of a file in `astray`, and no more: its chain, its room for its size, and
  the other files are as they should be.
* `SdFile.cpp:1082`: a power failure in the middle of `remove` leaves a directory entry
  that points at free clusters. `CardSound` excepts that too (`torn`).
* `logging.ino:69`, `73`, `89`, `98`, `99`: the setup goes on when `exists`, the open for read, `remove`, `print`
  or `close` fails, and returns true. A failed open has the number start again at 1, a failed
  `exists` at 0, a failed `print` or `close` leaves an empty name file for the next boot, and a failed `remove`
  has the new number appended to the digits of the old. Lines of several boots then share a data
  file; `OneBootPerFile` says which boots.
* `UM7.cpp:99`: the sum of its bytes is all that protects a packet. A packet that is cut, with the beginning of the next
  for its rest, can add up, and its angles are then taken for good. `serial_bytes` has such a pair of
  packets; `AnglesFromOnePacket` excepts exactly the angles of a packet with a right sum that no sensor sent.
* `KinetisSDHC.c:398`: `highCapacity` is set only if passes are left, so a card that gets ready at the last
  pass is addressed in bytes, and writes go to 512 times the block they were asked for, if the card has it.
  `OnlyTheBlock` says that they go there and nowhere else.
* `logging.ino:94`: from number 10000 on the name is too long for 8.3 and every line
  is lost.
* `Sd2Card.cpp:411`: the difference of two `uint16_t` is an `int`, so that a timeout begun before the
  clock's wrap never comes; `SD_init`, which casts, is right. Part of `Hangs`.
* `file_t3.cpp:165`, `193`: within a call, the next sector is `lba + 1` and a cluster ends
  where `lba` is a multiple of its size: files in pieces, and data areas that do not
  begin at such a multiple, are read wrongly. `ReadsTheFile` excepts them.
* `dir_t3.cpp:140`: a listing that goes on to another sector of a cluster reads the same
  sector again; full directories end wrongly. `ListsEachOnce` excepts both.

## 4. Proofs

TLAPS proves the following for every value of the constants that satisfies the
named assumptions of the modules.

| Module | Theorem | Says | Inductive invariant |
|---|---|---|---|
| `Buffers_proofs` | `Invariance` | byte queue: types, counter = distance of the pointers | itself: neither conjunct survives a step alone, because a full and an empty array are told apart by both |
| | `FullExactlyAtCapacity` | `IsFullBQ`, refusal and `DataSize - 1` bytes coincide | follows |
| | `RefinesFifo` | `QueueSpec => ImplementsFifo` | the sequence of cells from `start` is appended to, or loses its head |
| | `RegionsSafe` | bip buffer: types, regions ordered, reservation apart | their conjunction: a commit relies on the reservation's place, the reservation's place on the regions' order |
| | `IsStagedFifo` | `Spec => ImplementsStagedFifo` | the same one: the bytes of region A and then of B are the queue, the reserved ones the stage |
| `PacketFinder_proofs` | `TypeCorrect` | types | `IInv`, below |
| | `StaysInside` | `ParserInsideData` | `IInv` |
| | `FoundWhenReturning` | `NothingLeftUnparsed` | `IInv` |
| | `NoiseGoes` | `NoiseIsFlushed` | `IInv` |
| | `IsPacketStream` | `Spec => ImplementsPacketStream` | `IInv` with `CrcSoFar`: the CRC kept is that of the bytes since the length |
| `GenericInterface_proofs` | `RunsStayWhole` | `RunsWhole` | `IInv`: `GetTxBytes` empties both regions, so that all bytes are one region from the first cell on and B is never used; that region is made of whole runs, and equal to what is `due` as long as that fits |
| | `SentIsHandedOut` | `WholePacketsWhenRoom` | `IInv` |
| `MotorLink_proofs` | `TypeCorrect` | types | `IInv = Queues /\ Lines /\ Clients`: at each statement of the loop, for which motors what is queued; orders and answers on a line are of its own motor |
| | `NoMixing` | `BufferIsOwn` | `IInv` |
| | `OneCommand` | `CommandsCurrent` | `IInv`: `Queues` says what a sync finds in the queue, settings, then the command, then requests |
| | `SettingsBeforeCommands` | `ConfiguredBeforeCommanded` | `SettingsFirst`: once sent, a setting has been handled or is on the line before any command |
| | `NoReplyLost` | `QuietMeansCurrent` | `AnswersCurrent`: for each entry the last word about it is this cycle's, and it is in exactly one place: a request not handled, an answer on the line, one in the buffer, or the entry's value |
| `Sketch_proofs` | `TypeCorrect` | the loop's types | `TypeOK` with the one below |
| | `AngleFollowsMotion` | `MotionTracked` | after a command `rolled = prev + mod`, and the angle is `prev` plus the motion plus at most one circle |
| | `PassesApart` | `CyclesApart` | until a pass is due, the clock's difference from `time_last` is the true time, wrapped or not (`Measured`) |
| | `LogTypesCorrect` | the log's types | with `Steps`, what is known at each step of the setup |
| | `FilesApart` | `OneBootPerFile`: two boots share a data file only if the number was lost in one of them or in a boot between them | the data files of boots since which the number was not lost (`KeptSince`) do not go beyond the name file at rest, nor reach the new number while it is replaced (`Outrun`), and this boot's file is its own (`OwnFile`) |
| `SdFile_proofs` | `LibraryInvariant` | `Spec => []SdInv` | `SdInv`, below |
| | `CacheIsHonest` | `CacheHonest` | `SdInv` |
| | `ClosedSurvives` | `ClosedIsDurable` | `SdInv` |
| `Sd2Card_proofs` | `ReleasesTheBus` | `BusReleased` | `Bus`: a driver inside a call has as many transactions as its own way of counting says, and a step either goes on or releases |
| | `WritesOnlyTheBlock` | `OnlyTheBlock` | `IInv`, below |
| | `AddressesAgree` | `AddressingAgrees` | `IInv` with `InitAgrees`: at each statement of an init, what the card's state and the driver's idea of its kind must be there; `i` is still `MaxCount` if the loop ended with its last pass |
| | `TrueIsDone` | `TrueMeansDone` | `IInv` with `SpiDone`, `BuiltinDone`, `T3Done`: at each statement of a transfer, what the card has done of it and what it still has to |
| `T3_proofs` | `LocksHold` | `HeldStays` | `Held`: an entry's count is the number of threads that hold it, no two entries are of one sector, and a thread that holds one knows its sector |
| | `CursorStays` | `CursorAgrees` | `Held` with `AllRight`, below |
| | `BytesAreTheFiles` | `ReadsTheFile` | the same |
| | `FindsWhatIsThere` | `OpensWhatIsThere` | `TreeOk` with `OpenInv`, below |
| | `ListingIsTheDirectory` | `ListsEachOnce` | `TreeOk`, `OpenInv` and `ListInv`, below |

`ClosedIsDurable` is not inductive. `close` makes durable what `write` accepted; that the directory
has the size by then is due to the handle, which is dirty when the file has grown, or to an
earlier flush. So `SdInv` relates four places that know a size: what was
accepted, the handle, the directory as the cache has it, and the directory on the card (`Covered`,
`DirSeen`, `DirOk`). Two facts are needed that one would not expect. An unused
entry has size 0: removing a file whose chain could not be read must not leave a size behind, and `open` reuses
the entry. And the cache may be *stuck*: a whole block written past a dirty cached copy of itself
sets the block number to none and leaves the cache dirty, after which each flush
fails (finding 2; `SeekTo` may well contain the positions that lead there). From then on nothing more gets
durable, but what was durable remains so, and the cache stays honest. A call is a long composition of operations on the
volume, so one predicate, `Good`, says what each of them keeps, and one lemma for
each operation that it does; every disk the writes led through is part of it, which is what
a power failure in the middle of the call needs. The loops over blocks and clusters are folds:
`IterExists` shows once that the function behind a fold exists, `FoldKeeps` that it keeps what each step
keeps. `SdInv` was checked by TLC on the instance of `sd_library` first.

`WritesOnlyTheBlock` needs much. That no block changes but those asked for is not
inductive: a block changes when the card programs it, long after the command and
perhaps in the middle of another call. `JobAsked` says that the block the card waits
for or programs is one that was asked for, and for that the address in the write command must
mean to the card what it means to the driver. For SPI `SpiAgrees` says that a driver past its
init, or at a data command, has the card's kind, although the card may have missed
any command of the init; the builtin driver may get the kind wrong, but `BuiltinAgrees`
says only in one direction for a card that is in use, and `BuiltinWrites` follows the block through
the transfer. Lemmas about the arithmetic (`WholeBlocks`, `AddressFits`,
`MeansTheBlock`) say that dividing the product gives the block back and that no
address of a block on the card overflows. A card of high capacity that the builtin
driver takes for a small one is part of the theorem: what is asked for is kept with whether the capacity was forgotten
by then (`asked`), the block that changes is where the address leads (`Lands`), and `Landing`, `WriteStarts` and
`WriteCalled` carry that from the call to the card. `IInv` was checked by TLC on the instance of `card_drivers` first.

The packet finder's `IInv` measures everything as a distance from where bytes are kept
(`Base`), so that no case says whether the buffer has wrapped. It has the parser's state
say how far it is from the packet's length byte (`Place`) and the waiting packets lie one
behind the other, each ending before what the parser has yet to decide (`PacketsApart`).
That last part is why a flush never frees a byte of a packet, and why the length
of a waiting packet, which is read again when it is handed out, is still there. `IsPacketStream` maps a
state to the packets waiting and the window of bytes not yet decided; a parser step
decides one byte or one packet, or nothing.

`AllRight` follows a thread of the second SD library through a call. At each step it says where the
current cluster is in the file's chain: that of the offset, or one link behind at a link; in a
seek, as many links before the one sought as there are left to follow. The sector to read
next is, modulo the cluster's size, the one of the offset (`Next_lba`), without which the test for a new cluster
would not find the cluster's end; and what has been given so far are the file's bytes
(`Content`). `Held` is needed in each step, since the sector a thread copies from is the
one it asked for only as long as no interrupt has taken the entry away.

The entries of a directory have numbers, and everything about `T3Dir` is said of these: `Position` counts through
clusters, sectors and entries, and `EntryAtPosition`, `PositionOfEntry`, `PlaceOf` and `ClusterOf` say that
dividing a number, as `openNextFile` does with its offset, leads back to the place. A
search for the j-th name of a path (`LooksFor`) has found directories for the names before it,
and in this one neither the name nor an end among the entries before the sector it is at. So when
it stops at an end, or behind the last cluster, the name is nowhere in use. A listing (`Listed`) has given
the names of those entries before its offset that are to be given (`Given`), none of which is an end, and its
cluster is the one the offset lies in; a call of `openNextFile` (`ListsAt`) is at the entry
behind them, and if it ended with nothing that entry is an end. That a directory is not full is what makes the
listing stay inside its clusters: an end is still to come. `lost` is set in the step that goes wrong, so
the invariant says nothing from there to the next `rewindDirectory`.

Assumptions, beyond types:

* sizes are positive (`DataSizeAssumption`, `BufLenAssumption`, `SizeAssumption`);
* the offsets of the packet finder's buffer fit the eight bits of a cell of the index queue
  (`OffsetsFit`, a hypothesis of its theorems). They do on the Arduino, with 255 cells; in the build for
  computers, with 1023, they do not (`packet_finder.h:67`), and the theorems say nothing of it;
* a length is less than the start byte (59 and 0x55), and a CRC has 16 bits whatever its polynomial;
* the interface's buffer is no longer than `GetTxBytes` can say (`LengthFits`, a hypothesis of
  `SentIsHandedOut`; 256 and `uint8_t` in the code);
* what `motSetup` and one cycle queue for a motor fits its buffer (`TxSizeAssumption`: 76 of 256 bytes with
  all gains and requests);
* the craft turns by less than the margin between two commands and the margins leave room
  (`AngleAssumption`, where the code has 50 and 360, so the theorem holds for turns below 50
  degrees per cycle); `MinLoopTime + MaxBusy < ClockMod`;
* of a card, its blocks have addresses (`CardAssumption`); the waits are shorter than the clock
  (`ClockAssumption` of `SpiCard`);
* sizes of reads and writes and positions of seeks are not negative (`FileAssumption`), and a volume
  has clusters, blocks and bytes (`VolumeAssumption` of `SdVolume`);
* of a volume read by the second library, that a file's clusters are linked in the FAT, end with an end mark
  and have room for its length (`VolumeAssumption` of `T3File`). `CursorAgrees` and `ReadsTheFile` themselves name the
  volumes and files the code is right for;
* of a tree, that its directories have clusters of full sectors, that a directory's entry leads to one,
  and that the entries of a directory with a name that a path has are files, directories or labels, and all of one kind
  (`TreeAssumption`): `find` takes the first entry with the name without a look at what it is; of a deleted file
  the first character, 0xE5, is one it drops from a path.

Bounds like `MaxBoots`, `MaxAngle`, `MaxCycle` and `MaxSent` are constants too, so the theorems do
not depend on them.

Only model-checked:

* of `SdFile`, what depends on the chains of clusters: `CardSound`, `NothingLeaked` and `ReadsBack`
  (`FailsOnlyWhenFull` is violated, finding 2). That a chain ends and no cluster is in two is a statement about every
  step of `Chain`, through each of the writes of a call; the proofs above never follow a chain;
* `SdTree`, which is written with `RECURSIVE` operators, so that there can be no theorems about it, and with
  it the refinement of `FileTree`;
* `Imu`: how soon the parser is in step depends on the packets that the sensor really sends, which its instance gives,
  and that stale bytes of `data` are never saved takes sums of sequences, which the prover cannot do by induction;
* the two liveness properties, `PutBytesReturns` and `CallsReturn`, since fairness and `ENABLED`
  are out of the prover's reach.

The proofs have no induction theorem to use; where a claim needs induction over a length, as for the
CRC of a packet or the loops of `SdFile`, a least counterexample is shown not to exist.

## 5. Not modelled, and why

* Floating-point filters, and the loop's output format.
* The receiving half of `GenericInterface` only forwards to `PacketFinder`.
* Of the motor clients, `Save`, void entries and entries the sketch does not use: they are
  packed and parsed as the modelled ones.
* `ParseMsg` reads `rx_data[1]` and `rx_data[2]` of a packet of one or two bytes; what garbage
  they hold is not modelled.
* Nothing acknowledges the gains; `ConfiguredBeforeCommanded` is for lines that lose nothing.
* Of the SD library: `createContiguous`, which nothing calls; time stamps; the making of 8.3
  names, which are model values; errors of the card inside `SdFile` and `SdTree`, which are
  seen in `DataLog` and in the drivers, on either side of them.
* Of the card drivers: pins, clock rates, and words and bytes one by one.
* Writing with the second SD library: its `write` and the calls that change a card
  are empty in the source.
* The CRC's polynomial: the CRC is a parameter, and only how it runs over a packet matters.
* Unused libraries (section 1).

## 6. How the modules were ordered, and what is left

The buffers and the packet finder came first, since every byte to and from a motor
passes them; then the motor clients on top of them, the loop, the IMU and the log;
then the SD library from the volume up, and last its drivers and the second
library. Each abstract module was written with the component it is the promise of.
What would be worth adding:

1. *SD library.* Errors of the card inside `SdFile`, with what `card_drivers` shows of a
   driver as the assumption; `DataLog` composed with `FileTree`.
2. *Proofs.* The chains of `SdFile`, from `CardSound` without power failures on, for files that are
   appended to, as the sketch's log is, so that finding 2 does not arise;
   `AnglesFromOnePacket` of `Imu`, with the sum of bytes as a parameter.
3. *Wider behaviours.* All three axes with vertical velocity in `ControlLoop`; restarts of a motor
   controller in `MotorLink`.
