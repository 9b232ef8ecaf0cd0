# A TLA+ model of rr2spgateway

The gateway reads registers of a Mitsubishi PLC over SLMP/TCP and publishes
them over MQTT; MQTT commands change what it reads and when. This directory
holds the specifications of it, the TLC configurations that check them, and
proofs that TLAPS checks. Line numbers refer to the sources in `src/`.

    tlc -config SlmpLinkLate.cfg MCSlmpLink        # one run: PROJECT.json lists them
    tlapm SlmpLinkProofs.tla                       # one module of proofs

## 1. The system

| part | state it keeps | operations | talks to |
|---|---|---|---|
| main loop (`rr2sp_gateway.py` 290-327) | socket, `Status`, two due times | connect; publish list, statistics, values, status; save the cycle | PLC by TCP, broker by paho's queue, scanner by calls |
| MQTT thread (`on_message` 79-113) | none | `append`, `remove`, `modify`, `poll`, `list`, `stats` | the same scanner, without a lock |
| `RegisterScanner` (`scan_list.py` 604-853) | `registers_to_scan`, `changed`, `stats_to_publish` | the six commands, `list`, `stats_as_dict`, `scan_all` | its entries |
| `RegisterScanEntry` (132-601) | `next_scan`, `period`, `length`, `request`, `type`, last values, statistics | `scan_as_*`, `get_raw_value`, `reconfigure`, `invalidate`, `update_next_scan` | the socket |
| SLMP (`slmp.py`) | none (a table of devices) | build a request, decode a response, parse and format addresses | - |
| `Status` (116-245) | times of the phases, window of cycles | `done`, `save_last`, `means` | - |
| scheduling client (`scheduling_mqtt_client.py`) | a label per monitored register | classify a value, command a period on agreement | broker; two threads of its own |
| mock PLC (`mock_plc.py`) | registers, one connection a port | answer read and write requests, simulate a plant | gateway, `plc_write.py` |
| the rest | - | configuration loader, two subscribers, generator, writer, scripts | - |

What is hard about it:

* *Two threads and no lock.* Commands run on the MQTT thread while the main
  loop iterates over the list, reads the entries and clears the flags.
* *A stream without names.* A response carries nothing that says which request
  it answers, requests are repeated after a timeout or a response that does not
  decode, the socket is not drained in between, and a `recv` returns whatever
  piece of the stream the network has brought.
* *Time.* Two threads write `next_scan`; a scan can be late; period 0 means
  never.
* *Failure.* Resets leave a pass, a cycle and a record of times half done.
* *Several programs.* The scheduler acts on values that are on their way, with
  commands that are on their way, and both programs and the broker connections
  come and go.

What makes the parts correct: a value is published under the address it was
read from (link); what subscribers were told is the list is the list, and a
request for it is answered (gateway); scans keep their times and commands are
not lost (entry); what was written to a register is what is published under its
address (reading); clients of the mock are answered with words their registers
held (mock); the period follows the labels (scheduler); the status speaks of
cycles that were (status). `PROJECT.json` lists the hazards line by line with
the properties that cover them.

## 2. The modules

| module | models | refined or composed |
|---|---|---|
| `RegisterFeed` | the promise of a reader: a reading is a value the entry held during its own read | abstract |
| `SlmpLink` | connection, pass, send, receive and retry; the PLC's side of the connection | implements `RegisterFeed` |
| `MeasuredLink` | the same with the statistics, the last values and what subscribers have been sent | extends `SlmpLink` |
| `Gateway` | the cycle's list and statistics phases, the iteration of a pass, the commands | - |
| `ScanEntry` | one entry in time: scan, poll, modify | - |
| `DeviceAddress`, `SlmpFrame`, `RegisterValues` | operators: addresses, frames byte by byte, conversions of words | - |
| `EntryReading` | one entry from its address to its topics, against the mock and `plc_write` | composes the three |
| `MockPlc` | ports, registers, clock and plant of the mock, with the gateway and `plc_write` as its clients | - |
| `Scheduler` | scheduling client, broker and gateway | - |
| `CycleStatus` | `Status` and its calls | - |
| `MC*` | instances for TLC | |
| `*Proofs` | theorems | |

**SlmpLink.** `pc` is where the main thread is; `Connect`, `Send`, `Receive`,
`ReceiveRest`, `Timeout`, `ReceiveNothing` are the calls on the socket, each
with what the code does after it. `conn` is the connection as the gateway's
kernel knows it: `eof` after the peer's FIN, `reset` after a RST that no call
has reported yet, `dead` when the next send raises `BrokenPipeError`. `toPlc`
and `toGateway` are the two directions of the byte stream. The bytes of a reply
are counted in cells, each with the reply it is of and its place in it; `Full`
cells are the 1420 bytes after which the code calls `recv` again. A `recv`
returns a prefix of the stream that stops where a reply ends or after a number
of its cells that is in `Cuts` (`Received`), so it may return a piece of a
reply, several replies, or several and a piece. `response` keeps the first 1420
bytes. `Decode` is what becomes of what the receives have got: decoded
(`Acceptable`); refused, and asked for again; or, when a piece from the middle
has words at the offsets of the header that are what the decoder expects there
(a value in `Lookalikes`), taken for values of nobody (`Misread`). `strays`
counts the decoded pieces that did not have the end of their reply, whose rest
is still to come: `MaxStrays` bounds them. `MaxBehind` is how much may be on
its way when a receive times out: 0 is a PLC that answers in time or never.
`CutsAsExpected` says that the network cuts replies after 1420 bytes or not at
all, which is what line 574 takes for granted. `seen` is a history variable,
what the entry has held since its read began.

**MeasuredLink.** Each action of `SlmpLink` with what `RegisterStats`,
`last_values` and the publication do in it, by conjunction. A response time is
abstracted to the request it counts from: `newest` is a history variable that
follows the newest request through the stream, so that a sample can say whose
answer it timed (`OfNewest`). `lost` names the reads an exception has taken along.

**Gateway.** The unit of interleaving is what one thread can do between two
points where CPython may switch threads: an assignment, a row of `list()`, a
turn of the loop in `scan_all`. So `append` and `remove` are a change of the
list and then the flag, `modify` is the length, then the period, then the flag;
`list()` reads the fields of a row one after the other. (`ListEnd` is one step:
no bytecode at which CPython 3.10 and later switch threads lies between the end
of the iteration and the clearing of the flag. README of the repository:
Python 3.10+.) `PublishListLost` is the message the broker does not deliver
(QoS 0). The history variables `missed` and `shifted` name exactly the
situations in which publication and coverage fail: a change to a row already
read, a message lost, an entry popped under the iterator, a `reconfigure` that
raised.

**ScanEntry.** `due` is `next_scan - now`. `Visit` to `Expand` are the reads and
writes a scan makes of the entry, in their order; `Poll` and the four steps of
`modify` fall anywhere between them. `SendRaises` is the exception that leaves
the pass. `SetClockBack` moves the wall clock `next_scan` is compared with, up
to `MaxBack` in all (`back`). `WORD` stands for all types but `BIT_R`, whose
expansion is the only one that reads `self.length` again.

**DeviceAddress, SlmpFrame, RegisterValues, EntryReading.** The operators are
the conversions of `slmp.py`, of the mock's half of the protocol and of the
`scan_as_*` methods, with bytes as numbers and the table of devices (in
`DeviceAddress`) as it is in `slmp.py`, less the five that have no symbol.
`EntryReading` makes an entry of every device, type and length at the numbers
where the bases turn over, builds the rows `generate_scan_list.py` writes for
them in both modes, lets `plc_write` write through the same frames, and scans:
the reply it hears is the mock's, a refusal, or one that is cut, long or of a
write. `meant` is a history variable, what each register of the entry should
hold, one bit for each register of a bit device: so a property can compare what
was meant for a register with what is published under its address. On a bit
device mock and gateway do not agree: the mock keeps a word per register number
(`mock_plc.py` 208, 225), the gateway takes each word of a block for 16
registers (`slmp.py` 313-316). A word that `plc_write` sends to the first
register of an entry is where the gateway looks for it; one sent to M1 of an
entry that starts at M0 is kept under the name M1, which the gateway takes for
M16 to M31. `misplaced` is set by exactly such a write, and from then on the
properties ask for what the mock holds.

**MockPlc.** A server thread a port: `Accept`, `ReceiveRequest`, `ReadWord` once
a register, `WriteWord`, `Respond`, `EndOfStream` with the `finally` clause in
`Release`. `ClockTurn` and `SimulationTurn` are the two other threads. A client
is queued by `connect()` before it is accepted, which is why `plc_write` can
have sent its request to a port that is somebody else's. The plant is the
integer part of its state; `Between` is all that the update rule guarantees of
one turn. The history variables `held`, `alone` and `acked` record what each
register of a request has held since it came, and which acknowledged writes no
one has overwritten. Stopping the mock is the end of a behaviour here and a
reset in `SlmpLink`.

**Scheduler.** Main thread: subscribe and add the handler for each monitor, then
the command of `N`. Network thread: `Deliver`. The gateway is reduced to the
period of its entry and the values it publishes; its own behaviour is the
subject of the other modules. Both connections to the broker can be lost.
`link` is the gateway's: its client has no name, so that its session is a clean
one, and `on_connect` subscribes again; in between the broker has nobody to
send a command to (`LoseCommand`), and what was on its way to the gateway when
the connection broke is lost the same way. `Reconnect` is the scheduler's, whose
`on_connect` does not subscribe. `undone` names the three events after which the
period does not follow the labels until a label changes: a restart of the
gateway, the command of `N` at the start, and the loss of the newest command.

**CycleStatus.** `phase` is where the main loop is among its calls of `done`;
`ConnectionReset` leaves the scan phase as the exception does. Means are sums,
and relative means shares of `Whole`, a multiple of every total in the run, so that
the division is exact.

## 3. The runs

| run | question | bounds | states |
|---|---|---|---|
| MeasuredLink | refinement, statistics, what subscribers know, when replies are in time and cut as expected | 2 entries of one length, 3 cells cut after 2 or coalesced, 2 values, one a lookalike, 2 tries, windows of 2 | 762 k |
| SlmpLinkLate | attribution by length, backlog, passes that end, when they are late and cut anywhere | 2 entries of different lengths, 1 and 4 cells, 1 value, 2 behind, 2 pieces taken for responses | 203 k |
| SlmpLinkShifted (violated) | attribution when they are in time, of one length and cut elsewhere | 2 entries of 4 cells, cut after 3 where the code expects 2 | |
| GatewayCommands | publication, coverage, no repeated rows, answers | 2 addresses, 2 lengths, one not encodable, 2 periods, 3 commands, lost messages | 2.1 M |
| GatewayStaleList (violated) | publication without the named exceptions | | |
| ScanEntryTimes | times, shape, polls, rescans | periods 2, 3, never; up to 4 units late; the clock 1 unit back | 2.0 M |
| ScanEntryLostPoll (violated) | polls as the README promises them | | |
| EntryReading | addresses, the generator's rows, frames and values from end to end | every device, 6 numbers, all types, 1 to 3 words, writes to the first 3 registers | 75 k |
| MockPlc | words, writes, ports, answers, the plant | 2 ports, a reader, a writer, words 0 and 1, a gain of 2 | 420 k |
| SchedulerPeriods | the period follows the labels, values are heard | 2 registers, 3 bands, restarts, both connections lost | 243 k |
| SchedulerStart (violated) | the period without the named exceptions | | |
| CycleTimes | window and means | a window of 2, a clock to 4 | 606 k |

Why the bounds are enough: one late reply, or one piece taken for a response,
needs two entries and one retry, and a third entry repeats what the second does;
4 cells with the code's boundary after the second contain a cut before it, at it
and behind it, and a reply in four pieces; none of the properties of
`SlmpLinkLate` looks at a value, so that one is enough there; a second piece on
one connection finds the rest of the first before it; a write to the second or
third register of a bit device is one that mock and gateway disagree about, and
those further on are no different; a window of 2 loses its oldest
sample with the third; a list race needs one command within `list()` and one
after it, and the third command makes duplicates and their removal possible; a
period of 2 against one of 3, with a scan up to four units late, contains a
late scan that catches up over two periods; a clock one unit back is enough to
put off what was already due; two ports are the least at which two threads of
the mock share a register, and one writer behind the reader the least that
waits for a port; the largest word is 1, so that with a gain of 2 the output
and, one second after the start, the clock outgrow it; two registers are the
least that can disagree, and two commands on the way the least that can
overtake; a window of 2 cycles has a first fill, a row that enters and a row
that leaves. Every bound is a constant of its module, named as a bound.

Deadlock is checked where the program runs for ever (`Gateway`, `Scheduler`,
`CycleStatus`) and not where the model stops: because the
process has ended (`SlmpLink`, `ScanEntry`), because a scan may not get later
than the bound (`ScanEntry`), because no scan is
made of an entry that could not be addressed (`EntryReading`), or because a
bound holds back the only client that could move (`MockPlc`).

Each property is also run against a plausible bug: an operator next to the
definition it would replace, marked as its mutant (`PROJECT.json`, "mutants").
Those operators are used nowhere else.

The violated runs are findings: the code does something that one of its
documents, docstrings or comments excludes. Each has a sibling run in which the
same property holds with the situation named as its exception, or with the
constant that excludes it (`MeasuredLink` for `SlmpLinkShifted`: `ImplementsFeed`
on a network that cuts replies as expected contains `Attributed`; `SlmpLinkLate`:
different lengths) - so that the finding is the whole of it.

### Fairness

* `SlmpLink`: the main thread runs when it can, and the PLC answers or ignores
  what it was sent. A reset, a refusal, a write is owed by nobody, and
  `PassesComplete` says what happens when they come for ever. `MeasuredLink` is
  checked for safety only, and adds none.
* `Gateway`: the main loop never waits for a command; a command that has begun
  ends. Both are threads of a running process that block only on the socket,
  for at most the timeout. A publication may be lost every time.
* `ScanEntry`: the same, and strong fairness of `Send`: the connection is not
  lost at every single send for ever. Time goes on (`Tick`), so that what a
  clock set back has put off comes due again.
* `MockPlc`: each server thread runs when it can, turns of the simulation add up
  to what its integer part shows (the difference to the target shrinks by a
  constant factor a turn), and a `plc_write` whose answer is there receives it.
  No client has to connect, send or leave: that a writer behind the gateway is
  served is owed only once the gateway has left.
* `Scheduler`: both programs run, the broker delivers what it has, and each
  register is published again and again (its period is not 0). A gateway that is
  connected subscribes (`OnConnect`); a reconnection is owed by nobody, since
  the broker may stay away, and so `ValuesAreHeard` asks for a gateway that is
  connected for good from some time on: a connection that is lost after every
  message delivers nothing.

## 4. The proofs

| theorem | says | for every |
|---|---|---|
| `SlmpLinkProofs!TypeCorrect` | types, attempts, pass | constants |
| `SlmpLinkProofs!AttributedByLength` | `Attributed` | list of different lengths, delay, network, if no value is a lookalike |
| `SlmpLinkProofs!AttributedInTime` | `Attributed` | list, with `MaxBehind = 0` and `CutsAsExpected` |
| `SlmpLinkProofs!TimelyImplementsFeed` | refinement of `RegisterFeed` | list, with `MaxBehind = 0` and `CutsAsExpected` |
| `SlmpLinkProofs!BacklogBoundedHolds` | `BacklogBounded` | list, delay, network |
| `SlmpLinkProofs!NoStrays` | `strays = 0`: no piece of a reply is taken for a response | list, delay, with `CutsAsExpected` |
| `MeasuredLinkProofs!MeasuredIsLink` | every behaviour of `MeasuredLink` is one of `SlmpLink` | constants |
| `MeasuredLinkProofs!MeasuredImplementsFeed` | refinement of `RegisterFeed` | list, with `MaxBehind = 0` and `CutsAsExpected` |
| `MeasuredLinkProofs!SubscribersKnowHolds` | `SubscribersKnow` | list, delay, network |
| `MeasuredLinkProofs!MeasuredHolds` | `MeasuredOnItsRequest` | list, observed entries, window, with `MaxBehind = 0` and `CutsAsExpected` |
| `GatewayProofs!TypeCorrect` | types | constants |
| `GatewayProofs!PublicationCorrect` | `PublicationInv` and `PublishedIsCurrent` | list, commands, any number of them, messages lost or not |
| `GatewayProofs!PassCovers`, `NoEntryTwiceHolds`, `AppendsAreNewHolds` | `PassesCoverTheList`, `NoEntryTwice`, `AppendsAreNew` | list, commands, any number of them |
| `ScanEntryProofs!TypeCorrect`, `NeverPutOffHolds`, `NoDriftHolds`, `OnlyOnRequestHolds`, `RescanStandsHolds`, `ReadInOneShapeHolds` | the invariants of their names | periods, lengths, jitter, tries, clocks set back |
| `SchedulerProofs!TypeCorrect`, `PeriodFollows` | types, `PeriodFollowsLabels` | registers, bands, channel bounds, faults |
| `CycleStatusProofs!TypeCorrect`, `RowsInOrderHolds`, `RowsAgreeHolds`, `CyclesInOrderHolds`, `MeansSplitTheTotalHolds` | the invariants of their names | window, clock |
| `MockPlcProofs!TypeCorrect`, `WordsWereHeldHolds`, `AckedWriteStandsHolds` | the invariants of their names | ports, clients, registers, words |
| `EntryReadingProofs!AddressesParseHolds`, `OnlyFromItsAnswerHolds`, `ValueOfItsRegisterHolds`, `SignKeptHolds`, `EveryRegisterPublishedHolds`, `GeneratedRowsReadHolds` | the invariants of their names | register numbers and lengths that a request has room for, words, and each device of the table |

The assumptions are the named `ASSUME`s of the modules (a positive number of
tries, periods that are positive, ascending thresholds, ...) and the hypotheses
in the theorems' statements. Those of `EntryReading` are what `pack()` can pack:
no length past 32765 words, no register number past 32 bits.
`ValueOfItsRegisterHolds` has its exception in the property (`misplaced`, above).
The arguments:

* *Attribution by length* needs only that what enters the batch passed
  `Acceptable`. *Attribution in time* rests on an invariant over both queues
  (`InTime`): what is in them is one reply to the entry being read or the rest
  of one, with a value in `seen`, and nothing is in them outside a read. A
  `recv` then stops at the end or after `Full` cells (`StopInAnswer`), so that
  no attempt ends with a rest behind it. *Refinement* follows: each action maps
  to an action of `RegisterFeed` or to a stutter.
* *The backlog* does not grow on its own (`QueueInv`): a connection that has
  ended has no request under way; an attempt that ends by decoding has taken the
  end of a reply off the stream (`ReceiveDrops`) or is counted in `strays`; one
  that times out leaves at most `MaxBehind`; and a request that is answered adds
  one reply (`CountAnswer`). *No strays* is about the shape of the stream
  (`StreamInv`): replies follow each other cell by cell, what is to be received
  next is the start of a reply or the cell after the 1420 bytes, and the second
  `recv` finds the rest that the first one left.
* *What subscribers know*: `Told` adds to `SubscribersKnow` that the batch holds
  last values only, of entries the pass has left behind; so an entry that is
  read is not in the batch, and the value the step adds is the one it records.
* *Response times*: `Newest` says that a request on its way is the newest one,
  and that so is the one that what has come back answers, but for 1420 bytes
  whose rest a reset has taken - which are never decoded alone. `Timed`
  adds that a request that waits for its response has been counted and its
  response has not, so that no window overtakes the other. Both rest on
  `InTime`, carried over from `SlmpLink` by `MeasuredIsLink`.
* *Publication*: `PublishedIsCurrent` is not inductive, since `list()` builds the
  list long before it is published. `PublicationInv` says for each of the three
  places the rows can be (being read, built, published) which prefix of the list
  they agree with, under the exception `missed`; and that no entry is in the
  list twice, so that a change touches one row.
* *Passes*: `PassInv` says of an iterator that what is behind it has been visited,
  and that nothing ahead of it has; a removal under it moves entries from ahead
  to behind, which is `shifted`, and never back. *Appends*: `find()` returns the
  least index that matches, so that it returns none only if no row matches.
* *Times*: an entry stays due while it is being read (part of `TypeOK`), because
  nothing but the scan itself puts `next_scan` off. `OnlyOnRequest` and
  `RescanStands` are strengthened to `Disabled` and `Standing` in their module.
  *No drift*: `due + age` is a multiple of the period, and stays one modulo the
  `Wheel` the age is counted on (`OnGrid`).
* *Scheduler*: the last command on the way, or the period itself when none is,
  belongs to the label of the last change. Taking or losing a command that is
  not the last changes neither (`NewestStays`); losing the last, or a restart
  when none is on the way, is `undone` (`LossFollows`, `RestartFollows`).
* *Window*: the phases already recorded in the running cycle are in order and
  after the rows of the window; a reset throws the cycle away before it is saved.
  *Means*: the sum of a column is additive (`SumOfTwo`), and the share of each
  phase is exact since every total divides `Whole`. That a recursive sum has its
  properties for every length of the window is shown by the least length for
  which it would not (`LeastNatural`).
* *The mock*: a connection is at one place - in the queue of one port, served by
  one port, or nowhere (`Places`); a thread that reads has the words of the
  registers before the one it is at (`Working`); a write that is on its way to
  the memory or whose answer is on its way back is the one its client waits for
  (`Carried`).

* *Addresses*: `Numeral` and `Number` are recursive functions; that one undoes
  the other (`NumeralSpells`) is shown by the least number for which it would
  not (`SetInduction`). A plain name has no letter before its last that could be
  taken for a digit, so the parser's shortest name is the right one
  (`ParseOfPlain`). A name that is not plain ends too early, at its first such
  letter - and, by the table, whatever shorter name that leaves has decimal
  numbers, of which the letter is not one (`NameThatIsLeft`, `ParseOfOthers`).
* *Bytes*: each field of a request or an answer is found at the offset it was put
  at (`FrameAsks`, `AssembledAnswers`), and two bytes are one number again
  (`Packing`, `PackedBytes`). A refusal differs in the end code, an answer of
  another length in the length it announces, and pieces or pairs in the length
  they have (`OtherAnswers`, `OthersDoNotDecode`, `PiecesDoNotDecode`).
* *Values*: the inductive invariant `EInv` says that the mock holds the entry's
  registers and no others, that each holds what it was meant to unless a word
  has been misplaced (`MeantIsHeld`), and that a scan that heard its answer has
  published just what the held words spell (`Shown`). The rest is about `Shown`:
  each conversion gives back its words (`ShownSpells`), and as the address of
  register k is read back as register k, no two values share a topic
  (`TopicsApart`).

Every safety property that a passing run checks is stated by a theorem.
Model-checked only are the liveness properties - `PassesComplete`,
`RescansHappen`, `ValuesAreHeard`, `HandedOver`, `FollowsInput` and the two
called `RequestsAnswered` - since fairness and ENABLED are out of the provers'
reach; and the four properties that are violated, which TLC refutes.

## 5. Findings and observations

Findings, with a run each: after a reply that the network has cut anywhere but
after 1420 bytes - or one that came later than the timeout - values are
published under the wrong register, though the PLC answers in time
(`SlmpLinkShifted`): the first piece is refused and asked for again with its
rest still on the stream, so that the next entry receives the answer to the
repeated request; a change during `list()` is never published
(`GatewayStaleList`); a `poll` during a read is forgotten (`ScanEntryLostPoll`);
the scheduler's first command can overtake a label (`SchedulerStart`).

Observations without a run of their own. In the models, as steps or as named
exceptions of properties:

* `scan_list.py` 568: `send` stands outside the `try`. `BrokenPipeError`, after
  the PLC has closed its end, ends the process (`Send` with `conn = "dead"`;
  `PassesComplete` excepts it), and so does a PLC that refuses the connection
  (`ConnectRefused`).
* 217-219: a `modify` with a length that does not fit the request leaves the
  entry asking for one length and expecting another (`Resized`; part of
  `missed`).
* 360: a `modify` that lengthens a `BIT_R` entry between its read and the
  expansion ends the process with an `IndexError` (`Expand`; `Alive`).
* 197: an entry added with period 0, documented as disabled, is read once
  (`Init`; `cause = "added"` in `OnlyOnRequest`).
* 178, 222: a type given as the string `BIT`, by the CSV file or a command, is
  not `RegisterType.BIT`: an entry on a word device that was meant to be
  expanded into bits is published as a word (`TypeOf`).
* 576: the `b''` of a connection that has ended is recorded as a response of no
  bytes (`MeasuredReceiveNothing`); the first read always counts as a change of
  value, `last_values` having twice as many zeros as the entry has registers.
* `slmp.py` 501: FD, RD, TC, LTC, STC, LSTC, CC, LCS, LCC and LCN are in the table
  and cannot be addressed, since A to F are taken for digits
  (`AddressesParse`: exactly the devices that are not `Plain`).
* `rr2sp_gateway.py` 75, 283: the gateway's session is a clean one, so that
  commands that reach the broker while the gateway is away are lost, and the
  scheduler, whose labels have not changed, does not send them again
  (`LoseCommand`; `undone`).
* `mock_plc.py` 208, 225: the mock keeps a word per register number of a bit
  device, where the gateway reads 16 registers from each word
  (`misplaced`; excepted in `ValueOfItsRegister`). Which of the two a real
  station does is not said in the repository.
* `scheduling_mqtt_client.py` 196: no subscription after a reconnection with a
  clean session (`Reconnect`; excepted in `ValuesAreHeard`).
* `rr2sp_gateway.py` 315: the first status is published before the first cycle
  has been saved, from the values the constructor fills the window with, so
  that its relative times are all 9999 (`PublishStatus` while `firstSave`).
* `mock_plc.py` 93: `int()` cuts off, so a plant that comes from below stays one
  under K * u for good (`FollowsInput` allows the unit). 204: a device code the
  mock does not know reads and writes D registers. 211: once SD518 or D100 is
  past 65535, no read that covers it is answered (`Unpackable`).
* `plc_write.py` 35: a write that waits behind the gateway is carried out when
  the port is free, even if `plc_write` has been interrupted since
  (`Closes` leaves what was sent).

Seen while reading, in code the models do not reach: `read_from_file` compares
the length of a row with the largest column index (`>=`, line 697), so a row
one short raises `IndexError` where a debug message was meant; `validate`
accepts a `number_of_bytes` of 3, which `SlmpProtocol` refuses; `mock_plc.py`
195 cannot pack the length of 32767 points or more, and does not answer them;
`generate_scan_list.py` in mode `separate` makes DWORD and FLOAT rows of length
1, which publish nothing, and rows of bit devices that overlap, since each reads
the word that begins at its bit (named as an exception in `GeneratedRowsRead`).

## 6. What is not modelled

* Configuration, the CSV file, the two subscribers, the scripts and the broker's
  access rules: sequential, or without state a decision depends on. The
  constants' assumptions are what `validate` checks.
* What `get_stats` computes from the windows of samples, and the JSON of
  messages.
* The arithmetic of IEEE 754: a FLOAT is its two words, the plant its integer
  part.
* Messages other than the list that the broker loses between the gateway and a
  subscriber, except those lost with either connection: they are values, and the
  next scan makes up for them. Commands of the scheduler that are lost with the
  gateway's connection are modelled (`Scheduler`); those lost with the
  scheduler's own are not, since they have QoS 2 and are sent
  again, in their order: one that comes twice sets a period again before the
  newer ones do.
* How the cells of a reply are cut within a cell: a cell has a size of its own,
  and only whether a piece has the 1420 bytes, the start or the end matters.
  That the words of a piece can be mistaken for a header is a property of the
  value (`Lookalikes`).

## 7. Plan

Done, in this order: the link and its feed, the two threads, the entry in
time, the scheduler, the status; then frames and entries from end to end, the
mock, the statistics and the theorems about all of them, a clock that is set back,
lost lists, relative means, the generator's rows.

1. A composition of `Gateway` and `ScanEntry`: polls that reach an entry by its
   position while a pass runs over the list, duplicates included.
2. The rows of the CSV file, as operators.
