# Verification of the Mecatica USB core

TLA+ models of the USB-2 device core in this repository and of the Python scripts that
generate its descriptors, TLC configurations that check them on small instances, and proofs
(TLAPS) about them for every instance.

    tlc -workers 2 -config BusMasked.cfg MCUsbBus.tla      # one of the runs below
    tlapm UsbBusProofs.tla                                 # the proofs: this module,
    tlapm UsbBusInpProofs.tla                              # this one (some minutes)
    tlapm UsbBusOutProofs.tla                              # this one (some minutes)
    tlapm DescContextProofs.tla                            # this one
    tlapm ExampleDevProofs.tla                             # this one
    tlapm StdCtlEpProofs.tla                               # this one (some minutes)
    tlapm StdCtlAnswersProofs.tla                          # this one (some minutes)
    tlapm LineStateProofs.tla                              # and this one

`PROJECT.json` lists components, runs, mutants (a plausible slip of the code for each
property, which TLC must notice), the lines every definition stands for, the hazards of
the code and the findings.

## The system

The core is synchronous VHDL. Its parts are processes on one clock that exchange
records of signals; a *stream* (`Usb2StrmMstType`, `Usb2StrmSubType`) has `vld`/`dat`,
`don`, `err` one way and `rdy` the other.

| component | state | operations | talks to |
|---|---|---|---|
| `UlpiIO`, `UlpiIOBuf` | transmit/register state, input registers | drive TX and register commands, follow DIR/NXT of the PHY | PHY, `Usb2PktTx`, `Usb2PktRx`, `UlpiLineState` |
| `UlpiLineState` | run state (FS, HS, chirp, suspend...), timers | reset detection, chirp, suspend, resume, wakeup | `UlpiIO` registers, `Usb2StdCtlEp`, `Usb2PktProc` (speed) |
| `Usb2PktRx` | receive state, token register, CRC, 2-byte pipe | split received bytes into headers and payload | `Usb2PktProc` |
| `Usb2PktTx` | transmit state, CRC | PID, payload, CRC, underrun, abort | `Usb2PktProc`, `UlpiIO` |
| `Usb2PktProc` | engine registers, data toggles, retry buffer, reader | transactions, handshakes, retries, OUT delivery | all endpoints, receiver, transmitter |
| `Usb2StdCtlEp` | control transfer state, device state, configuration, halts | standard requests | `Usb2PktProc` (status and streams of endpoint 0), external agents |
| `Usb2EpGenericCtl`, `Usb2MuxEpCtl` | agent selection, parameters | class requests | `Usb2StdCtlEp` |
| `Usb2Fifo`, `Usb2FifoEp`, `Usb2MboxSync` | pointers, frame headers, timer, triggers | buffering, framing, clock crossing | endpoints and user logic |
| CDC ACM, ECM, NCM, audio | per function | line notifications, break, NCM blocks, rate feedback | FIFOs and control |
| `Usb2Desc.py` | list of descriptors, string table, `wrapped` | create, name, clone descriptors, `wrapup()`, add functions, emit the table | scripts that use it; `Usb2AppCfgPkg` through the table |
| `genAppCfgPkgBody.py`, `ExampleDevDesc.py` | YAML settings, output file | validate, build, write | `Usb2Desc.py`, `Usb2ExampleDev.vhd` through the table |
| `Usb2DescPkg` | - (functions of the table) | search and count descriptors | `Usb2StdCtlEp`, all functions |
| FS/LS emulation, loggers, example software | - | bit level, debugging, boards | - |

What makes them hard, and what makes each one correct:

* **Packet engine.** The wire loses and damages packets; the PHY aborts transmissions at
  any byte; one buffer serves all endpoints, holding an IN packet until its
  acknowledgement, or OUT data on the way to the reader; framed and unframed streams,
  zero-length packets, halts, PING/NYET. Correct: each direction of each endpoint is a
  reliable ordered stream; toggles of host and device agree; the buffer is released only
  after receipt, never mixed, and eventually released; the device answers.
* **Transmitter and ULPI.** NXT/DIR of the PHY at any cycle, aborts, register operations
  competing with packets. Correct: bytes on the bus are the packet, once, in order; an abort
  is reported once; no register operation is lost.
* **Line state.** Timers against line changes. Correct: no transmission while
  suspended or in reset; a speed is reported only after its chirp; resume returns to the
  speed before.
* **Standard control endpoint.** SETUP in any state, early status, lost status, external
  agents. Correct: a request is executed at most once and never from mixed
  parameters; the address changes after the status stage; halts and toggles change together.
* **Descriptors.** Indices, counts, lengths and numbers are computed in one program from
  a list that scripts build in any order, and read back by searches in another language.
  Correct: the searches find what the settings asked for, with both sides numbering alike;
  strings keep their indices; a failed run leaves nothing that passes for a table.
* **FIFOs and clock crossing.** Two clocks, resets of one side, headers written after
  their frame. Correct: a queue of frames; nothing is stuck; a word is never torn.
* **NCM, ACM.** Pointer and length arithmetic, timers. Correct: blocks parse back to the
  datagrams; a break ends when it should.

## What is modelled now

| module | models |
|---|---|
| `PktProc` | `Usb2PktProc.vhd`: the engine's state machine, the reader, the buffer |
| `UsbBus` | `PktProc` with a host, a wire, a PHY that aborts, the endpoints' streams; the properties |
| `InpPipe` | what the core promises for IN transfers: a reliable pipe per endpoint, one packet in flight |
| `MCUsbBus` | the scenarios TLC explores |
| `UsbBusInv` | the scenarios whose faults the IN direction masks, those in which every transaction is answered, and the inductive invariants that show it |
| `UsbBusOutInv` | the same for the OUT direction and the toggles |
| `UsbBusProofs` | theorems about `UsbBus`: types, buffer and PID discipline, answers |
| `UsbBusInpProofs` | theorems about the IN direction, `InpPipe` among them |
| `UsbBusOutProofs` | theorems about the OUT direction and the toggles |
| `StdCtlEp` | `Usb2StdCtlEp.vhd`, with the host, the agents and other traffic on the bus |
| `MCStdCtlEp` | a device and its host for TLC |
| `StdCtlInv` | what is assumed of a table and a host, and the inductive invariants |
| `StdCtlEpProofs` | theorems about `StdCtlEp`: types, the course of a transfer |
| `StdCtlAnswersProofs` | theorems about what the host can rely on: settings and answers |
| `LineState` | `UlpiLineState.vhd`, against any bus and any PHY |
| `LineStateProofs` | theorems about it |
| `Usb2Desc` | `Usb2Desc.py`: descriptors, context, `wrapup()`, as operators |
| `DescContext` | a script that calls them in any order; the properties of a context |
| `MCDescContext`, `DescContextProofs` | values for TLC; the theorems |
| `Usb2DescFcn` | `Usb2Desc.py`: the functions (ACM, ECM, NCM, audio, BADD) as operators |
| `ExampleDevDesc` | the generator of the example device, run after run |
| `Usb2DescPkg` | `Usb2DescPkg.vhd` and the wiring of `Usb2ExampleDev.vhd`: searches over a table |
| `ExampleDev` | generator and firmware together; the properties of the table |
| `MCExampleDev`, `ExampleDevProofs` | the YAML files; the theorems |

`StdCtlEp` takes its table from `Usb2Desc` (in `MCStdCtlEp` it is written out, and an
assumption says that it is what `wrapup` yields) and reads it with
`Usb2DescPkg`; `ExampleDev` joins `ExampleDevDesc` with `Usb2DescPkg`. Thus the generator, the
searches and the control endpoint are the same definitions wherever they appear.

**`PktProc`.** `r` is the register record `RegType`, `rd` is `BufReaderType`, `mem` the packet
buffer. `r` keeps the code's names. It has no timers: `timer` and `se0JTimer` become
actions that happen when a timer may have expired, and of `retryTimeout` only
`retryExpired` is kept (it is never counted down, see *Findings*, so once loaded it
does not expire). Single bits per endpoint are functions or sets.
The states of the code map to actions like this:

| VHDL state | actions |
|---|---|
| `IDLE` | `Idle` = `IdlePing`, `IdleInpRefuse`, `IdleInpReplay`, `IdleInpZlp`, `IdleInpFresh`, `IdleOut`; `IdleRetryTimeout` |
| `DATA_PID` | `DataPidDrain`, `DataPidStore`, `DataPidOther`, `DataPidTimeout` |
| `DATA_OUT`, `DRAIN` | `RxData` |
| `DATA_INP` | `DataInpByte`, `DataInpDry`, `DataInpDon`, `DataInpAbort` |
| `DATA_REP` | `DataRepByte`, `DataRepAbort` |
| `WAIT_TX`, `WAIT_DON`, `WAIT_FS_*`, `WAIT_ACK`, `HSK` | `WaitTx`; `WaitDonTx`, `WaitDonAbort`, `WaitDonNext`; `WaitFs`; `WaitAck`, `WaitAckTimeout`; `Hsk` |
| reader | `Reader` (delivers the registered item, computes the next) |

A step is one reaction of the code rather than one clock: a received payload is
one step, because nothing of it is visible before its last byte (the reader stops at
`bufVldIdx`); a transmitted packet takes a step per byte because the PHY may abort between
two of them. The read-ahead of a replay (`bufRWIdx` one word ahead, `tmp`, `tmpVld`) is
kept in the index, since a bug sits there, and dropped from the data path. The cases
of `DATA_INP` depend on the transmitter: while bytes go out it may take the marker at once
(`rdy`), otherwise at the end of the packet (`don` without `err`); both are in `DataInpDon`.
The device is addressed and configured; `mine` stands for the address and
endpoint tests of `checkTokHdr`.

**`UsbBus`.** The host and the wire are not in the repository. The host is the one of USB 2.0
chapter 8 that the engine relies on: it alternates toggles, drops repeated data, repeats
what was not acknowledged, uses PING after NYET and NAK at high speed, and resets toggles
with SETUP and with the clearing of a halt. A lost packet costs it the transaction. What
`Usb2PktRx` contributes is modelled by `Hdr` and `SendTok`: a header comes with the content
of a token register that only tokens, SOFs and damaged tokens refresh. Its histories are what the properties speak of: `offered`, what
an endpoint has offered so far, `rcv`, what the host got of it, `sent`, what an endpoint must see of the packets
the host knows to be acknowledged, `out`, what it saw, and the counts of faults and of transactions
without an answer. `InpFaithful` says
that the host has a prefix of what was offered, `OutFaithful` that an endpoint saw a prefix of what was sent,
the packet being sent included. Endpoints obey the rule at `Usb2Pkg.vhd:267-274`: a
burst they offer is available as a whole, and `rdy` promises room for a packet.

**`StdCtlEp`.** `r` is the part of `RegType` that outlives a clock; 'parm' collects the eight
bytes of GET_PARAMS, `out` is what a read still has to send. States map to actions:

| VHDL state | actions |
|---|---|
| `GET_PARAMS` | `TakeSetup`; `LoseByte` for what arrives elsewhere |
| `WAIT_EXT`, `WAIT_EXT_DONE` | `AgentRefuses`, `AgentAccepts`; `AgentSends`, `AgentDone` |
| `STD_REQUEST` | `Feature`, `GetConfiguration`, `GetInterface`, `GetStatus`, `SetAddress`, `SetConfiguration`, `SetInterface`, `GetDescriptor`, `OtherRequest` |
| `SCAN_DESC`, `SETUP_CONFIG`, `DEACT_IFC`, `LOAD_ALT`, `LOAD_EPTS` | `LoadAlt`, `LoadConfig`, `DeactIfc` in `SetConfiguration`, `SetInterface` |
| `GET_DESCRIPTOR_SIZE`; `READ_DESCRIPTOR`, `RETURN_VALUE` | `GetDescriptor`; `HostIn` |
| `STATUS` | `StatusOut`, `HostStatusIn` |
| SETUP token (421-438), `tokOutSeen` | `HostSetup`, `HostStatusOut`, `ForeignToken` |

The search states touch nothing another process sees before they end, so a request is one
step. A step of the host is one transaction; that these arrive whole is the business of
`PktProc`. What arrives for the endpoint waits in `queue`, because the packet engine releases a
packet after it has answered the host; a token is seen at once. The host begins a transfer when
the last one is over for it, may stop a read at any packet boundary, give a transfer up, or
reset the bus. Its `belief` is what a host knows from its own requests.

**`LineState`.** A step is a clock, because what can go wrong here is a matter of single clocks: a
line that changes when a timer expires, a request in the clock of a transition. One action per
state of `StateType`, under its name (`FS_RUN` is split into `FsSe0`, `FsIdle`, `FsOther`,
`SUSPEND` into `SuspendEnter`, `Suspend`); `Goto` is a transition that the request
to disconnect (609-614) may override, `WriteReg` one that it may not. Timers keep the arithmetic of
the code: a timer is its count of ticks, 0 when the top bit is clear, and the prescaler runs
freely. The inputs are arbitrary but for what a PHY cannot do: a report needs DIR, an answer
needs a request, and a byte is taken only from a transmission while the PHY does not have the bus.
`phy` is the function control register of the PHY, which survives the reset of the core; `obs`
counts how long the line has been as it is, how long K was driven, and the
changes of the line that answer the chirp.

**`Usb2Desc`, `DescContext`.** A descriptor is its bytes, a string its UTF-16 code units; a
context is the list, the string table and the flag. `wrapup` is a fold over the list with the
local variables of the code, `Unbound` among them; an exception leaves the list as it was at
that point, with the appended device. A call that raises before it changes anything is a
disabled action. `named` remembers which string the script meant.

**`ExampleDevDesc`, `ExampleDev`.** A run goes through `Validate`, `MkDevice`, one
`AddFunction` per function, `NextSpeed`, `Wrapup`, `Open` and `Write`; it ends in `done`, by an
exception, or killed in the middle of writing, and the next run starts over the file that is
left. Functions yield descriptors (`Usb2DescFcn`). The searches of `Usb2DescPkg` are written as
sets of the descriptors a walk visits, with the first or the greatest of them as the
result. The tables that the operators produce were compared once, byte for byte, with those of
the Python code, for 126 YAML files (every function alone and together, speeds, names, settings, no MAC address).

Scenarios. `Scenarios` is a set of records, one chosen in `Init`: the bursts of the IN
endpoints, the packets for the OUT endpoints, the number and kinds of losses, aborts and
halts, and whether packets may outrun the reader. The kinds of faults the engine does not mask
are thus kept apart from those it does, without removing any behaviour of the engine.

## Runs

`UsbBus`: endpoints 0 (control), 1 and 3 (framed), 2 (unframed), packets of up to 2
bytes, a buffer of 8 words, byte counters modulo 4. Every byte sent is different.
Two bytes per packet give empty, short and full packets; transfers of up to three bytes give
one that spans packets and one that is an exact multiple, and three bursts in a row use both
toggle values again; 8 words make the ring wrap within a scenario. Two faults allow a fault
during the recovery from the first. Unanswered
transactions are counted until there is one more than faults: from then on `SilenceIsLoss` has
been violated, and the count adds nothing.

| run | question | result |
|---|---|---|
| `bus_masked` | Nine scenarios: lost tokens, data, acknowledgements, handshakes; aborts; halts; two endpoints competing for the buffer; SETUP between OUT packets. `TypeOK`, `BufferInv`, `PidInv` (proved for all other scenarios as well), `InpFaithful`, `OutFaithful`, `ToggleAgreement`, `ReleaseAfterReceipt`, `BufferExclusive`, and refinement of `InpPipe` (proved for all scenarios of this kind) | holds, 161 500 states |
| `bus_live` | Full speed, fair host. `AllDelivered`, `SilenceIsLoss` (proved for all scenarios of this kind) | holds, 5 800 states |
| `bad_checksum`, `lost_zlp`, `abort_and_loss`, `abandoned` | One scenario each | violated, see *Findings* |
| `std_ctl` | Host, agents, one disturbance. `TypeOK`, `Answers`, `Agreement`, `SettingsLoaded`, `AgentKnows`, `SetupTaken` (proved for every table and host of the assumed form), `Served` | holds, 584 000 states |
| `std_cut`, `std_open` | The end of a read | violated, see *Findings* |
| `line_state` | Every line, aborts, wakeups, disconnects, resets; a PHY that serves in the end. `TypeOK`, `PhyFollows`, `TimesKept`, `SpeedAgreed`, `Settles`, `DisconnectServed` | holds, 156 600 states |
| `desc_context` | Scripts in any order. `TypeOK`, `UniqueStrings`, `StringsStay`, `NamesResolve`, `CountsRight`, `QualifiersRight`, `LayoutAccepted`, `FailureIsFinal` | holds, 1 063 000 states |
| `desc_example` | 136 YAML files, two runs. `TypeOK`, `LayoutRead`, `ReferencesRight`, `ReadBack`, `AudioTopology`, `IsoPacketsFit`, `ExceptionsExplained`, `TableKept` | holds, 31 700 states |

`StdCtlEp`: the device (`MCStdCtlEp`) has one configuration at full speed, with two interfaces,
an alternate setting and three endpoints, and two at high speed with different packet sizes, one
of which allows remote wakeup; endpoint 0 has 8-byte packets at full speed, so that the
descriptors read span packets, end on a boundary, are shorter and longer than asked for. Twenty-two
requests cover every case of `STD_REQUEST`, with values that exist and that do not, and requests
for an agent with and without data. `MaxFaults` = 1 disturbance (a foreign OUT or SETUP token,
or a transfer given up); afterwards,
until a reset, the host is limited to `LateRequests`, a request that loads endpoints, which is
what `SettingsLoaded` is about. `std_open` needs no
disturbance.

`LineState`: two clocks a tick, so that the phase of the prescaler matters, and periods of 2, 2, 8, 9
and 10 ticks, which keep the order of those of the code (2, 12, 120, 306, 506) and what `UlpiLineState.vhd:86`
asks for, that the time for the host's chirps is more than six times that of their filter.
`HeldCap` = 16 clocks is the longest time that a property asks for; it is counted only in the states
that watch the line. The proofs drop all of these bounds.

`DescContext`: `MaxEffort` = 9 descriptors and names, of which at most `MaxNames` = 2 names, and
`MaxStrays` = 1 descriptor out of order, counted thrice. Two complete sections with a
sentinel take seven descriptors; a device with two configurations, one of them with an
alternate setting and two endpoints, takes eight;
two names are the least that share, replace or reorder a string. Descriptors beyond these repeat
the transitions of the fold with the same values of its variables.

`ExampleDev`: every subset of the five functions at each setting of the speeds, every variant
of every function among all the others, Ethernet functions without an address, and files that raise; the second run, over the file of the
first, has one of two (`MaxRuns` = 2: whether a file is there, and whole, is all that a
run depends on).

`InpPipe` is implemented with the mapping `rest` = what the endpoint offers and has not given away
(`src`), `flight` = what it gave and the host has not got, `got` = what the host has got. It says that
whatever the wire does, only one packet is in flight, and it arrives complete or not at
all. Its `Offer` lets the endpoint add to the end of what it offers at any time.

Deadlock checking is on: nothing ever stops, since the host may always send a start of frame
or reset the bus. It is off in `desc_context` and `desc_example`, where scripts end.

**Fairness** (`bus_live`, `abandoned`). Weak fairness of the engine's own steps (it is
clocked, and the reader and the engine run in parallel), of its timers, of endpoints offering
data and becoming ready, and of the host finishing a transaction it began. Strong
fairness of the host starting each kind of transaction it has work for, because a transaction
with another endpoint disables it again and again; a host that polls round robin
satisfies it. No fairness for losses, aborts, halts or SOFs. `AbandonSpec` takes the
polling of endpoint 1 away.
In `std_ctl`, weak fairness of the engine (clocked), of the agents (an agent has to answer, by
`Usb2Pkg.vhd:491-553`) and of a host that goes on with the transfer it has begun; none
for new transfers, disturbances or resets. `Served` says that the endpoint then returns to
`GET_PARAMS`, except where an end of data is missing (finding 6) or a transfer was disturbed.
In `line_state`, weak fairness of clocks in which the PHY has left the bus, acknowledges a register
write without an error and takes a byte (a PHY aborts only for what it has to report, and
`UlpiIO` repeats the request), and of a host that ends its resume signal with either line state;
no fairness for resets, requests, or any other line.

**Timing assumptions.** The host answers and the engine times out as
the constants at `Usb2PktProc.vhd:56-99` intend: the engine does not give up while the answer it
waits for may still come. The reader drains a packet before the next
header (a byte takes a clock to read and several to receive), except with `lag`.

## Proofs

`UsbBusProofs` proves for all constants that satisfy the assumptions in `PktProc` and `UsbBus`
(endpoint 0 is a control endpoint, positive sizes, `MaxPkt < CntMod`, `DON` no byte, `NoPkt`
no endpoint, well-formed scenarios):

* `TypeCorrect`: `Spec => []TypeOK`. `TypeOK` is inductive with one addition: the host is in
  an OUT transaction only while it has a packet left. The proof follows the actions:
  lemmas on the helpers (`WrapIdx`, `WrapCnt`, `InvalidateType`...), on each engine action,
  on each host action.
* `BufferSafe`: `Spec => []BufferInv`, and `PidSafe`: `Spec => []PidInv`. They are conjuncts of
  `EngineInv`, inductive relative to `TypeOK`. What makes it inductive is `Phase`: WAIT_TX
  is a detour, so the discipline is stated of the state the engine will be in after it.
  (`PidInv` needs the OUT states in it, where the PID of the handshake is chosen long
  before it is sent.)
* `SilenceIsLossHolds`: in every scenario that is `Answerable` the host waits in vain at most once for
  each packet the wire lost or the PHY aborted. `Answerable` (`UsbBusInv`) are scenarios without OUT packets,
  whatever is lost or aborted; those with OUT packets if only handshakes are lost; and SETUP goes to
  control endpoints only. With more lost in OUT transactions it does not hold: the engine
  takes the data packet of a lost token for a token (see *Other behaviour* below), and is then a packet behind. The
  invariant is `AnswerInv`: engine and host are preparing, sending or awaiting an answer (`Answering`,
  `Answered`, `Talking`) or at rest (`Resting`), with no fault outstanding (`Even`) or one that still has to cost an
  answer (`Owed`); only in `Unanswered`, which needs one outstanding, does the host give up. A
  transaction after a lost acknowledgement is the reason for `Owed`: its token is swallowed by WAIT_ACK.

`DescContextProofs`, for every set of strings and every script: `UniqueStringsHolds` and
`StringsStayHolds`. The invariant is that the context keeps its fields and that its string table
is a sequence of strings without repetition; `addString` either leaves it alone or appends a
string that is not in it, and a lemma each shows that naming and `wrapup` (whether or not it
raises) do no more than that.

The control endpoint has a section of its own below.

`LineStateProofs`, for every prescaler and all periods of at least two ticks: `TypeCorrect`, then
all the safety and action properties of `line_state`: `PhyFollowsHolds` (from `ModeAgreesHolds` and
`KReachesPhyHolds`), `TimesKeptHolds` (from `TimersExpiredHolds`, `StillLineHolds`, `WakeupWaitsHolds` and
`SignalLastsHolds`) and `SpeedAgreedHolds` (from `NegotiatedSpeedHolds` and `SpeedSurvivesHolds`). The machine parks its decisions in `nxtState` while it
writes a register or drives K, so the invariants speak of the state it is *going* to
(`Going`), and `ModeInv` says what was written on the way there. `Flow` is the graph of the states, from which it
follows where a state can have been entered. `ModeAgreesHolds`, `KReachesPhyHolds` and
`SpeedSurvivesHolds` rest on `ModeInv`; `NegotiatedSpeedHolds` on `ChirpInv`, which relates the
changes counted to those on the line, one ahead when the filter has expired; `TimersExpiredHolds`
on `TimerInv`. `StillLineHolds`, `WakeupWaitsHolds` and `SignalLastsHolds` relate ticks and clocks: `Lasts` says that a
timer that has counted k ticks has seen k periods of the prescaler, less the part that
was over when it was started. They assume that `HeldCap` is long enough for the history to
count the period. A time may fall short by two ticks, as
*Findings* says under `PERIOD_20_C`.

### The IN direction

`UsbBusInpProofs` proves that every scenario of the class `InpMasked` (`UsbBusInv`) has the
properties of the IN direction that `bus_masked` checks: for any number of endpoints, bursts,
losses and any packet size, buffer size and speed.

* `InpFaithfulHolds`: the host has a prefix of what each endpoint offered.
* `ReleaseAfterReceiptHolds`: the engine drops the packet in the buffer only when the host has it.
* `BufferExclusiveHolds`: while it keeps one, nothing else enters or leaves the buffer.
* `ImplementsPipeHolds`: the IN direction implements `InpPipe`. One lemma per action of the pipe says
  which step of `UsbBus` is which: a byte or a marker taken is `Take`, a new packet at the host
  is `Arrive`, an offer is `Offer`, and everything else changes nothing of it.

The class is the condition the theorems name, and TLC checks (`MaskedScenarios` in `MCUsbBus`) that
the nine scenarios of `bus_masked` are in it. Either no endpoint has IN data at all, or:

* no SETUP packets: SETUP is accepted over a pending packet, which it overwrites;
* no OUT packet with a bad checksum, which leaves its bytes in the buffer (finding 1), where
  the next IN packet would be replayed from;
* no abort by the PHY, or one and no losses of data and acknowledgements: the packet continued after
  an abort has a gap, which only a second replay sends (finding 3);
* no lost acknowledgements where the host clears halts of IN directions: the toggles start from
  0 then, and the host takes the packet it has for a new one;
* and either one endpoint that has IN data, whose first packet has a byte (`SoleFrom`), or framed
  endpoints whose frames are never cut into a last packet without bytes (`FramesSplit`): the
  owner of an empty packet is not recorded (finding 2), so it must be the one the buffer had before.

Assumed of the constants, besides what the other theorems assume: a packet leaves a word of the buffer free
(`BufferAssumption`; `IDLE` tells 'nothing to replay' from 'a whole buffer' by comparing two
indices), and `NoPkt` is not a packet (`WireAssumption`).

The invariant is `MaskedInv`. Its parts, and what each is needed for:

* `EnvInv`: what is left of the scenario is still in the class.
* `AlignInv`: while a packet goes out or waits for its acknowledgement, the host is in the same
  transaction of the same endpoint, and the PID on the wire is that of the engine's toggle. The host's
  ACK is only sent to an engine that waits for it.
* `OwnInv`: the registers name the owner of the buffer, and outside a transaction the
  write index is back at the start of the packet.
* `StreamInv`: `rcv` is the start of `offered`, `src` the end. It is stated item by item, so that no
  step needs induction.
* `TglInv`: a toggle of the engine that is behind the host's means a complete packet in the buffer
  that the host has got; an item the host lacks is in the buffer. At most one endpoint has either.
* `DataInv`: the buffer, the transmitter and the wire hold exactly the items the host lacks. `Shape` says
  how far the packet is (k bytes, with or without its marker), `Holds` where its bytes are in each state of
  the engine. `Exact(e, k) \/ Blind` is the exception for the continued packet after an abort.
* `SoleInv` or `SplitInv`: the owner of an empty packet, according to the scenario. `SplitInv` keeps the set
  of places at which the packets of each stream begin as its witness.

There is a lemma per part and action that can disturb it, all relative to `TypeOK` and
`EngineInv` of `UsbBusProofs`. TLC found `MaskedInv` to hold in all states of `bus_masked` before
any of it was proved.

### The OUT direction

`UsbBusOutProofs` proves, again for any number of endpoints, packets, losses and any sizes:

* `OutFaithfulHolds`: in every scenario of the class `OutMasked` each OUT endpoint, the control port included, has seen
  a prefix of what the host sent, the packet being sent included: each packet once, in order, with the end
  of a transfer where the host ended it.
* `ToggleAgreementHolds`: in every scenario of `ToggleMasked` host and engine agree on the toggles between
  transactions, but for the packet the engine keeps for a retry and the one whose handshake was lost.

The nine scenarios of `bus_masked` are in both classes (`MaskedScenarios`). `OutMasked` requires:

* no bad checksums (finding 1), no lost tokens if there are OUT packets (the data would go to the
  endpoint of the token before), no packet longer than `MaxPkt`, and none that outruns the reader (`lag`);
* where the toggle cannot tell whether the engine has a packet the host takes for unsent (`Fragile`: SETUP
  resets it, and so does the end of a halt), that the answer tells (`Certain`): no handshake of that
  endpoint is lost, nor replaced by the STALL of a halted IN direction (967), which comes after the data were
  accepted;
* no halt of the OUT direction of an endpoint with SETUP packets, since SETUP is accepted regardless of it;
* if endpoint 0 is fragile, that faults of the IN direction are masked, for one that is not marks endpoint 0
  dead (finding 2), and it then answers STALL.

`ToggleMasked` adds that the IN direction masks its faults, and that no endpoint answers STALL for a packet it
has accepted. Assumed of the constants is that a packet and its header leave a word of the buffer free
(`HeaderAssumption`): the reader takes equal indices for an empty buffer.

The invariant is `OutInv(S)`, for a set `S` of endpoints whose answers can be relied on (`SureInv`):

* `TookInv`: a packet that the engine has and the host takes for unsent (`Took`) shows in the toggles; for a SETUP
  packet, or an endpoint of `S`, a positive answer is on its way to the host (`Positive`).
* `TransInv`: the states of host and engine in an OUT transaction: which packet the engine is
  storing or draining, with which answer, and how the toggles relate when it decided so.
* `BufOutInv`: a packet stored but not released has its header in front, and nothing else is unreleased.
* `ReadInv`: what the engine has taken (`Total`) and the endpoints have not seen is what is in the buffer and the
  reader, of one packet of one endpoint: unread (`Unread`), in parts (`Reading`), or but for its end
  (`Ending`), and otherwise nothing (`Drained`).
* `GotInv`: what an endpoint has seen is the start of `Total`, item by item. With the packet the host is sending
  appended to `sent`, `OutFaithful` follows.

`ToggleInv` joins `OutInv` with the invariant of the IN direction, or with `SetupTgl`, when there is
no IN data and SETUP alone moves those toggles. TLC found `OutMaskedInv` and `ToggleInv` to hold in all
states of `bus_masked` first; `Fragile` and `Certain` come from counterexamples to weaker conditions.

### The control endpoint

`StdCtlEpProofs` and `StdCtlAnswersProofs`, for every table of descriptors, any set of requests, any
agent and any number of disturbances: all the safety properties of `std_ctl`.

* `TypeCorrect`: the registers have their types.
* `AgentKnowsHolds`: an agent always knows when its request is over.
* `SetupTakenHolds`: no SETUP packet is refused or lost after an undisturbed transfer.
* `AgreementHolds`: between transfers the device holds what the host has set up.
* `SettingsLoadedHolds`: the endpoints that are on are those of the settings selected, with their sizes.
* `AnswersHolds`: the host reads what the descriptors and its own requests promise, and is refused just
  when it has to be.

What the tables and hosts are. `RequestsAssumption` (requests of eight bytes; a request is a read just
if it has a length) and `AddressAssumption` (an address is below 128, and no agent serves a request with the
number of SET_ADDRESS, which the status stage could not tell from it) are in `StdCtlEp`. The others are in
`StdCtlInv`; `AgentKnowsHolds` and `SetupTakenHolds` need none of them. What `Promised` says is read off the list
of descriptors, what the device does off the bytes of the table, with searches that are folds
and walks. The assumptions join the two, search by search, and TLC evaluates them for the device of `std_ctl`:

* `TableAssumption`, `DevicesAssumption`, `ConfigurationsAssumption`, `QualifiersAssumption`,
  `StringsAssumption`: the index that a search of `Usb2DescPkg` returns is that of the descriptor
  meant (`Found`), with its length, and for as many configurations and strings as there are.
* `LoadAssumption`: the walk of LOAD_ALT and LOAD_EPTS from a configuration finds the endpoints of setting
  0 of its interfaces (`ConfigLoads`), and that from a setting the endpoints of it, or no such setting (`AltLoads`).
* `InterfacesAssumption`, `EndpointsOfAssumption`: interfaces are numbered from 0, each has a setting 0, an
  endpoint address belongs to one interface, and sizes fit in their register. Two interfaces that share an
  endpoint would not do: SET_INTERFACE of one would take it from the other.
* `HostAssumption`: standard requests have the direction and the recipient of USB 2.0 table 9-3, a feature
  selector that goes with the recipient, and GET_STATUS asks for two bytes at least. A device with one
  speed is not asked for its configuration at the other, since it would answer (see *Other behaviour* below).

Four invariants, each relative to those before it:

* `IInv`: the transfer. `Lockstep` relates the phase of the host, the queue and the state of the engine:
  both at rest, the empty packet of the last status stage on its way (`Ending`), the SETUP packet
  on its way (`Delivering`), the engine on the request of the host (`Serving`), or refused. It is lost with
  the first disturbance, hence the `~hurt`. `SetupTaken` by itself says nothing about most states and is not inductive.
* `SettingsInv`: the registers, after any disturbance. `TypeOK` lacks what the settings mean: that what is
  selected is in the table (`Selected`), without which a number of interfaces or an index read from it
  could be anything, and that an endpoint is on only if the settings use it, with its size (`OnlyUsed`).
  A switch that fails in the middle keeps both.
* `Waiting` and `Believed`: what is waited for, and that the registers hold what the host believes. From the
  execution of a write to the end of its status stage the device is ahead of the host (`Done`), so the
  registers are compared with what the host *will* believe (`Effective`). `InStep` holds always; `Exact`, that all
  endpoints used are on and halted as believed, is suspended while a switch has failed and the host has not
  been told (`Failing`) or has spoiled its settings thereby. `Located` is the same for the address.
* `Answered`: the answer in parts. While the engine reads, what the host has got and what is still
  to be sent are together the answer promised, so that every packet moves bytes from one to the other;
  before, nothing has been sent; afterwards the host has all of it, or a start of it if it has stopped.

The proofs go from the inside out: a lemma for each search and what it loads, one for each
request and what it does to the registers, one for each request and the answer that is promised, and
then one per action. TLC found all four to hold in all states of `std_ctl` first.

### The generator of the example device

`ExampleDevProofs`, for any set of YAML files and any number of runs: `TableKeptHolds`. A complete table is replaced only
by a run with `-F`, also if runs before it raised, or were killed in the middle of
writing. The property is about steps, and needs one invariant, `Opened`: from `open()` until the table
is written there is no complete table in the file, so that `Write` and `Kill` destroy none.

`NumbersAlikeHolds`: the interface and endpoint numbers that a function gets are those that the functions
enabled before it leave free, at every speed, which is why the searches of the firmware, which
look at the first section only, fit the second one. It gives the bounds of `TypeOK` (`Places`: ten interfaces, nine
addresses) but not that the table is made of bytes. TLC found it to hold in `desc_example`, and to fail when
`NextSpeed` forgets to start over.

### What is model-checked only

The liveness properties (`AllDelivered`, `Served`, `Settles`, `DisconnectServed`) are out of reach of the prover.
So is induction over data: what `wrapup` computes by a fold, what is in tables and read from
them (`DescContext` but for its strings, `ExampleDev` but for `TableKept` and `NumbersAlike`).
That the searches of `Usb2DescPkg` find what the list says, for every list, would be such an induction too: it is
assumed in the proofs of the control endpoint and evaluated for the device of `std_ctl`; `desc_example` checks
the layout of the tables it makes (`LayoutRead`). Outside the classes of scenarios above,
what `bus_masked` and `bus_live` check is not claimed: the findings below are there.

## Findings

1. `bad_checksum`: the bytes of an OUT packet with a bad checksum are not erased. `DATA_OUT`
   goes to `IDLE` (731-733) with `bufRWIdx` behind them, and the retransmission releases both.
2. `lost_zlp`: a zero-length IN packet does not set `bufInpEpIdx` and `retryTimeout`; if it is
   the first packet of all and gets lost it is dropped (596-598), and endpoint 0 is marked dead.
3. `abort_and_loss`: after a PHY abort the continued packet is stored with a gap
   (857-863), which a second replay sends.
4. `abandoned`: `v.milliSec` and `v.retryTimeout` are assigned after `rin <= v` (982-997), so
   the retry timeout does not run.
5. `std_cut`: `tokOutSeen` (Usb2StdCtlEp.vhd:440) holds for every OUT token on the bus. One for
   another endpoint or device ends a control read between two of its packets, although the comment
   at 932-935 means the host of this transfer.
6. `std_open`: `sizeMatch` (913-924, 953) keeps its value when a host asks for more than there
   is. A read after one whose length was a multiple of the packet size may miss the empty packet that ends it.

Other behaviour seen while modelling that no run states:

* `IDLE` takes every valid header for a token and consults a token register that data packets
  and handshakes do not refresh. After a lost OUT token its data packet starts a transaction
  with the previous token's endpoint; after a lost ACK the next token is swallowed by
  `WAIT_ACK`, and an OUT transaction then goes unanswered although nothing was lost in it.
  A data packet lost whole leaves the engine in DATA_PID, where it drops the next token; it stays a
  packet behind the host until a start of frame or its timer puts it right.
  The passing runs do not combine lost OUT tokens or lost ACKs with OUT traffic where this matters.
* SETUP is accepted over unacknowledged IN data, which it overwrites.
* With a packet released before the reader has drained the one before, the end of the first
  is announced on the endpoint of the second (1016-1029).
* A halt of one direction turns the handshakes of the other direction of the same endpoint number
  into STALL (967), after the data were accepted.
* Clearing a halt resets the toggle but keeps a packet waiting for its retry.
* A dead endpoint recovers only by reset.
* Any SETUP token, for another device too, clears `reqParam.vld` (421-437). In WAIT_EXT the agents
  then do not see the request any more, and the endpoint waits until the next SETUP packet, which
  it drops.
* A full-speed only device answers OTHER_SPEED_CONFIGURATION with its full-speed configuration:
  the table meant to fail the test (640-641) falls back to that of full speed. `AnswersHolds` has to
  exclude the request (`HostAssumption`). The status stage tests the request number only (1001), so
  a class request with the number of SET_ADDRESS would change the address.
* SET_CONFIGURATION with an unknown value is refused with the endpoints already off and the state
  still CONFIGURED; likewise SET_INTERFACE. Both clear halts without a pulse on clrHalted. A
  scan for an alternate setting stops at a sentinel only, so it may run on into the next
  configuration.
* The attribute for the remote wakeup feature is read at `cfgIdx` even if no configuration was
  selected. A read of length 0 makes `auxOff` -1 (916).
* After a remote wakeup at full speed the line state is still the J from before it, since the PHY
  reports changes only; RESUME may end at once (548) before the host has taken over the K.
* A period is loaded less two ticks (UlpiLineState.vhd:254), and the prescaler runs freely. For
  `PERIOD_20_C`, which is two ticks, that is the last value before the timer expires, as early as one clock
  later, where the comments at 69 and 91 ask for 2.5us and 20us. The other times are short by up to two ticks,
  which is within their tolerance.
* `UlpiLineState` does not look at an error of its transmission. If the PHY aborts the K, nothing
  starts it again, and WAIT_K_DON, and with it a request to disconnect, waits for a byte to be taken.
* If `usb2HiSpeedEn` is withdrawn while a device is suspended in high speed, RESUME waits for J (543-551), while
  the host ends the resume with SE0. HS_RUN ignores activity in the clock its timer expires.
* `Usb2Desc.py`: `nameAt` (473) fails on characters outside the basic plane in the middle of
  writing, which leaves a part of a file that the next run refuses to replace without `-F`. Plain
  attributes can be changed after `wrapup()`, and `emitVhdlByteArray` before it does nothing to
  stop (245). Strings of more than 126 code units wrap `bLength`. `iChannelNames` of the AS
  interface calls a method that does not exist (1049). The slot of a subordinate interface is
  checked one too generously (717).
* An Ethernet function without `iMACAddress` does not raise: `iMACAddress(None)` (1151, 1237) is
  the call that *reads* the attribute (84-91), so nothing is checked and the string index stays 0.
  Only the schema requires the key, and without `jsonschema` a complete table is written. The
  firmware then only warns (`Usb2DescPkg.vhd:556`), and takes the address from the bytes behind the
  language ids. `ReadBack` asks of such a table that no string is referred to, and of the
  others that the firmware decodes their address.
* The generator numbers a microphone with 242 or more terminals beyond a byte and raises. Bulk
  sizes above 64 at full speed are not checked; the pattern of a MAC address in the schema
  accepts a final newline; a default for the size of IN packets is that of OUT packets if they are
  given, not what `schema.json:104` says. A device without ACM does not elaborate, since
  `acmCapabilities` is evaluated anyway (`Usb2ExampleDev.vhd:340-352`, 371), although
  `schema.json` lets it be disabled.

## Not modelled

See the notes of the components in `PROJECT.json`. In the line state machine: SE1, which the code
uses as 'no report yet', changes of `usb2HiSpeedEn`, and the bytes of a transmission. In the packet engine: isochronous
endpoints, `mstInp.err`, device states other than CONFIGURED. In the control endpoint: halts
an endpoint asserts by itself, transfer types, data stages towards an agent, writes to the
descriptor memory, the clocks of a table read, suspend; the retries of its packets are those of
`PktProc` and not composed with it. Comments in the generated VHDL matter only where
writing them raises. Bytes of checksums and the bit level of the FS/LS emulation are data for this
purpose. `UlpiLogParser.py` prints a log, and `loSpeedJustEp0.py` is one of the
scripts `DescContext` stands for.

## Plan

Next, in this order; each module with its runs and, where noted, theorems.

1. `ControlBus`: `StdCtlEp` composed with `PktProc`: the retry of the last IN packet against an early
   status, halts with pending retries, SETUP over pending data; the multiplexer and the generic
   endpoint as agents.
2. `Fifo` (framed, `minFill`, timer), abstract `FrameQueue`; `Mailbox` (two clocks),
   `AsyncFifo` on top of it. Theorems: pointer invariants, the mailbox never changes a word while it
   is sampled, framed FIFO refines a queue.
3. `UlpiTx`: `Usb2PktTx` with `UlpiIO` against a PHY with DIR and NXT; theorem: an abort is
   reported once. It supplies the inputs of `LineState`.
4. `PktProc`: isochronous endpoints, `mstInp.err`, freeze while suspended; `Usb2PktRx` in detail.
5. `NcmInp`, `NcmOut` (pack and parse, checked over bounded inputs), CDC ACM break and
   notifications.
6. More proofs: the searches of `Usb2DescPkg` over a table that is given as a function, to replace the
   assumptions of `StdCtlInv` by one on the list; the length of the reader's backlog as a lemma of its own,
   which would admit `lag` to the classes.
