# hdmiservice in TLA+

hdmiservice runs inside the process that calls `hdmi_init()` and manages the
HDMI output of an ST-Ericsson U8500: it watches the AV8100 driver for plug, CEC
and HDCP events, reads the EDID of the sink, creates and destroys the HDMI frame
buffer, and executes the commands that clients send over a local socket.  It is
about 3900 lines of C with threads, two mutexes, one condition variable and no
tests.  This directory models it, checks the models with TLC and proves theorems
about them with TLAPS.  Line numbers refer to the files under `src/`.

- [Inventory](#inventory): the parts of the system and what can go wrong in them
- [Modules](#modules): which module models what
- [Runs](#runs): what TLC checks, the bounds, the fairness
- [Proofs](#proofs): what holds for every value of the constants, and why
- [Findings](#findings): where the code and its documentation disagree
- [Assumptions and limits](#assumptions-and-limits)
- [Plan](#plan): what comes next

## Inventory

### Threads and what they share

| thread | code | started by | ends |
| --- | --- | --- | --- |
| main | `thread_main_fn`, `hdmi_service.c:851` | `hdmi_service_init` | after HDMI_EXIT |
| kevent | `thread_kevent_fn`, `kevent.c` | the main thread | when it reads the wakeup event |
| listen | `thread_socklisten_fn`, `socket.c:171` | the main thread | when its socket is shut down |
| client, one per connection | `thread_sockclient_fn`, `socket.c:78` | listen thread | end of stream, or after an HDMI_EXIT |
| the caller of the API | `hdmi_service_*`, `hdmi_service.c:928-1195` | | |

The threads meet in two places.  `hdmi_events` is a word of event bits under
`event_mutex`; `hdmi_event()` sets bits and signals `event_cond`, on which the
main thread waits.  `cmd_data` is a linked list of commands under `cmd_mutex`;
client threads append (`cmd_add`), the main thread takes from its head
(`hdmi_eventcmd`).  Everything else the main thread keeps for itself: plug state,
power state, frame buffer state, EDID data, video formats, HDCP state.  The
globals of `socket.c` (`listensocket`, `clientsocket`, `serversocket`,
`no_return_msg`) are shared without any lock.

```
 sink -- driver --(EVENT_FILE)--> kevent thread --hdmi_events--> main thread --> driver
                                                        ^            |
 API --(socket)--> client threads --cmd_data, CMD bit---+            +--(socket)--> API's caller
```

### Components

1. **Main thread** (`hdmi_service.c`).  State: `hdmi_events`, the local `events`,
   `hdmi_plug_state`, `hdmi_fb_state`.  It waits, takes all bits at once, handles
   a plug *or* an unplug, then CEC, HDCP and CEC error events, then the command
   list.  Correct if no event is left behind and none is lost.  Hard: bits of
   different threads meet in one word, and two plug reports may meet in one take.
2. **Command list** (`cmd_add`, `hdmi_eventcmd`, `cmd_del_all`).  Correct if every
   command is handled exactly once, in order of arrival, or discarded by an exit.
   Hard: append, signal, take and pop are separate critical sections; an
   illegal-state reply leaves the loop in the middle of the list; `malloc` may
   fail.
3. **Plug handling and the frame buffer** (`hdmiplugged_handle`,
   `hdmiunplugged_handle`, `hdmi_fb_close`, `hdmiplug_subscribe`).  Correct if the states agree with the cable, with the
   driver, and with what the client was told.  Hard: states are set before the
   work that may fail, and `hdmi_fb_close` clears events nobody has read.
4. **Kevent thread** (`kevent.c`).  State: the descriptor, the bits just read.
   Correct if every report reaches `hdmi_events` and the thread ends before the
   mutexes are destroyed.  Hard: failed reads, a reopened file, the wakeup.
5. **Kernel driver** (not in the repository).  Pending event bits, plug detection,
   wakeup, frame buffer.
6. **Client threads** (`socket.c`).  State: a buffer of 256 bytes and two indices.
   Correct if what is decoded is what was sent, and if the thread ends with its
   client.  Hard: a read may return several messages or stop within one.
7. **Listen thread and connections** (`socket.c`).  State: the socket globals and
   `socknew`, whose address every client thread is given.  Correct if each thread
   serves its own connection and notifications reach a client that is connected.
   Hard: the next `accept` overwrites `socknew`; a thread that ends clears
   `clientsocket` for everybody; descriptors are used again as soon as they are
   closed.
8. **Initialisation and exit** (`hdmi_service_init`, `hdmi_service_exit_do`).
   Correct if a service can be started, stopped and started again.  Hard: two
   sleeps stand for synchronisation, and `cmd_data` is left dangling.
9. **EDID** (`edid.c`): block 0 and the extension are read and parsed into basic
   parameters, speaker allocation, latencies and supported formats.  Correct if
   what it marks comes from the sink that is there, and if failed reads are
   recovered.  Hard: an attempt that fails half way leaves marks behind, and the
   sink may be exchanged between two reads.
10. **Video formats** (`setres.c`): which of the driver's formats the sink
    supports, the client's priorities, the choice of the best.  Correct if the
    chosen format is supported and none of higher priority is.  Hard: one loop
    chooses by priority, CEA number and VESA number; tables keep what an earlier
    sink or an earlier list has left.
11. **HDCP** (`hdcp.c`): keys, authentication, encryption.
12. **CEC** (`cec.c`): sending, receiving, transmit errors.  Correct if an error is
    attributed to the command that caused it and none is forgotten.  Hard: the error
    arrives later, as one bit without an identifier, which other commands may clear.
13. **Messages to the client**: responses, notifications, illegal-state replies.
    Correct if they say what is true when they are sent.
14. **API and start program** (`hdmi_service_api.c`, `hdmi_service_start.c`):
    wrappers.
15. **Callback server thread** (`socket.c`): compiled only with
    `HDMI_SERVICE_USE_CALLBACK_FN`, which no build file defines.
16. **Build and packaging.**

`PROJECT.json` lists the components with their status, and under `hazards` the
places where each of these difficulties bites.

## Modules

| module | models | lines of code it stands for |
| --- | --- | --- |
| `Driver` | the kernel side, as the service uses it (external) | |
| `HdmiService` | components 1 to 4, and the part of 6 behind the decoding | `hdmi_service.c`, `kevent.c`, `socket.c:128-144` |
| `CommandService` | abstract: the FIFO service the command list promises | |
| `ClientStream` | the decoding of component 6 | `socket.c:78-144`, the message writers `hdmi_service.c:962-1194` |
| `Connections` | components 7 and 8: sockets, descriptors, threads over several lives | `socket.c`, `hdmi_service_init`, `hdmi_service_exit_do` |
| `VideoFormats` | components 9 and 10 and what a plug message tells | `edid.c`, `setres.c`, the plug handler of `hdmi_service.c` |
| `Cec` | component 12 | `cec.c`, the CEC branches of `thread_main_fn` and `kevent.c` |
| `MCHdmiService`, `MCClientStream`, `MCConnections`, `MCVideoFormats`, `MCCec` | instances for TLC | |
| `HdmiServiceProofs`, `HdmiServiceRefinement` | theorems of `HdmiService` | |
| `ClientStreamProofs` | theorems of `ClientStream` | |
| `ConnectionsProofs`, `ConnectionsLives` | theorems of `Connections`: ownership of descriptors; one life after the other | |
| `VideoFormatsProofs`, `VideoReportProofs` | theorems of `VideoFormats`: types and choice; report, priorities and retries | |
| `CecProofs` | theorems of `Cec` | |

`HdmiService` is the composition: all threads, with plug handling in four steps
and commands without data.  The other modules each look at one part of it with
a finer grain and take the rest for granted.

### HdmiService

Each thread has a program counter: `mpc`, `kpc` and, per client, `cpc`.  A stretch
of code between a lock and its unlock is one action, and so is a stretch that
touches only what its thread owns; the steps of the plug handler, whose outcome
depends on a cable that may change in between, are actions of their own.

| main thread action | code |
| --- | --- |
| `MainWait`, `MainSpuriousWakeup`, `MainTake` | the wait and the take, `hdmi_service.c:871-880`; the condition is tested once, before the wait |
| `MainPlugged`, `MainEdid`, `MainFb`, `MainNotify` | `hdmiplugged_handle`: states first, then EDID, frame buffer, message |
| `MainUnplugged`, `MainNotify` | `hdmiunplugged_handle` |
| `MainDispatch` | the rest of the loop |
| `MainPop`, `MainRefuse`, `MainHandle`, `MainDisable`, `MainRelease`, `MainSubscribe` | `hdmi_eventcmd`: one command after the other, with the check of power and plug state (`Allowed`) |
| `MainExit`, `MainWakeup`, `MainFinish` | HDMI_EXIT and the end of `thread_main_fn` |

`KOpen`, `KRead`, `KReadFails`, `KSignal`, `KPoll`, `KClear` are the kevent thread.
`Connect`, `Disconnect`, `Receive` are the client at the other end of the socket;
`CmdAdd` and `CmdSignal` are the two calls its thread makes.  A command is its
code only: the parameters decide nothing here.  `hdmievclr` (`ClearEvents`) may fail and nobody
notices.  A call that may fail has one
disjunct per outcome the code tells apart, allowed by `Fail(site)` for the sites in
the constant `Fallible`.  `failed` remembers the failures whose effect lasts (a
wakeup that was not written, a frame buffer that was not destroyed), since some
properties hold only without them.  The power state is whatever the driver reports
at that moment.

`notice` (the last plug message) and `failed` are history variables; nothing
depends on them.

### CommandService

The abstract command side: a queue, a flag that nobody is going to look at it, a
flag that the service is open.  `HdmiService` implements it under the mapping
`CS`: the queue is the command in hand followed by `cmd_data`; it is stalled if
commands are queued and there is no CMD bit, no client thread about to signal and
no main thread working on the list.

### ClientStream

One connection.  The header is scaled from twelve bytes to three: the byte of `cmd`
that is read, the byte of `size` that is read, and one byte of `size` that is not.
`buffer` reaches behind its end into the stack, because the code may read there.
`cut` is a history variable: a read has ended inside a message.  That is the one
condition that decides whether the decoding is right, so the properties are
stated with it.

### Connections

Descriptors are modelled as the kernel hands them out: `socket` and `accept`
return the lowest free one (`IsLowest`), and `fds` says what each stands for at
the moment.  A thread holds a *number* (`sockl`, `sock`), the globals
`listensocket` and `clientsocket` too, so that a number outlives what it stood
for, as in the code.  A *life* is what one call of `hdmi_service_init` has started;
the threads of two lives may overlap, because `hdmi_service_exit` only sends a
message and the rest happens two seconds later.

| action | code |
| --- | --- |
| `InitService`, `ConnectService` | `hdmi_service_init` before and after its 100 ms; one attempt to connect |
| `ExitService`, `ClientExit` | an HDMI_EXIT on the connection of the caller or of a client |
| `ClientConnect`, `ClientClose` | clients in other processes |
| `MainStart`, `MainTake`, `MainFinish` | the start of `thread_main_fn`, an exit in the list, `hdmi_service_exit_do` |
| `ListenSocketCreate`, `ListenSocketFails`, `ListenUnlink`, `ListenBind` | the system calls before the loop of `thread_socklisten_fn` |
| `ListenAccept`, `AcceptFails`, `ListenFails`, `ListenEnd` | its loop and its end |
| `ThreadStart`, `ThreadCommand`, `ThreadExit`, `ThreadEnd` | `thread_sockclient_fn` up to the end of its loop |
| `ThreadClose`, `ThreadReset` | `close(sock)`, and `clientsocket_set(-1)` some time later |

`socket`, `bind`, `listen` and `accept` may fail whenever they are called, and `socket`
and `accept` must when no descriptor is free.  That happens: `serversocket` is never
closed, so that a process keeps one descriptor of every life.  Each failure goes
where the code goes: the listen thread closes what it has and removes the path,
`hdmi_service_init` returns -1.

`Unlisted` is the list after an exit: `cmd_del_all` frees the nodes and leaves
`cmd_data` pointing to the first one, whose HDMI_EXIT may be found there again.
The histories say which of the code's weak spots was hit, and the properties
except exactly these: `raced` (the next `accept` came, or the listen thread ended with
the stack that holds it, before a client thread had read `socknew`), `overlap` and `lingered` (an initialisation before the threads of the
last life had ended), `late` (a second HDMI_EXIT in the same life), `broken` (a call of
that life's listen thread failed, other than because its socket was shut down).

### VideoFormats

The main thread alone, with the sink that may be exchanged under its hands.  A
format is its table (CEA or VESA) and its number; a sink is what its EDID mentions:
the formats of block 0, the kind of the extension, its audio bit, the formats of
each data block, the block that fails the length check, and the timings behind
the data blocks.

| action | code |
| --- | --- |
| `PlugStart` | the start of `hdmiplugged_handle`: states, `video_formats_clear`, `video_formats_supported_hw` |
| `ReadBlock0`, `ReadBlock1`, `ReadFails`, `OtherExtension` | one attempt at a block: `edid_read`, `edid_parse0`, `edid_parse1` and the results their caller tells apart |
| `Prioritise`, `ChooseNext`, `ChooseEnd` | `set_vesacea_prio_all`, and `get_best_videoformat` entry by entry |
| `PlugFb`, `PlugShow` | frame buffer, `hdmi_fb_chres`, `plugevent_send` |
| `Unplug` | `hdmiunplugged_handle` |
| `SetPriorities`, `SetResolution`, `Close`, `Subscribe`, `Restart` | the commands that touch tables or frame buffer, and a new initialisation |

What the tables keep is kept: `video_formats_clear` does not reset the number of
formats (`Cleared`), `vesaceaprio_set` ends a list and leaves what is behind it
(`PrioTable`; one that is longer than the table is cut off), a failed attempt leaves its marks (`ReadBlock1`).  Where the code
reads standard timings at wrong places, any format of `StdModes` may come out.

### Cec

A transmission is settled by the bus some time after `cecsend` has handed it over;
a failure is one bit in the driver, then one bit in `hdmi_events`, then a message
with whatever `cectx_cmd_id` holds.

| action | code |
| --- | --- |
| `ClientSend` | the client's thread: `cmd_add` and `hdmi_event` |
| `TxDone`, `TxFailed`, `Receive` | the bus, through the driver |
| `KRead`, `KReadFails`, `KReopen`, `KSignal`, `KPoll` | `thread_kevent_fn` |
| `MainTake`, `MainCec`, `MainTxErr` | `thread_main_fn`, with `cecrx` and `cecsenderr` |
| `MainSend` | HDMI_CECSEND: `cecsend` (`Send`) |
| `MainClose`, `MainClosed`, `MainRefuse` | HDMI_DISABLE and HDMI_FB_RELEASE, which call `hdmi_fb_close` or are refused |
| `MainExit` | HDMI_EXIT |

Identifiers are those of the code: a client writes what it likes (`Ids`; the API always
writes 0), and the client's thread keeps one byte of it (`Kept`), so that two commands
may have the same.  The properties tell commands apart by their place in `log`, a
history of what was queued.  `overlapped` says that a command was begun before the
last was settled; `cleared` and `dropped` say what `hdmi_fb_close` has taken out of
the driver with `hdmievclr(EVENTMASK_ALL)`, and which failures were among it.  A
kevent thread that could not open its file again is at `lost`, and stays there.

## Runs

| run | question | result |
| --- | --- | --- |
| `device` | types, `NoLostWakeup`, `FbAccounted`, `PluggedOnce`, `KeventGone`, `ClosedUntilUnplug` with one client, all state-changing commands, all faults, merging driver | hold (6.3 million states) |
| `commands` | `ImplementsCommandService`, `StalledOnlyByRefusal` with two clients | hold |
| `plug` | liveness: `PlugTracksCable`, `ExitCompletes` | hold |
| `stream` | `InBounds`, `FramedUnlessCut`, `Delivered`, `EndsAfterClose` | hold (233 thousand states) |
| `restart` | two lives of the service, a client of another process: ownership of descriptors, path and `clientsocket`, start and end | hold (892 thousand states) |
| `formats` | what is reported, chosen and shown, for five sinks exchanged at any moment | hold (5.3 million states) |
| `cec` | attribution of transmit errors, nothing invented, and nothing forgotten or left behind but for three named reasons | hold (838 thousand states) |
| `stranded` | are all messages in the list handled? | no |
| `bounce` | is a sink that stays connected reported to the client? | no |
| `unplug` | is a sink that stays away noticed? | no |
| `threads` | are the threads gone when the service is? | no |
| `framing` | is every message decoded as it was sent? | no |

What the properties say:

- `NoLostWakeup`: while a bit of `hdmi_events` is set the main thread does not wait.
- `StalledOnlyByRefusal`: no interleaving of append, signal, take and pop leaves a
  command unattended; only an illegal-state reply does.
- `ImplementsCommandService`: FIFO, once each, nothing taken after the exit, and a
  queue that is not stalled is worked off.
- `FbAccounted`: a frame buffer that exists is recorded as opened, so that somebody
  will destroy it, unless the driver refused to once.
- `PluggedOnce`: the client is not told "plugged" twice in a row.
- `KeventGone`: the mutexes are destroyed only when the kevent thread will not lock
  them any more.
- `PlugTracksCable`: a sink that stays is noticed in the end.
- `ExitCompletes`: after HDMI_EXIT both threads end.
- `InBounds`: the arithmetic on `bytes` and `buf_index` agrees with the buffer.
- `FramedUnlessCut`, `Delivered`: as long as no read ends inside a message, the
  commands decoded are the messages sent, in order, and none is left out.
- `EndsAfterClose`: a thread ends with its client, under the same condition.
- `ClosedUntilUnplug`: once the frame buffer has been closed with the sink still
  plugged, nothing but an unplug brings it back.  The property states what the code
  does; finding 9 says what it should do.
- `ServedByItsThread`, `DescriptorsOwned`, `ClientSocketOwned`: a thread reads from
  the connection it was created for, a descriptor in use has a thread that will
  close it, and `clientsocket` is the number of a thread that has not reset it yet.
- `NotifiesCaller`: without other clients, messages go to the socket that
  `hdmi_service_init` has returned.
- `PathLeads`, `FailsOnlyIfLate`, `EndsOnlyIfAsked`: a service that was restarted is
  the one the path leads to; `hdmi_service_init` fails only because a call for one of
  the two sockets failed, its listen thread was late, or the service was asked to end
  or overlaps another; an exit of one life does not end the next.
- `ConnectionServed`, `ListenThreadEnds`: a connection gets its thread, or is closed
  because `accept` or `listen` failed; after an exit the listen thread ends and
  removes its path.
- `ReportExact`: the message of a plug tells the formats and the audio of the sink
  that was read, and nothing an earlier sink or attempt has left.
- `PreferenceKept`: the priorities that were set last decide, as far as they fit into
  the table.  `BestChosen`: what `get_best_videoformat` computes, said without its
  loop.  It states what the code does, which is neither what the comment over the
  table says nor what the one in the loop says (findings 12 and 13).
- `ShownChosen`: the frame buffer then has the chosen format, whichever it had.
- `EdidRecovers`: two failed reads of a block are survived.
- `ErrorsAttributed`: a transmit error carries the byte kept of the identifier of the
  command that failed, or of a later one if commands overlapped, but never of an
  earlier one.  It does not say that the client can tell which command that was: with
  the API, whose identifiers are all 0, it cannot (finding 14).
- `NoneInvented`: a failure is told once.  `FailuresTold`: it is covered by such an error,
  sent or on its way, unless `hdmi_fb_close` has cleared it out of the driver
  (finding 15).
- `PassedOn`: every bit the driver raised gets to its handler, unless `hdmi_fb_close`
  clears it, the kevent thread has lost its file (finding 16), or the service ends.

**Bounds.**  `QueueBound` stops clients from sending while the list is that long.
`device` and `plug` use 1: the list is then empty, has one element or (two clients
between receive and append) two, and those properties do not depend on its length.
`commands` has two clients, so that two appended commands and one in hand exist at
a time, which is what order, refusal and exit with a non-empty list need; the
`stranded` run uses 2.  Commands that the model does not tell apart are represented
by one of them (`CECSEND` always allowed, `EDIDREQ` only while powered and
plugged).  In `stream`, buffer and byte both have 8 values, as both have 256 in the
code, so that an over-long message (size 9 against 297) is at once longer than the
buffer and too large for its length byte; three messages are enough for two whole
ones and a cut one in one buffer.  Chip events change nothing in this model but the
wait; one bit (`CEC`) is enough.

`restart` has two lives and one other client: a second life is what a stale
descriptor, path, list or exit needs to do harm, and one more connection than the
caller's is what overtakes `socknew` or clears `clientsocket`.  Four descriptors
(`MaxFd` = 3) are what one life uses with that client, so that the second, which finds
one of them still open, runs out of them, while without the client it does not.  The
backlog is that of the code, `SOCKET_MAX_CONN`, 1.  Where lives overlap, only
the caller connects (`CallerAlone`), and a client has at most one unread HDMI_EXIT;
both keep the number of states down.  In `formats` a table of three formats holds
two kinds and an order among the CEA ones; a hardware list of one is shorter than
what an earlier one has left; the priority lists are shorter than the table, end
early, list nothing that exists, or are longer than the table and name only there
what the sink offers.  The five sinks have no extension, a CEA one, one
with a data block that fails the check, one with standard timings, and one of
another kind.  In `cec` three commands are two transmissions and what closes the frame buffer
between or behind them, or three transmissions, which a late error needs to be
attributed to neither the first nor the next; the identifiers 0 and 257 differ in the
byte that is kept and in what is not, and commands may share one.

**Fairness** (`HdmiService!Fairness`).  The main thread, the client threads once
they hold a command, and the kevent thread take their steps if they can: the
scheduler runs runnable threads.  `poll` must return only when an event is pending.
Reading the event file is strongly fair: a read may fail any number of times, but
not for ever.  Nothing obliges the environment: clients, cable and chip may stop at
any time, and the calls of the driver may fail whenever `Fallible` allows it.
`PlugTracksCable` asks for a time from which on the clients are quiet, because
`hdmi_eventcmd` does not return while the list keeps filling.  In `ClientStream` the
thread is fair except while it waits in `read`.  In `Connections` the
listen threads and the start of a client thread are fair, which is all that
`ConnectionServed` and `ListenThreadEnds` need; an `accept` or `listen` is obliged to
fail only when it cannot do anything else (`AcceptMustFail`).  In `Cec` main and kevent
thread are fair as in `HdmiService`, with the same strong fairness of the read;
client, bus and driver are not.  `VideoFormats` has no liveness
property and needs no fairness.

**Deadlock** is checked in all runs of `HdmiService`: the cable can always
change.  It is in `formats`.  It is not in those of `ClientStream`, where a
connection ends, nor in `restart` and `cec`, where all lives and all messages allowed
may be used up.

## Proofs

All theorems are for every value of the constants that satisfies the named
assumptions: any number of clients, any set of commands, any faults, any bound.

`HdmiServiceProofs`:

- `TypeCorrect`: the type invariant; it is inductive together with "a command is in
  hand exactly while one is handled", which is part of it.
- `NoLostWakeupCorrect`: inductive by itself.  `MainWait` needs an empty word, and
  `HdmiEvent` moves a waiting main thread to `woken` in the step that fills it.
- `FbAccountedCorrect`: from `HandlerInv`.  The frame buffer is created only at
  `mpc = "fb"`, and there the state is already `OPENED`: between `MainPlugged` and
  `MainFb` nobody else may close it.
- `PluggedOnceCorrect`: from `NoticeInv`.  A client that was told "plugged" either
  still is in that state, and the handler has left the plug path, or is just being
  told the opposite.  The property alone is not inductive: it says nothing of the
  steps before the message.
- `KeventGoneCorrect`: from `WakeupInv`.  Once written, the wakeup is in the
  driver, in the bits the kevent thread has just read, or has been obeyed; the main
  thread clears driver events only before it writes it.  Together with the timing
  assumption of `MainFinish` this is the property.
- `ClosedUntilUnplugCorrect`: an action property, from the same `HandlerInv`: the
  state is set to `OPENED` only where the handler has just found it not `PLUGGED`.
- `StalledOnlyByRefusalCorrect`: an action property, from `EventsInv` (the local
  events are empty between dispatch and take): one step per action, and of all of
  them only `MainRefuse` leaves the list without anybody looking after it.

`HdmiServiceRefinement`: `CommandServiceCorrect`, the safety part of
`ImplementsCommandService`.  Each action maps to a step of `CommandService` or to a
stutter: `MainHandle`, `MainDisable` and `MainSubscribe` to `Serve`, `MainRefuse` to
`Refuse`, `MainExit` to `Close`, `CmdAdd` to `Submit` (or `Nudge` if `malloc`
failed), everything else to a stutter.  `MainPop` is the interesting stutter: the
head moves from the list to the hand, and the abstract queue does not change
(`ConsOfHead`).

`ClientStreamProofs`, for every size of buffer, byte and message:

- `InBoundsCorrect` and `StreamTypeCorrect`: from `StreamInv`.
  Decoding moves `buf_index` and `bytes` by the same amount or resets both to what is
  left; what is left after a cut header starts the next read less than a header into
  the buffer, and that is by how much the count may then exceed it.
- `FramedCorrect`: from `FrameInv`.  That the decoded commands are a prefix of the
  messages is not inductive, since it says nothing of the bytes still to be decoded.
  `Layout` does so: there are places `pos` of all messages in the stream of all bytes
  (`Offsets`), and a number `k` of messages that have been read, such that the bytes in
  the socket are those of the messages behind the `k`-th (`InSocket`) and the unread
  part of the buffer those of the messages decoded next (`InBuffer`).  `SendFrame`,
  `ReadFrame` and `ParseFrame` move one of the three borders each; a read that does
  not cut moves `k` to the message whose last byte it took.  `CommandIsMessage` is
  where the sizes count: a message that lies whole in the buffer has a size that fits
  into the byte that is read, because the buffer is not longer than a byte counts
  (`BufferAssumption`).
- `NothingLeftOut`: from the same invariant, the safety half of `Delivered`.

`ConnectionsProofs`, for any number of lives, clients and descriptors:

- `TypeCorrect`: inductive together with `BegunInv`, `AskedInv` and `HostInv`, that the
  threads of a life, and what was asked of it, belong to a life that has begun.
- `ServedCorrectly` and `NoDescriptorLost`: from `ConnInv` and `OwnInv`.  `ConnInv` is
  the way of a connection: idle, then once in one backlog, then accepted, never in
  two places.  `OwnInv` holds until `raced`: every listen thread between `socket` and
  `close` holds the number of its own listen socket, every socket of a connection has
  one thread, and the thread it was created for still finds its number in `socknew`
  if it has not read it.  A number is only handed out if it is free (`IsLowest`), so
  that no step of another thread can make a number held stand for something else.
- `SendsToAThread`: inductive with `TypeInv` and `ConnInv`: a thread writes
  `clientsocket` once, after its connection was accepted, and resets it in its last
  step, whoever has written in between.

`ConnectionsLives` builds on it.  Each invariant holds under the histories that its
properties except:

- `OneExitOneEnd`: from `Alone` (without `overlap` the threads of all earlier lives have
  ended) and `Exits`: without a second HDMI_EXIT there is at most one, in its
  connection or in the list, and none once the main thread has taken it.  That is
  why nothing is found behind the dangling `cmd_data`.
- `PathLeadsToTheService`: from `Paths`, which follows `listensocket` and the path from
  `socket` to `bind`, and from `OwnInv`: a number the globals remember still stands for
  that socket.
- `InitFailsOnlyIfLate`: an action property, from `Exits`, `Paths` and `Shut`: a listen
  socket is shut down, and a listen thread ends, only after the main thread of that
  very life, or because one of its own calls has failed (`broken`).
- `CallerIsNotified`: from `Caller`.  If nobody but `hdmi_service_init` connects, one
  client thread is at work, and what it reads from is `clientsocket`.

`VideoFormatsProofs`, for every table, every set of sinks and every priority list, of any
length:

- `TypeCorrect`: inductive by itself.  What needs an argument is that entering the
  priorities yields positions of the table (`PrioritisedType`), that the file fits
  (`HwReadType`) and that the attempts are bounded (`AgainType`).
- `ShownChosenCorrect`: from `ShownInv`.  The handler works only while the state is
  PLUGGED and sends its message in its last step; until the next plug, neither
  `chosen` nor, unless `altered`, the format of the frame buffer changes.
- `BestChosenCorrect`: from `TableInv` and `ChoosingInv`.  The latter says what
  `best_prio`, `best_ceanr` and `best_vesanr` stand for after n entries: nothing yet
  (`Untouched`), the best priority and its entry (`PrioKept`), the highest numbers of
  the entries after the first offered one (`NumbersKept`).  `SkipKeeps` and `OfferKeeps`
  are one pass of the loop, `ChoiceIsBest` its end.  `TableInv`, that every supported
  entry has a number, is what makes "no CEA format so far" the same as
  `best_ceanr = 0`.

`VideoReportProofs`, for the same:

- `ReportExactCorrect`: from `RowsInv` and `ToldInv`.  `RowsInv` says what the table is
  after the file has been read: the file itself, and every mark the first entry of its
  format.  `ToldInv` relates the marks to `seen`: every mark was offered by a block
  that was read since the plug (`Sound`), and if one sink was read to the end, all it
  offers is marked (`Complete`).  The property speaks only of the message; the marks it
  is made from are set several steps before.  That a format which is in the file
  is found at all needs the first of its entries (`LeastNumber`, by well-foundedness).
- `PreferenceKeptCorrect`: from `WantedInv`.  The table of priorities is the list set
  last and ends where it ends, so that what an earlier one has left is never reached
  (`PrioTableInv`); of a longer list it is the part that fits (`Wanted`); no format has a priority before `Prioritise`, and a supported one
  has its rank in that list afterwards (`RankInv`).  With `BestChosenCorrect`, that the
  choice is `BestOf`, this is the property (`ChoiceHasBestRank`).
- `EdidRecoversCorrect`: an action property, from `BlameInv`: while a block is read, as
  many reads have failed as attempts were made, or something else accounts for them
  (`Excused`), and keeps doing so until the handler gives up, because it takes no
  report meanwhile.

`CecProofs`, for any number of commands and received messages, whatever identifiers the
client writes:

- `TypeCorrect`: inductive by itself.
- `NoneInventedCorrect`: from `IndInv` and `ErrInv`, which count a bit once for each
  place where it waits (driver, kevent thread, `hdmi_events`, `events` before its
  handler): there are always at least that many failures and messages not told yet.
  `QueueInv`, that the list is the commands after the last one handled, is needed for
  a refused command to be a new failure.
- `ErrorsAttributedCorrect`: from `SendingInv` and `PendingInv`: a transmission on its
  way, and a failure whose bit waits anywhere, belong to the command handled last
  or, once commands have overlapped, to an earlier one.  The order is that of the
  queue; nothing is assumed about identifiers.
- `FailuresToldCorrect`: inductive with `QueueInv` and `EventsInv`.  What has failed was
  handled (`FailedWasHandled`), so that the command handled last, to which the next
  error belongs, is not before any failure; and what `hdmi_fb_close` clears is dropped
  only if it is the bit of a failure.

Every invariant and every action property that a passing run checks is a theorem.
Only model-checked are the liveness properties (`PlugTracksCable`, `ExitCompletes`,
`Delivered`, `EndsAfterClose`, `ConnectionServed`, `ListenThreadEnds`, `PassedOn`, the
fairness of `CommandService`), which need ENABLED.  The invariants of the proofs were
given to TLC, on the instances of the runs, before they were proved.  What the proofs
do not replace is the runs' own answer to whether the conditions (`~cut`, `~raced`,
`~overlap`, ...) leave anything to say: the mutants and the liveness properties show
that the states they are about are reached.

## Findings

`PROJECT.json` has them with quotations.  In short:

1. A refused command ends the loop over the list; what is queued behind it waits
   for the next signal (`stranded`), and the refused node is not freed.
2. The plug state is set before EDID and frame buffer succeed.  A sink that bounces
   in that time stays connected without picture or notification (`bounce`).
3. When plug and unplug are pending together, the unplug is dropped (`unplug`).
4. Client threads survive the service and use its destroyed mutexes (`threads`).
5. A message that a read has cut is decoded as if it were complete (`framing`).
6. The length of a message is read from one byte, and HDMI_HDCP_INIT is compared
   with a length that neither the API nor that byte can produce.
7. `clientsocket` is the connection that came last, and none at all once any
   connection has ended; the socket `hdmi_init` has returned then stays silent.
8. `hdmi_service_exit_do` shuts down whatever `listensocket` is two seconds later,
   and an ending listen thread removes the path whoever has bound it: an
   initialisation in that time may end up without socket or path.
9. HDMI_DISABLE and HDMI_FB_RELEASE with a sink plugged in leave the state PLUGGED;
   the report that the next HDMI_ENABLE provokes is ignored.
10. `plugevent_send` writes its data over its length; `hdcp_state` sends the command
    in place of the state; `cecrx` sends a buffer nothing was read into; `edidreq`
    sends results other than 0 and 1.
11. In the EDID parser, the standard timings 9 to 16 are read at wrong places, the
    length check of a data block looks at the end of all blocks, an extension that
    is not CEA's fails the whole EDID, and an interlaced latency goes to the wrong
    field.
12. The first supported format without a priority is not counted by its number, so
    that a VESA format may be chosen although a CEA format is there, against the
    comment "If no cea has been chosen, check vesa" (`setres.c:335`).
13. The comment over the table of formats says "The first format in this list with
    sink_support set will be chosen" (`setres.c:49-50`); the code chooses by priority and
    number, and takes the first one only if there is no other.  `BestChosen` follows the
    code.
14. The calls of the API write 0 as the identifier of every command, and of any other
    identifier one byte is kept: an HDMI_CECSENDERR does not tell which command failed.
15. `hdmi_fb_close` clears all pending events of the driver, those of CEC included: a
    received message or a failed transmission is forgotten.
16. A kevent thread that cannot open the event file again polls descriptor -1 for ever.
17. `serversocket` is never closed: each life of the service costs a descriptor.
18. A priority list longer than the table of 10 is cut off silently.

The runs show the first five in a trace of a few steps, with no fault injected; the
others were met while the modules were written.  Where a property of a passing run
has an exception for one of them, its comment says so.

## Assumptions and limits

- **Driver.**  A read returns the pending bits and clears them.  Enabling plug
  detection reports a sink that is already connected; the service relies on it,
  since it is started at boot, after `/dev/fb0` appears (`debian/hdmiservice.conf`),
  with whatever is plugged in.  Whether an unplug replaces a pending plug report or
  joins it is left open (`DriverMerges`); the findings hold for the driver that is
  kinder to the service, and the safety runs use the other.
- **Timing.**  `usleep(2000000)` before the mutexes are destroyed is taken to be
  long enough for a kevent thread that has a wakeup to read (`WakeupUnderWay`), and
  for the listen thread of that life to have begun to listen (`MainFinish` of
  `Connections`).  Nothing else is assumed about time.
- **Memory order** is that of the mutexes; an access to `clientsocket`, `listensocket`
  or `socknew`, which no mutex protects, is taken to be atomic and seen at once.
- **Connections**: once a listen thread has ended, a client thread that still reads
  `socknew` from its stack finds what was there or descriptor 0.  A write to a closed
  connection does not kill the process (SIGPIPE is ignored by the caller).  What the
  second initialisation of mutexes does that threads of the last life still use is
  not modelled.
- **EDID** reading is one step in `HdmiService`, which succeeds only while the cable is
  in.  In `VideoFormats` a read returns the block of one sink, or fails; the code
  checks the header of block 0 and the tag of the extension but no checksum, and
  garbled bytes behind them are not modelled.
- **Threads**: `pthread_create` is taken to succeed; nowhere does the code look at its
  result.
- **VideoFormats** leaves out the HDMI or DVI mode, the latencies and the physical
  address, which no decision depends on.
- **Cec** leaves out the contents of the messages, takes `cmd_add` and `hdmi_event` as
  one step, and leaves out the commands that touch neither CEC nor the driver's
  events, and the wakeup; `HdmiService` has these.  A service that is started again is
  not modelled here: the kevent thread of the old one clears the driver's events at its
  end (`kevent.c:173`).
- **ClientStream**: a write is one step and its bytes arrive together, as
  AF_UNIX stream sockets do it for messages this small.  `char` is unsigned, as on
  the only architecture the package is built for (`debian/control`).  What the stack
  holds behind the buffer is one byte repeated, of three possible values.  Signals do
  not interrupt `read`.
- **Not modelled**: HDCP, which no client reaches in this build (HDMI_HDCP_INIT is
  refused because of its length, finding 6, and it alone subscribes to the HDCP
  event); the layout of the messages, straight-line copying in which finding 10
  was met; the callback server thread, which is not compiled; the wrappers of
  the API, which forward every call; of `hdmi_fb_chres` the arithmetic of the screen
  modes, whose result nothing in the service depends on; the `ioctl` and `sysfs`
  traffic.

## Plan

What is left, in this order:

1. **Composition**: the events of `Cec` and the plug reports of `VideoFormats` both
   come through `hdmi_events`; that each module's interface is what `HdmiService`
   does could be stated as refinements.
2. **Safety halves of liveness**: as `NothingLeftOut` for `Delivered` and `FailuresTold` for
   `PassedOn`, that a connection which is up waits in the backlog of a listen thread
   that will accept it, and that a thread which has not ended after an exit has a next
   step.
