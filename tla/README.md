# Verification of the MikroC web server firmware

The repository is the firmware of a small controller (ATmega1284p, ENC28J60 Ethernet, SD card,
DS1307 clock, EEPROM): a cooperative scheduler, a web server, a web client, a telnet server, an
SNTP client, a settings store, and the main program that ties them together. One main thread runs
the main loop; one timer interrupt (the clock chip's square wave on INT0, every second) runs the scheduler's clock and
the sockets' alive times. Another interrupt is meant to report a change of the SD card, but the board enables the wrong one
(section 3, `Device`). This directory holds TLA+ models of the firmware, the TLC configurations that check them,
and TLAPS proofs.

Run a check with `tlc -workers 2 -config SchedControl.cfg MCScheduler`, the proofs with
`tlapm SchedulerProofs.tla` (and `DeviceProofs`, `HttpServerProofs`, `HttpClientProofs`, `ServiceProofs`, `ClockProofs`,
`HttpRequestProofs`, `TextProofs`).

## 1. Inventory

| component | state it keeps | operations | interacts with |
|---|---|---|---|
| scheduler (`scheduler/scheduler.c`) | `task_list[]` (id, function, delay, period, status), `task_scheduler_running`, `count_per_ms` | init, add, delete, stop, resume, start, stop, dispatch (main loop), clock (interrupt) | the clock shares the table with everything the main thread does; tasks call back into the API |
| web server (`http_server.c`) | one `socket_t` per connection (state, request, options, line buffer of `LARGE_BUFFER_SIZE` = 256), global `post_response` / `post_capture` | `http_handle_client` per packet, `close_server_socket`, callbacks for forms and posts | TCP stack calls it; page catalog, socket pool, parser, header generator, FAT32 |
| page catalog (`page_manager.c`) | linked list of `page_t`, **with the position of the running transfer in it** | add static, dynamic, flash page; find; remove | shared by all sockets of the server |
| socket pool (`socket_manager.c`) | linked list of `socket_t`, `size` | find-or-create, close, alive time (interrupt), cleanup (system beat), count | server, client; walked by the interrupt while the main thread changes it |
| line parser (`line_parser.c`) | none of its own; writes the socket | request line, headers, file names, status line, chunk size | server and client |
| header generator (`head_generator.c`) | a callback for the date; writes the socket's buffer | `header_generate`, set callback | server, clock |
| network glue (`network.c`) | none | packet in, dispatch by port, cleanup, time update | stack callbacks into server, client, telnet, SNTP |
| web client (`http_client.c`) | one request in progress, files on the card, chunk position | request a file, handle its packets, cancel | socket pool, parser, FAT32, file callback |
| main program (`main.c`) | flags (card change, which nothing sets; file downloaded, set by the callback, with its name) | boot, main loop, system beat, tasks, ISRs | all of the above |
| settings (`settings_manager.c`) | the record in RAM, a flag per group to be saved, the EEPROM with the defaults at its end | get, commit, check (save), restore, init | form handler, SNTP, boot after a reset |
| telnet (`telnet.c`) | state per session, one global `action_command` for all of them, the socket's buffer | `telnet_handle_request` per packet | socket pool (blocks that keep their contents), log file |
| SNTP (`udp_ntp.c`) | the last time received | request with retries, answer | resolver, UDP; sets the clock and the file system's time through `main.c` |
| clocks (`ds1307.c`, `stmrtc.c`) | zone, DST switch, the last local time; the chip's registers | set, read, format; zone and summer time; scratch memory | boot, log, response header, tasks |
| board, logger, sensors, utilities, stubs | peripheral registers, files | I/O | - |

### What is hard here

* **Interrupt against main loop.** `delay` and `period` are `volatile uint32_t` on an 8-bit core: each
  access is four. No code in the scheduler masks the timer. The interrupt also walks the socket list.
* **Cooperative re-entry.** A task may call the scheduler that is running it.
* **One handler, many connections.** `http_handle_client()` is a state machine whose cases fall through;
  calls for different connections alternate at any point, and share the page's position, the POST buffer,
  the file handles and the pool.
* **A network that cuts streams** where it likes, resets, goes silent, and reuses table slots.
* **Resources that end**: task slots, sockets, four file handles, line buffer, POST buffer.
* **Releasing while in use**: every way out of a transfer must give back what the way in took.
* **Resets** between two EEPROM writes or in the middle of a download.
* **State that decides later**: summer time from the previous local time, a function pointer and memory
  handed from one session to another, a flag that is cleared after the work it asked for.

### What makes each component correct

* Scheduler: no task before its time; none started through a null pointer; none left RUNNING or starved;
  a stopped or deleted task comes back only when someone asks.
* Web server: every client gets the body its header announced, whole and in order; POST data reach
  the application unmixed; every path closes files and sockets; a silent peer is dropped; a request means the
  same however it is cut.
* Catalog and pool: a page or socket in the list is reachable and counted once, a removed one is gone.
* Client: a download ends, with its files closed and its result reported once and truthfully.
* Settings: what was committed and saved survives a reset; a group that is not being written is never
  damaged; the defaults stay. SNTP: one question at most, and the clock is right once it was answered.
* Clocks: the time that was set is the time that is read and printed, for ever after.
* Telnet: a session hears its own answers and nothing of a session of another slot; one with a `socket_t` of its own is
  greeted first.
* Main program: a downloaded file that was reported is parsed.

`PROJECT.json` lists the hazards one by one, each at its line.

## 2. Plan

Order of work, most important behaviour first; all of it but the last entry is done.

1. `Scheduler` + `SchedulerProofs`: the only genuinely preemptive part, and the one everything else is called
   from.
2. `HttpServer` + `HttpServerProofs`: the program's main purpose, whole life of a connection; `HttpRequest` +
   `HttpRequestProofs`: reading a request from arbitrary segments; `ResponseHeader`, `PageCatalog`, `LineParser` (proofs
   in `TextProofs`): what `HttpServer` takes for granted.
3. `HttpClient` + `HttpClientProofs`: request, connect, header, body, closing, timeouts; `Chunked` and `ChunkSize`: the
   arithmetic of chunked bodies it leaves out (proofs in `TextProofs`).
4. `SettingsStore` (abstract) and `Settings` (byte by byte, with resets), with the refinement, and `Device`, the
   main program that composes boot, loop, beat and interrupts around it; `DeviceProofs` about both.
5. The clocks (`Rtc`, `StmRtc` over `Calendar`) + `ClockProofs`, `Ntp` and `Telnet` (their proofs, with those of
   `PageCatalog`, in `ServiceProofs`), `Printf` (proofs in `TextProofs`).
6. Left: the socket list once it compiles; liveness of the beat in `Device`; theorems about the response header
   (`ResponseHeader`).

Runs stay few: parts that share no state are scenes of one run (`bench`). Bounds: two or three of everything
that can collide, one more unit of data than the buffer it passes through.

## 3. Modules

### Scheduler

`Scheduler.tla` has one variable per field of `task_list[]` (an array over `Slots`), `running`,
and the main thread's position:

* `pc = "boot"` is `system_init()`, `"loop"` the main loop outside the dispatcher, `"body"` a task that
  is being executed, `"scan"`, `"reset"`, `"release"` the points of `task_dispatch()` between its accesses to
  `delay`, and `"fault"` a call through a null pointer.
* `Ops` says which API calls are made from which place; each call is an action
  (`task_add`, `task_delete`, `task_stop`, `task_resume`, `task_scheduler_start/stop/init`). `task_add` writes its
  fields in the order of the code and is cut around its accesses to `delay` (`AddDelay`, `AddPeriod`), so
  the interrupt can see a slot that is RUNNABLE and half filled.
* `task_scheduler_clock` is the interrupt: one action, possible between any two steps of the main thread.
* With `WordAtomic = FALSE` a 32-bit access is two accesses of one digit of base `Byte` each, in either
  order (`ReadHalf`, `WriteHalf`, `half`), which is what the compiler may emit for an 8-bit core. Two digits
  show everything four bytes do as far as torn values go. `Access` is the step at an access to `delay`: the
  first half of it (`HalfAccess`), which only an 8-bit core has, or the write that ends a round (`ResetDelay`).
  Passing runs take the halves, and `task_delete`, in the scene "tasks" of `bench`; `OnTask` groups the three
  calls that take an id.
* `time_calc` returns one or two values: 1/clock is rounded to a float before the product is rounded up, so a
  period that is a whole number of ticks may come out one tick longer.
* `ticks_asked` and `ticks_due` are history: ticks the caller asked for, ticks still to pass.

`task_get_status` and `task_get_count` change nothing and are not actions.

### HttpServer

One record of globals (`World`) and one operator per C function on it; `http_handle_client(w, c, g, o)` composes
them exactly where the C cases fall through. A handler is one action because nothing preempts it that shares its
state, except the alive counter (a byte of its own).

| state | code |
|---|---|
| `sock[c]` | the `socket_t` of the connection in slot c: `state`, `request_type`, `connect_type`, file name in `get_post_buffer` and the name parsed from it, `content_length`, `page`, what the line buffer holds of a file, `alive_time` |
| `page[p]` | `current_ptr`, `end_ptr`, `bpos`/`file_position`, file handle of `page_t` |
| `file[h]` | FAT32 handles: which file is open and where it is read |
| `eth[c]`, `tx[c]` | the stack's socket state (3 / closing / 0) and its unacknowledged transmit buffer |
| `post`, `posted` | `post_response[]`, the last call of the callback |
| `sent`, `hdr` | history: units of body written, length announced |
| `rest` | the sockets the beat has still to visit: the loop variable of `socket_manager_cleanup()` |
| `peers` | none: what each peer may send in this behaviour, chosen from `Traffic` |

Actions: `Connect`, `Reset`, `Data`, `Ack`, `Fin` (the peer and the stack), `alive_time_update` (interrupt),
`socket_manager_cleanup` (system beat). The beat visits one socket in a step (`BeatStarts`, `BeatVisits`), since the
timer may tick between two of them; the main loop does nothing else meanwhile (`rest = {} /\ MainLoop`). The stack and
FAT32 are external: their calls return any outcome callers can tell apart (`Outcomes`, switched on by `Faults`).
The loop over a file's bytes is a function of the room in the transmit buffer (`PutBytes`).

Lengths are units: one unit for a header, one for an error text, a few for a page. What matters is
where the transmit buffer ends in a body, and all positions occur.

### HttpRequest

`get_client_request()` and the classification of lines in the line parser, call by call, over streams of runs of
characters and line ends. A run has a length, so short lines (not parsed) and long lines (buffer full) occur.
`socket` is what survives between calls; the count of line ends is local to a call, as in the code: `Reading` gives the
reader after each piece of a segment. What the properties compare it with knows nothing of segments: the lines of the
whole stream (`LineStart`, `LineLength`), those long enough to be parsed (`Parsed`), and whether all are as they should
be (`GoodLines`).

### HttpClient

Same style as `HttpServer`: operators on a record of globals, one action per external event. `client` is
`client_request` (connection, send flag, capture length, swap handle), `sockets` the pool as a list, the newest
first, because a socket may have no connection yet (`eth = NULL`) and is found by that; `swap` is the swap file's
contents as the numbers of the units in it, `files` the FAT32 handles, `server[c]` how far the peer is, and
`reported` the last call of the file callback with the state in which its socket was closed.

Actions: `http_client_request_file` (a task; refused, failed or connected), `http_client_request_pending`,
`Established`, `Reset`, `Poll`, `Fin`, `Header`, `Body` (the server, each a call of `http_client_handle`),
`alive_time_update`, `socket_manager_cleanup` (one socket in a step, `rest` counts those left). A FIN carries no data. The second close at the end of a download
(fall-through at `http_client.c:642`) is modelled by `CloseTwice`; the memory it reads after the release is not.

A segment (`Header`, `Body`) carries units of body and what `get_response()` makes of it. The count of line ends is local
to a call, so an empty line that comes in two segments (`"end_cut"`) is not seen: the body is then read as lines of the
header, perhaps bad or too long ones, until an empty line stands in it, and what comes before that is lost (`skip`,
`skipped`; `Misread`, `Behind`). A `FAT32_Close()` that fails (`"close_fails"`) stays where the code leaves it: for the
swap file the capture is given up and the socket released with the handle open (`CloseSwap`), after the copy both files may
stay open (`Stay`, `StayOne`). A read or write of the copy that fails (`"copy_fails"`) leaves a hole or wrong data
in a file that is reported all the same (`Copied`).

### SettingsStore, Settings, Device

`SettingsStore` is what callers of `settings_manager.c` rely on: a working and a durable copy, and the set of groups
whose durable copy is owed; only a byte of an owed group may change in the durable copy, and a group leaves the set only
when both agree. `Settings` implements it (`StoreImplemented`): `ram` is `current_settings`, `eeprom` the cells,
`job`/`group`/`address` the place in `settings_save_to_eeprom()`, one action per byte, with `PowerLost` between
any two. `touched` is history: groups changed since they were committed.

`Device` EXTENDS it with `main.c`: `at` is the place of the main thread (`board`, `rtc`, `card`, `init`, `web` of
`system_init()`; `read`, `dispatch` of the loop; `save`, `file` of `task_system_beat()`), `card` what is in the slot,
`file_download_flag` and `file_downloaded` the statics; the timer makes the beat `due` once the scheduler is started.
The card's interrupt is not modelled: `boardConf.c:43-44` enables the pin-change interrupt of the card's pin,
`card_change_ISR()` (`main.c:359`) is on the vector of INT2, which nothing enables. So nothing sets
`filesystem_change_flag`, the beat never takes the branch at `main.c:88-93`, and a card that is changed is not
noticed before the next restart; that is a hazard in `PROJECT.json`. `DeviceSpec => SettingsSpec` is proved.

### Calendar, Rtc, StmRtc, Ntp

`Calendar` has days, dates and BCD as functions; its `Instants` lie between 2000, since a chip keeps two digits of the
year, and the end of a signed 32-bit count of seconds in 2038. `Rtc` is the DS1307 as an array of registers and every call of the
driver as a change of it: setting and reading the time with the masks of the code, the 12-hour mode (in which setting
goes one register wrong), zone and summer time with 16-bit products, scratch memory with the chip's wrap-around, and
the strings of log and header as sequences of digits. `StmRtc` is the other board's clock. `Ntp` is a request with its
retries, answers that may be lost, delivered late or twice, the callback that sets chip and file system, and the beat
that advances the latter; a word has four "bytes" of base `BYTE`, and the count of seconds since 1900 wraps in the run.

### Telnet, LineParser, ChunkSize, Chunked, PageCatalog, ResponseHeader, Printf

* `Telnet`: sessions over a pool whose blocks keep what was in them. A session is the `nr`-th connection of its slot of
  the TCP table. A slot is used again, also before the `socket_t` of its last session is released
  (`socket_manager.c:104` compares the slot only); the new session then goes on in the old one's state and buffer.
  `since` is the session a block was handed out to, and text in a buffer is tagged with the session it was written for, so
  an answer that runs on into somebody else's text is seen. The sockets of the other servers are left out.
* `LineParser`: names as sequences of characters, of which those the parser looks for are told apart from all others
  (`Letters`), with what the line buffer holds behind the end of the line.
* `ChunkSize`, `Chunked`: the size line, and the arithmetic of positions over an answer cut anywhere. Positions are
  unsigned integers modulo `WRAP` (64 in the runs, 2^16 on the controller): a difference below zero becomes a large one.
  The loop of `get_data()` takes at least one character of the packet in a pass, so it makes at most as many passes as
  the packet has characters.
* `PageCatalog`: the list with calls that fail; each page owns a block of memory.
* `ResponseHeader`: the header as a sequence of the strings the code concatenates; extensions are spelled out.
* `Printf`: `tfp_printf()` for one conversion, 16-bit int, 8-bit field width.

`HttpTraffic` holds the catalog and the clients' traffic for the web server's runs. `MC*.tla` hold the instances.
`MCBench` has every smaller part: it EXTENDS those about which there are theorems (`Device`, the two clocks, `Telnet`,
`Ntp`, `PageCatalog`, `HttpRequest`, `LineParser`, `Printf`, `Chunked` and `Scheduler`), and INSTANCEs
`ResponseHeader`. `scene`, which no step changes, names the part that runs; the variables of all others keep their initial
values, so each part's reachable states are those of its own specification, and one run checks them all. Operators
marked "Faulty variant" are plausible bugs of the operator next to them; no specification uses them. Each property is broken by one of them (`mutants` in `PROJECT.json`).

## 4. Runs

| run | question | bounds, and why they are enough |
|---|---|---|
| sched_control | do control calls from the loop and from tasks keep the table right? | 3 slots (current, one before, one after the scanned slot), one of two periods: less than a tick, two ticks |
| sched_torn | is a task punctual on the 8-bit core? (no) | one slot |
| http_visitors | traffic `OwnOnes`: do two clients on pages of their own get their bodies, and POST data? Traffic `Sharing`: does sharing a dynamic page or a file corrupt positions or lose handles? | 2 connections; pages of 3 units against a buffer of 2, so a header and a body never fit together and every cut happens; POSTs of length 2 in up to 3 segments; requests in parts, bad, unsupported, too long, unknown pages; sizes a refresh can give below and at the initial one; 2 handles; idle sockets expire at the first tick without a packet (`MAX_ALIVE_TIME` = 0), so a timeout can come anywhere |
| http_live | does every transfer and every silent socket end? | one connection, all options, reuse of a slot before the cleanup |
| http_same_page | two clients of one page (broken) | as above |
| http_keep_alive | is the second request on a persistent connection served? (no: it is swallowed in `SM_HTTP_WAIT_TILL_DONE`) | one connection |
| http_file_refill | file longer than the buffer (broken) | buffer 2, file 3 |
| request_split | is a complete request always processed? (no) | all streams of at most 5 pieces |
| client_download | does a download keep the card, the pool and its own record consistent, and end? | 2 connections, 2 handles, bodies of 1 unit (not announced) and 3 units (announced) in every cut, header ends cut in two as well; DNS, connects, pool, opens, writes of the capture and the making of the swap file may fail; closes and the copy do not (below) |
| bench | do the smaller parts keep their promises? (scenes below) | see below |
| ntp_beat | does the beat keep the file system's time? (no) | ten seconds |
| chunked_download | is a complete chunked download whole? (no) | two chunks, cut between chunks only |

The scenes of `bench`:

| scene | shows | bounds |
|---|---|---|
| settings | `Saved`, `StoreImplemented`: resets between any two bytes; every initial EEPROM | a group of one byte, one of two; bytes of two values; the EEPROM has one cell behind record and defaults |
| device | the same under tasks, forms and the timer, and `LastParsed` | one card that comes and goes, two files, a second attempt; tasks change the second group only |
| rtc, stmrtc | `ClockTells`, `LocalSettles`, `ScratchApart`, `DateHeaderTrue` | a second before: the turn of a year, a leap day's noon, both changes of summer time, and in summer; zones east, west and out of range; 2 bytes of scratch memory, written with fitting and too large sizes |
| ntp | `AskedOnce`, `ClockWithinAge` | ten seconds, words of base 4, answers up to two seconds late |
| telnet | `AnswersOwnCommand`, `SessionGreeted` | two slots, one used twice and the other once, over two blocks; buffer of two pieces, a log that fits and one that does not |
| lines | `NameCut` | bases of 1, 8, 9 characters, extensions of 1, 3, 4 |
| chunks | `InOrder` | two chunks, cut anywhere |
| pages | `CatalogKept` | three blocks, two pages of a name |
| request | `ServesOnlyRequests`, `RefusedInTime` | streams of at most 5 pieces over 4 kinds of line and line end in every cut; two request lines fit the buffer, three do not |
| header | `HeaderWhole` | the extensions of the program's and the tests' pages and an unknown one, the largest size, buffer of 256 |
| printf | `PrintsArgument` | the words around 0, the powers of ten and 16, and the signs; widths 0, 4, 6, 255, 260 |
| tasks | `NoNullCall` | 2 slots; torn accesses of base 2, delays 0..3 |

Deadlock is not checked in `bench` and in the three runs of a stream, because streams, requests and the seconds of the
model end there.

The state counters that the code never bounds are cut where they stop mattering, and each cut is named:
`alive` at `MAX_ALIVE_TIME + 1`, the recorded body one unit after it went wrong (`Record`), streams at
`MaxPieces`, seconds at `LAST_SECOND`, pages of a name at `ADDED`, blocks at `BLOCKS`.

What the passing runs leave out on purpose, because the code does go wrong there and the finding is stated
elsewhere or listed as a hazard:

* In `sched_control` tasks do not stop or delete themselves: line 152 makes a task RUNNABLE when it returns,
  whatever it did to its own status. Tasks are added at boot only, since a tick between lines 72 and 73 shortens
  the period for good.
* In `bench`, scene `tasks`, nothing resumes, and no task deletes: the deleted id stays in its slot, so `task_resume()` of it
  (or the release after a self-delete) makes an empty slot RUNNABLE and the dispatcher calls a null pointer.
* `OwnBodyIntact` speaks of behaviours in which no two clients ask for one page, and `PostIntact` of those in which one
  client posts: pages and the POST buffer are shared, and two clients on one page do disturb each other
  (`http_same_page`). Both kinds of traffic are in `http_visitors`.
* No client of `http_visitors` asks to keep a connection on which it fetches a file: on a keep-alive connection a FIN
  after a completed file forgets the page before the socket is closed. With two such clients on one file, whose handle
  is kept in the page, one of its two files stays open.
* Peers in `http_live` fetch pages in memory; `open_fails` and `disconnect_fails` are in no passing run: an
  open that fails is answered with "200" and an error text, a disconnect that fails is retried by the next beat.

* In `client_download` memory suffices, disconnects succeed, a connection that opens is never taken for a
  failure, and no `FAT32_Close()` and no read or write of the copy fails. Without memory for a sector both files stay
  open (`http_client.c:387`); a connection opened by the last attempt (line 549) is a stray whose close resets the record
  of the next download; with `"close_fails"` among the `Faults` TLC finds `FilesClosed` violated (the socket is released
  with the swap file open, lines 348-352), with `"copy_fails"` `ReportedInOrder` and `CompleteIsWhole` (lines 394-400).
  `ReportedInOrder` claims the first unit of the body only for a download whose header ended in one segment: otherwise
  the capture starts behind a later empty line, which is in the run.
* `SessionGreeted` speaks of sessions that were given a `socket_t` of their own: one that takes over the `socket_t` of an
  earlier session of its slot is not greeted. `AnswersOwnCommand` lets such a session see what that earlier one left in
  the buffer. Both happen in the run.
* `LastParsed` is about the last file: `file_downloaded` keeps one of several.
* `LocalSettles` speaks of months in which the rule does not change, from the second look in a month on: summer time is
  decided by the local time computed before. The rule itself (8 March to 8 November) differs from the one
  `ds1307.h:34-36` gives, the second Sunday of March to the first of November.
* `ClockTells` leaves out the day's name in the header of a response: `ds1307_set_time()` writes the library's week
  day, from zero, and reading subtracts one more.
* `HeaderWhole` says nothing of the type of a page of unknown extension: the table ends before the row for it, the
  field gets neither a value nor a line end and takes the Connection field with it. No page of `main.c` has one.
* `NameCut` is checked for directories without a dot: `get_file_name()` takes the extension from behind the first dot of
  the line (`line_parser.c:78`), so `/v1.2/x.htm` would be cut to `x.2/x`. No page of `main.c` has a directory.
* `PrintsArgument` accepts zeros in front of a minus, which is what the printer does (`%05d` of -42 is `00-42`).

Other places where code and comments differ, without a run: `main.c:284` adds "tides.htm" and `main.c:212` handles forms
of "tide.htm"; the card's pin is set up as a pin change (`boardConf.c:43-44`) and handled as INT2 (`main.c:359`);
`task_get_tide_data` is added for a day under a comment of 12 hours (`main.c:296-297`); `task_add` is called with
an id more than its definition takes; `udp_request_NTP()` returns success after its last attempt failed (line 82).

### Fairness

The safety runs, `bench` among them, assume none.

* `Scheduler.FairSpec`: the timer ticks (hardware), the dispatcher's steps are taken (the main loop calls it for
  ever and a task returns; a task that never returns blocks the firmware by design). API calls are not fair.
* `HttpServer.FairSpec`: the timer ticks, the cleanup runs (a task every second), and a peer's stack acknowledges
  what it received while the connection is up. That is strong fairness, because the beat interrupts the polling of
  the network again and again and an acknowledgement can only arrive between two beats; it does so in the end since the
  main loop polls in every round. Peers owe no request, no FIN, no further data.
* `HttpClient.FairSpec`: the timer and the cleanup only. A server that keeps sending keeps a download alive for
  ever, so `SilentEnds` speaks of servers that fall silent.

## 5. Findings

1. `sched_torn`: the dispatcher's test `delay == 0` can be torn by the interrupt and be true hundreds of
   ticks early (`scheduler.c:147` against `scheduler.h:110`).
2. `http_same_page`: the position of a transfer belongs to the page, so two clients of one page corrupt each
   other's bodies (`http_server.c:353` against `socket_manager.h:147`).
3. `http_keep_alive`: a request that arrives when the response before it was acknowledged finds the socket in
   `SM_HTTP_WAIT_TILL_DONE`; the code goes back to `SM_HTTP_GET_REQUEST` without reading the packet, and the request is lost
   (`http_server.c:565-574` against `socket_manager.h:174` and `head_generator.c:67`).
4. `http_file_refill`: the byte sent at a refill is not counted; longer files get extra bytes
   (`http_server.c:389` against line 401).
5. `request_split`: the count of line ends is forgotten between calls (`http_server.c:62` against line 85).

6. `ntp_beat`: the beat, meant to run every 10 seconds, runs every second and advances the file system's time by ten
   (`main.c:295` against line 294).
7. `chunked_download`: the line end behind a chunk is read as the next size, zero, which ends the download
   (`http_client.c:276` against `line_parser.c:456` and `http_client.c:323`).

## 6. Proofs

`SchedulerProofs.tla`, for every `MAX_TASKS`, clock, set of periods and tasks:

* `TypeCorrect`: `Spec => []TypeOK`, for all uses of the API and both kinds of core. `TypeOK` alone is not
  inductive: a task that returns has its slot's delay reloaded, so the slot must exist. `TypeInv` adds
  `DispatchInTable` (while a task runs, `i` is a slot).
* `RunningCurrent`: `Spec => []RunningIsCurrent`, no further assumption. It is inductive together with `TypeInv`,
  because only the dispatcher writes RUNNING and it releases the slot it holds.
* `PunctualAtomic`: `Spec => Punctual`, assuming `Disciplined`: 32-bit access is atomic, tasks are added at boot
  only and the scheduler is started from the main loop. The invariant `PunctualInv` relates the countdown to the
  history: a waiting slot has `ticks_due <= delay`, and while it is being run the reload from `period` covers what was
  asked. The three parts of `Disciplined` are needed: dropping the first is finding 1, dropping the others lets a
  tick fall between the lines of `task_add`.

* `OnlyResume` (`OnlyResumeRevives`, if running tasks do not call `task_stop()`), an action property, from the types.
* `NeverNullCall` (`NoNullCall`) assumes `KeepsDeleted`: nobody deletes tasks, or running tasks delete none and no id is
  resumed. Without it the code does call through a null pointer (section 4).

`DeviceProofs.tla`, about the settings, for any number and sizes of groups:

* `SavedAlways`: `SettingsSpec => []Saved`. `Saved` says nothing of a group while it is written, so it is not inductive:
  `Inv` adds the type and `Progress` (the bytes of the current group below `address` are in the EEPROM; the group is
  flagged; nothing is flagged or changed before `settings_init()`). When the last byte of a group is reached `Progress`
  becomes `Saved` for it.
* `DefaultsAlways`: the addresses written lie below the record's size, the defaults do not (`2 * SIZE` cells and one
  more fit the EEPROM).
* `Implements`: `SettingsSpec => StoreImplemented`. The working copy is the EEPROM itself while the manager is off, and
  during a restore every group is owed. Each step is shown to be one of the abstract store or a stutter.
* The layout's assumption says that every byte lies in a group. For consecutive offsets that follows by induction
  over the groups, which the provers here cannot do; TLC evaluates it for the layout of the run.

and about the main program, for any cards, files and number of attempts:

* `ProgramUsesSettings`: `DeviceSpec => SettingsSpec`, so the theorems above hold of the whole program.
* `ProgramTypes`: the types of both, from `MainTyped` and the theorem about the settings.
* `LastParsedAlways`: with `FileInv` (a file that waits is the last reported).

`HttpServerProofs.tla`, for any connections, pages, sizes, buffers, handles and traffic:

* `ServerTypeCorrect`, `PositionAlways`, `PostsIntact` (no hypothesis beyond the assumption on the constants), `OwnBodies`
  (no slot of the stack's table is taken again before its socket is released: with that the history of a body starts
  anew under an old socket) and `FilesClosedAlways` (`FilesNotKept`: no keep-alive connection on which a file is fetched;
  without it the property is false, see section 4). Which failures happen is arbitrary otherwise.
* The invariant is `ServerInv`. `Shared` is about what all sockets share: positions below the ends of their pages, for each
  file at most as many open handles as sockets serving it, the last POST whole. `Local` is about one socket: its name,
  page and options come from its own peer (`SocketFits`), what was sent is what the page's position says (`BodyFits`), and
  while it waits for the rest of a POST the buffer holds nothing but its own units (`PostFits`).
* `FilesClosed` is not inductive: with one socket serving a file that is open twice a close would leave one. Hence the
  count (`FileCount`). `BodyIntact` speaks of completed bodies only; `BodyFits` follows a body from its header on.
* The argument follows the code: a lemma for each C function shows that the part of the invariant that concerns the
  connection still holds (`Sound`) and that the other sockets, the pages their own peer does not ask for, and the buffer
  unless it posts, are left alone (`Kept`); both together are a `Step`. Steps compose like the fall-through of the cases
  (`StepChain`), up to a state in which the handler may return (`Settled`). `Kept` is what makes the other sockets'
  part survive, when no two peers ask for one page, or only one posts (`OthersLocal`).

`HttpClientProofs.tla`, for any connections, handles, pool sizes and answers:

* `ClientTypeCorrect`, `NeverLockedUp` (`RequestHasSocket`), `ReportsInOrder`, `ReportsWhole`, `ReportsOnce`
  (`ReportEndsRequest`) and `NoFileLeftOpen`, from one invariant, `ClientInv`, in the same style: one socket serves one
  request, the swap file is open only for a socket that captures, and what is in it is a run of the body, from behind what
  was skipped on, whose length is the count (`InStep`). `NoLate` is assumed throughout (a connection whose attempts were
  given up does not open all the same). `NoFileLeftOpen` also assumes that memory suffices and no close fails,
  `ReportsInOrder` and `ReportsWhole` that no read or write of the copy does: with each of these failures the code goes
  wrong (section 4). Headers may be cut anywhere; `Runs` says what that leaves of the order.

`ServiceProofs.tla`, about the SNTP client, for any boot time, number of attempts, age of answers and base of a byte:

* `EpochOfStamp`: swapping bytes and subtracting the seconds from 1900 to 1970 gives back the time, also for stamps
  that have wrapped. `RequestAsksOnce` (`AskedOnce`), `ClockFollowsAnswers` (`ClockWithinAge`) and the types
  follow from `NtpInv`, which adds that an answer on its way is no older than `AGE` (`AnswersFresh`), that a loop that runs has not
  counted below zero (`TriesLeft`), and that a request under way has not asked yet and sends only once it has an address.

about telnet, for any slots, any number of connections in each, and any number of blocks:

* `OwnAnswers` (`AnswersOwnCommand`), `Greets` (`SessionGreeted`) and the types from `TelnetInv`: text in a block that is in
  use was written for a session of its slot since the block was handed out (`OwnText`), and a socket in use has been past
  the greeting, so that whoever it was handed out to was met (`InUseGreeted`); a session that takes the socket over
  changes neither. No session is ever left between choosing a command and answering it, which is why one function pointer
  is enough for all.

and about the page catalog: `CatalogCorrect` (`CatalogKept`), for any names and sizes of pages and any failing insert.

`ClockProofs.tla`, for any set of instants from 2000 to 2038, any settings at boot, and whatever the DS1307 holds at first:

* `RtcClockTells` (`ClockTells`) and `StmDateHeaderTrue` (`DateHeaderTrue`): once told the time, a clock gives it to every
  reader. The invariants (`RtcInv`, `StmInv`) say that the registers show the date of the present instant. Under them are
  lemmas about the calendar (every second has one date, and the date gives the second back; a year, a month and a day are
  where the arithmetic of the code looks for them) and about BCD (two digits survive the conversion and the masks).
* `RtcScratchApart` (`ScratchApart`): no size or address the scratch memory calls take reaches the time or the
  configuration, and what they accept is read back. `RtcLocalSettles` (`LocalSettles`): when the last local time was of the
  month it is now, and the rule does not change in that month, summer time decided by that last time is decided right; the
  zones in question are those from nine hours west to eight east. The month of the time without the zone may be another one.

`HttpRequestProofs.tla`, for any requests, lengths of lines, buffer, and segments:

* `ServedRequests` (`ServesOnlyRequests`), `Refusals` (`RefusedInTime`) and the types, from `RequestInv`. Its part `Tracks` says
  that while a socket reads, its buffer holds the line the stream is in, its type says whether a line was parsed, and no
  line read is bad; `Served` that what is processed ends with an empty line. `RefusedInTime` alone is not inductive:
  it does not know how much of the present line the buffer holds.
* `Reading` and `CharsUpTo` are recursive functions. That they exist and what they do at each step is proved from a least
  counterexample; then one lemma for a run of characters and one for a line end carry the invariant through a segment.

`TextProofs.tla`, about the texts a controller of few bytes reads piece by piece:

* `ChunksInOrder` (`InOrder`), for any chunks, any cuts and any `WRAP`: a download never captures a byte of the body twice
  or before an earlier one, although it may lose bytes at the end (finding 7). The invariant, `ChunkInv`, is that what is
  captured ascends and lies below all that is still to come (`Tight`); it does not matter which sizes the code believes
  in, only that each read takes the packet from the front (`Taken`). Two facts carry it: the body bytes of the whole
  answer ascend, proved over the chunks from a least counterexample, and a pass of the loop adds the next piece.
* `NamesCut` (`NameCut`) and `LineTypes`, for any names, any rest of an earlier line and any directory without a dot
  (`NoDotAbove`: with one the property is false, see section 4). `Spelled` says that a text has a name at a place; both
  functions of the parser are shown to cut any such text alike, the long base and extension included.
* `PrintsRight` (`PrintsArgument`), for any words of 16 bits, texts and widths. `Printed` is the printer's state between two
  calls of `divOut()`: what is written is the sign and a numeral without leading zeros, and its value, times the divisor,
  plus what is left, is the magnitude. `DivOutPrints` carries it from one divisor to the next, `LastDigit` to the end. The
  property gives no bound on the widths, but says what a field's width is only below 256, where the char holds it.

The assumptions on the constants are the weakest the definitions make sense under, but for the two limits of the web
server that are the point of it: pages are not empty, and buffers hold at least one unit. TLC evaluates them in every
run of a module they belong to.

What stands in for induction: the loop over a file's bytes is a function on a range of numbers, and facts about
all its values are proved from a least counterexample (`LeastElement`, over the well-foundedness of the order), since
the library's induction theorems take an operator and the provers cannot instantiate those.

Only model-checked:

* liveness (no proof system support for fairness and ENABLED here);
* `HeaderWhole` (`ResponseHeader`), which is about lengths of strings and of printed numbers. `BenchTypeOK` is the
  conjunction of the parts' type invariants, each of which is a theorem of its own part.

`FlashBodyIntact`, `PersistentServes` and `BodyIntact` on shared pages are false (section 5).

## 7. Not modelled

The parts listed as `not_modelled` in `PROJECT.json`: the logger and the sensors are file and bus I/O without state of
their own, ftp, smtp and the modem are stubs, the rest are page data, bench programs and dead code.
`socket_manager.c` does not compile as it stands (line 68
names an undeclared identifier, line 71 is not C): its list is half rewritten, so the pool is modelled as its
callers use it. The tide and pump modules that `main.c` calls are not in the repository. The two-wire bus never fails, and a
released `socket_t` has no fields in `HttpServer` and `HttpClient`, while the code reads some of them after the release (in
`Telnet` it keeps them). Initialisation of the network stack and of peripheral registers is left out.
