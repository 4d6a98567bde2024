# TLA+ models of the Raspberry Pi test-board tooling

This directory holds TLA+ models of the scripts that run kernel tests on a
Raspberry Pi test board or under QEMU and decode the results. TLC
configurations check the models. TLAPS proofs cover ten of the properties
the runs check, one of them a refinement, for every value of the constants.

## The system

| Part | Source | What it does |
|---|---|---|
| Telemetry decoder | `run-pcb-emulation.py`, `PCBEmulator.parse_results` (238-310) | Scans the captured UART bytes for frames `code(100..105) len(2, BE) payload` and builds the results dictionary. |
| Capture loop and emulation session | `run-pcb-emulation.py`, `capture_uart`, `wait_for_completion`, `run`, `cleanup`, signal handler | Starts QEMU. A daemon thread reads its stdout one byte at a time until the 8-byte end marker. The main thread waits on an event with a deadline, then writes the log, parses it and picks the exit code. |
| Session controller | `rpi-test-controller.py`, `main` (285-357) | Runs validate → ping → upload → run → poll for status → fetch log → save log → exit. |
| HTTP transport | `HttpController` (93-159) | One `requests` call per operation. |
| Serial transport and frame codec | `SerialController` (162-282) | `send_command` writes `[CMD][LEN:4 LE][DATA]` and reads the reply with a 1 s read timeout. The upload sends raw 64 KiB chunks, each acknowledged with one byte. |
| Test board firmware | not in this repository | Answers the controller's commands and runs the tests. |
| `find_windows_linker.py` | `src/src/Liquip.ilc.Build/scripts` | Runs `where <linker>` for seven linkers in order and prints what the first successful call wrote, for MSBuild. |

The two scripts do not talk to each other. The emulation runner is the
"stream + sentinel" strategy of spec 4.4: a capture thread and a main thread
share one buffer. The controller is the "poll" strategy: a single thread
drives the board through one of two transports.

## Modules

- **TelemetryParse**: the loop of `parse_results`.
  - `data` is the buffer, `offset` the loop index and `report` the results dictionary. `pstate` records whether the loop is running or finished.
  - Actions: `ScanEnd` (the `while` guard fails), `SkipByte` (resynchronisation, lines 259-261), `Overrun` (`break`, 264-265) and `ParseFrame` (one decoded frame and the offset advance, 263-308).
  - `Apply` is the `if/elif` chain over the codes.
  - Names and messages are abstracted away. Test numbers, durations, tallies, statuses and record order are kept.
- **TelemetryDecoder**: runs that loop on one capture from the constant set `Streams`. A ghost variable `sent` holds the frames the kernel emitted.
  - `ExpectedReport(sent)` is a declarative statement of spec 4.2: records in order; SUITE_END tallies plus the records after the last complete SUITE_END; total from the last SUITE_START or complete SUITE_END.
  - `DecodesSentFrames` compares the decoder's result with `ExpectedReport(sent)`.
- **MC_TelemetryDecoder**: builds the captures by encoding every sequence of at most 3 frames from 8 frames. The frames cover every code, short and full payloads and an empty payload. A noise prefix goes in front and a trailer behind: the marker, a cut frame, or nothing.
- **PCBEmulation**: `run()` with its two threads. `TelemetryDecoder` is instantiated on `uart`.
  - QEMU writes the kernel's bytes one at a time, or exits. It is the environment and has no fairness.
  - The capture thread: `CaptureByte` appends a byte and then tests the marker; `CaptureEOF` handles `read` returning `b''`.
  - The main thread: `Validate`, `StartQemu`, `Tick`, `WaitCompleted`, `WaitTimedOut` (cleanup and `return 1`), `WriteOutput`, `Parse` and `Finish` (exit code, `finally: cleanup`).
  - `Signal` is the SIGTERM/SIGINT handler at any point.
  - Time is counted in ticks of the wait, up to `Timeout`.
- **BoardController**: `main()` of the controller, with the transport chosen in `Init` (`args.mode`) and the board as environment.
  - A request is issued (`Send`). Its outcome comes from `HttpExchange`, which answers, refuses (non-200) or raises, or from `SerialRecv`/`SerialTimeout`, which read the next reply on the link or time out after 1 s.
  - The controller step for that place in `main()` then consumes the outcome.
  - The serial link is two FIFOs, `tx` and `rx`. `BoardServe` answers or refuses the head of `tx`, at any time, so a reply can arrive after the controller stopped waiting. `BoardFinish` ends the tests, completed (with or without failures) or in error.
  - `close()` leaves `self.serial` set, so `get_uart_log` after it raises. The model's `SendGetLog` has that crash as its first disjunct.
  - A command is its `CMD_` name. A reply keeps its `RSP_` code and what the controller reads from it (a state name, "a log"). A ghost field `for` numbers the request the board answered.
- **SerialCodec**: `send_command` (lines 186-208) at the level of bytes, for a sequence of `NumCalls` STATUS calls.
  - `tx` holds the request bytes on the link. `pend` holds the reply bytes the board has sent that have not arrived. `rx` is the port's input buffer.
  - The board (`BoardReply`) takes a whole packet and queues a frame from `Replies`, encoded the way the spec says. `Arrive` moves one byte into `rx`, so bytes may come as late as they like, including after a read gave up.
  - The controller's actions are the reads of lines 196, 201 and 206. Each read either gets its `n` bytes or times out with the bytes that are there (`ReadRspTimeout`, `ReadLenTimeout`, `ReadDataTimeout`), and returns what lines 198, 203 and 208 return.
  - `Le32` is `struct.unpack('<I')`. TLC's integers stop at 2^31 - 1, so every length of 2^31 or more is the one value `LongLength`. Such a length is only ever compared with the few bytes in the buffer.
  - Ghost variables record, for each result, the bytes the call read, the offset in the reply stream where it started reading (`start`) and whether every read was complete (`full`). `sent` maps the offset of each frame to the frame. `BoardReply` extends it as an explicit function rather than with TLC's `@@` and `:>`, which the provers cannot expand. The meaning is the same.
- **LinkerData**: the constant data of `find_windows_linker.py`, shared by the next two modules: the list of linkers, what `where` prints, the printed lines, and `FirstOf`, the first linker of the list with a copy on the PATH.
- **LinkerSearch**: the abstract specification of the script, as MSBuild sees it. One step `Run` sets the exit status, the reported output and the whole printed text from the PATH. Without `where` the status is 1 and nothing is printed. Otherwise there is one not-found line per linker before the first installed one, then the repr of its matches, or, with none installed, a line per linker and the "No linkers" message.
- **LinkerFinder**: `find_windows_linker.py`. `Init` chooses the machine: how many matches `where` finds for each linker (0..`MaxMatches`) and whether `where` exists.
  - `Try` is one turn of the `for` loop, with three outcomes: the matches are returned; `CalledProcessError` prints the skip message and continues; a missing `where` raises an uncaught `FileNotFoundError` (exit status 1).
  - `NoneFound` is `return None`. `Report` is `__main__`.
  - Output is a sequence of lines of tokens: a path is a token named by its linker and match number, and `Repr` is `str()` of the bytes that `print` writes.
  - `Search == INSTANCE LinkerSearch WITH ...` is the refinement mapping. Until the script exits, the abstract state shows no output and no result, and the loop index and the `report` stage are hidden. `ImplementsSearch == Search!Spec` is checked as a PROPERTY.
- **TelemetryDecoderProofs**, **PCBEmulationProofs**, **BoardControllerProofs**, **LinkerFinderProofs** and **SerialCodecProofs**: the TLAPS proofs.

## Runs

| Run | Expect | What it shows |
|---|---|---|
| `MC_TelemetryDecoder.cfg` | pass | `DecodesSentFrames` and `ParseTerminates` hold on 2340 captures with quiet noise and a marker or a cut frame after the frames. |
| `MC_TelemetryDecoder_Edge.cfg` | violation | Captures the passing run leaves out. (1) With the buffer `<<104,0,0>>`, a frame with an empty payload at the very end is never decoded, because of the loop guard `offset < len(data) - 3` (line 257). (2) Boot text "ing" puts byte 105 in front of the frames. It is read as SUITE_END with length 0x6E67, which overruns the buffer, so the loop breaks and every frame is lost (lines 259-265). TLC reports (2) first. In `run()` the empty report of (2) has `failed == 0`, so the runner exits 0 on a failing suite: `ExitZeroOnReport` proves that exit 0 follows the report, and here the report is wrong. Restricting `Streams` to `MCStreamsUnmarked` or `MCStreamsBanner` shows each alone. |
| `MC_PCBEmulation.cfg` | pass | The kernel's frames come after a quiet CR LF banner or after real boot text (`MCAllStreams`). QEMU may stop or die at any point and signals may arrive at any point. Even so: the marker is detected exactly once, at its end; parsing never runs while the capture thread can append; `run()` always ends. |
| `MC_PCBEmulation_Timeout.cfg` | violation | On timeout, `run()` returns 1 without writing the captured bytes (lines 366-368). |
| `MC_BoardController.cfg` | pass | On both transports, the board may refuse, answer late or never finish. Even so: exit 0 only with a completed board and a written log; a chunk is written only after an OK ack; `main()` always exits. |
| `MC_BoardController_ReplyMatchesRequest.cfg` | violation | A STATUS reply that missed the 1 s read timeout is returned to the next STATUS command. |
| `MC_BoardController_CompletedRunIsReported.cfg` | violation | Serial mode: after `completed`, `close()` then `get_uart_log()` raises. Exit status is 1 and no log is written (lines 272-273). |
| `MC_BoardController_ExitZeroOnlyIfTestsPassed.cfg` | violation | HTTP mode: exit 0 follows from the status word alone, even with failed tests or an empty saved log (line 357). |
| `MC_SerialCodec.cfg` | pass | `DecodesAlignedFrame`: a call that starts reading at a frame boundary and gets every byte it asks for returns exactly that frame's code and payload, however the bytes are split across reads. `TypeOK` includes that the decoded length is never negative. `CallsReturn`: every call returns, even when the board stops. |
| `MC_SerialCodec_ReturnsWholeFrame.cfg` | violation | `ReturnsWholeFrame` is spec 4.1/2.3: a code other than RSP_ERROR comes only from one whole frame, read from its first byte. `send_command` breaks it in three ways. (1) An RSP_OK whose length bytes miss the 1 s timeout is returned as RSP_OK with no data (line 203); TLC reports this one. (2) A STATUS reply whose payload byte is late is returned with an empty payload (line 206), because nothing compares its length with `data_len`. (3) After a cut reply, the next call reads the leftover bytes: a length byte `0x00` becomes its response code, and the link does not resynchronise (line 196/201). |
| `MC_LinkerFinder.cfg` | pass | For every machine with up to 2 matches per linker, and with or without `where`, the loop implements `LinkerSearch` (`ImplementsSearch`): the script's exit status and its whole output are the one-step specification's. |
| `MC_LinkerFinder_PrintsLinkerPath.cfg` | violation | A found linker is printed as the repr `b'...\\r\\n'` of the bytes, after the skip messages of the linkers tried first. The comment at line 27 says the output is for MSBuild. |

### Bounds

- **Decoder**: at most 3 frames.
  - That is enough for a SUITE_END followed by more records, and for two records around a SUITE_START.
  - The frames are chosen so that every payload-length branch of `Apply` is taken: `>= 2`, `>= 6`, shorter, empty.
  - Payload bytes include both bytes of a 16-bit field.
- **Emulation**: `Timeout = 2` ticks. That is enough for the deadline to race the marker.
  - Streams: a passing suite, a failing one, one whose SUITE_END tallies report a failure while no FAIL frame was seen, and one with no marker, each after a CR LF banner. The passing and the failing suite also come after the boot text "ing\r\n", whose 'i' is a telemetry code byte, as in real kernel output.
  - The marker is the real 8 bytes. The stream is short enough that the timeout can fire before, during and after the marker.
- **Codec**: 2 calls, and three reply frames: RSP_OK with no payload, and RSP_DATA with the payload `4` (running) or `255`.
  - Two calls let the leftover of a cut reply reach the next call.
  - The 255 byte makes a misaligned length field with its top bit set.
  - `Arrive` moves one byte at a time, so every way of splitting a frame across the reads and their timeouts occurs.
- **Linker**: `MaxMatches = 2`, over all 7 linkers. That gives none, one and several matches of each linker, with and without `where`.
- **Controller**: 2 chunks (so an ack sits between two chunks) and `Timeout = 2` polling rounds (so a late reply meets the next poll).

### Fairness

- The script's own threads get weak fairness: the capture thread, the main thread and the wait's clock. Python schedules both threads, and `Event.wait(timeout)` returns by the deadline.
- The controller's steps get weak fairness, and so do its transport calls. Every `requests` call has a timeout and the serial port is opened with `timeout=1`.
- `SerialCodec` gives weak fairness to the controller's reads. Each of them returns by the port's timeout. `LinkerFinder` needs no fairness: it checks an invariant and the safety part of a refinement.
- QEMU, the board and the signals get none. They may stop, never answer or never come.

Deadlock checking is off in every cfg: each model ends in a final state where the process has exited.

## What is proved

TLAPS proves, for all values of the constants:

- **`TelemetryDecoderProofs!TypeCorrect`**: `Spec => []TypeOK` for the decoder, for any set of captures.
  - `TypeOK` covers the whole loop state. The point is that `parse_results` only reads inside the buffer and that its results keep their shape. The frame-length bytes are in range only because the loop guard ensures `offset + 3 < Len(data)`. The payload is a `SubSeq` inside the buffer only because of the `Overrun` test.
  - The inductive step has one case per action. It rests on lemmas about the helpers: `U16` of two bytes is a 16-bit value (`BytePair`, `U16Type`), `Num` and `Duration` are naturals, and `Apply` maps a well-formed report and payload to a well-formed report (`ApplyType`, one case per code).
- **`PCBEmulationProofs!StableBuffer`**: `Spec => []ParseOnStableBuffer`, the single-writer handoff of spec 5.
  - The invariant alone is not inductive: `WaitCompleted` moves the main thread to `write_output` without looking at the capture thread.
  - The inductive invariant `IInv` is `Control /\ HandoffInv`. `Control` states the finite domains of the three control variables. `HandoffInv` says three things: before `StartQemu` the capture thread is idle; in the write and parse states the event is set; once the event is set the capture thread has stopped or been killed.
  - The module also states `Handoff`, `Spec => []HandoffInv`, as a lemma that other proofs use.
- **`PCBEmulationProofs!SentinelOnce`**: `Spec => []SentinelDetectedOnce`, the sentinel detection of spec 8, for every end marker (of length at least 1), stream and timeout.
  - The argument: `capture_uart` tests for the marker after every byte it appends and stops at the first match. So before the event is set the marker occurs nowhere in `uart_data`. The byte that completes it adds one occurrence, ending at that byte.
  - The lemma `MarkerAppend` carries this. It states the occurrences of the marker in `Append(s, x)`: those of `s`, plus one starting at `Len(s) + 2 - Len(EndMarker)` exactly when the new buffer ends with the marker. Its proof splits on where the window `i .. i + Len(EndMarker) - 1` lies relative to the new byte.
  - The inductive invariant `SInv` adds to `SentinelDetectedOnce` that the stream and the buffer are byte sequences and that `Len(uart) <= written`. So `Head(Pipe)` is the next byte QEMU wrote (`PipeHead`).
  - TLC checked `SInv` on the `emulation` instance before the proof was written.
- **`PCBEmulationProofs!TypeCorrect`**: `Spec => []TypeOK` for the emulation, with the inductive invariant `TInv == TypeOK /\ SInv`.
  - `Parse` is a step of the decoder, which the model reaches through `Dec == INSTANCE TelemetryDecoder WITH data <- uart`. Its typing is taken from `TelemetryDecoderProofs!StepTypeOK`, reached through a second instance `DP` of the proof module.
  - The provers do not identify `Dec!X` with `DP!X`. `SameSets`, `SameApply` and `SameStep` prove the two readings equal, the `CASE` of `Apply` separately with Zenon, which also lets `ParseKeepsType` cite the decoder's lemma.
- **`LinkerFinderProofs!FirstLinkerWins`**: `Spec => []ReportsFirstInstalled`, for every `MaxMatches`. This is a step towards `Refinement` below, which implies it; no run checks it separately.
  - The inductive invariant `LInv` is the loop invariant of the `for` statement: every linker before `i` was not found, the loop stops at `i` only on a linker that was, and then `found` is what `where` printed for it (`Returned`). It also records the exit status of each way out.
  - `FirstIs` shows that the `CHOOSE` in `FirstInstalled` picks that `i`, or gives 0 when the loop ran off the list.
  - TLC checked `LInv` on the `linker` instance before the proof was written.
- **`LinkerFinderProofs!Refinement`**: `Spec => ImplementsSearch`, for every `MaxMatches`. The loop and `__main__` implement `LinkerSearch` under the mapping `Search`.
  - The proof has the standard shape. `Init` maps to `Search!Init`. Every step of the script maps to a `Run` step or to a stutter. `Try` without `where`, and `Report`, are the `Run` steps. The other turns of the loop and `NoneFound` change nothing the mapping shows.
  - The inductive invariant is `RInv == LInv /\ OutInv`. `OutInv` records what has been printed: one not-found line per linker before `i`, then the report line after `__main__`. A run without `where` has printed and returned nothing (`NoWhere`).
  - `NotFoundAppend` shows that one more turn of the loop prints the next linker's line. It rests on `AppendLast`, built on `AppendProperties` and `SeqEqual` of `SequenceTheorems`. `WhereNotNone` shows that the matches of an installed linker are never `None`, so `__main__` prints their repr.
  - The instance brings its own copy of the data operators, which the provers do not identify with the originals. `SameData` proves them equal.
  - The message is the operator `NoLinkersLine`: the SMT backend cannot encode a string literal with spaces, and the proof never needs its text.
- **`PCBEmulationProofs!ExitZeroOnReport`**: `Spec => []ExitStatus`, for every kernel output, marker and timeout, whenever signals arrive. Exit status 0 means the wait completed before the deadline, the output log holds the whole capture, `parse_results` has finished, and its report counts no failure.
  - `ExitStatus` is inductive only together with `IInv` and `TInv`. `IInv` gives that a parsing main thread means a stopped capture, which `Finish` passes on, so no byte is appended after exit. `TInv` gives that the failure count `Finish` tests is a natural number.
  - TLC checked `ExitStatus` on the `emulation` instance before the proof was written.
- **`BoardControllerProofs!TypeCorrect`**: `Spec => []TypeOK` for the controller, both transports and the board, for every `NumChunks` and `Timeout`.
  - `TypeOK` is not inductive. `ChunkAck` and `StatusDone` increment `chunk` and `clock`. They stay in range only because the request being answered was sent under the loop conditions `chunk < NumChunks` and `clock < Timeout` (the `for` over the chunks at line 231, the `while` of `wait_for_completion` at lines 147 and 267).
  - So `IInv` adds three things: a pending CHUNK request means `chunk < NumChunks`; a pending STATUS request means `clock < Timeout`; an outcome that is still pending has a request behind it. The last one is what makes `Answer(req, ...)` a well-formed reply in `HttpExchange`.
  - Every action has a lemma of its own. The five requests share `RequestIInv`, which rests on `SendType`. The board's replies rest on `AnswerType` and `BoardAfterType`.
  - The model writes the empty log (`''`) as the value `"empty"`. The SMT backend cannot encode the empty string literal.
- **`BoardControllerProofs!ExitZeroSound`**: `Spec => []ExitZeroOnlyIfCompleted`, for every `NumChunks` and `Timeout`.
  - The argument: the board's "completed" can only be left by serving an UPLOAD or a RUN. `main()` sends each of them once, before its first STATUS, and the board serves the link in order. So a "completed" that reaches `success` is still true when `Save` exits 0.
  - The inductive invariant `CInv` is conjoined with `IInv`. It has these parts:
    - Over HTTP the link is empty.
    - A request in flight belongs to its phase of `main()`, and a PING is sent only on an open port.
    - A queued RUN means `main()` is past the run phase or waiting for that RUN.
    - No UPLOAD or RUN follows a RUN on the link.
    - Before RUN is sent, and while an HTTP RUN is pending, the board has not started.
    - Once started, no UPLOAD or RUN is on the link.
    - Every "completed" in a reply on the link, in the outcome or in `success` agrees with the board.
  - There is one lemma per action. The hard case is `BoardServe`, split by the command it serves.
  - TLC checked `IInv /\ CInv` as an invariant of the controller at 2 and 3 chunks and polling rounds before the proof was written.
- **`BoardControllerProofs!ChunkAfterOk`**: `Spec => ChunkOnlyAfterOk`, the action property of spec 8 on the chunk upload, for every `NumChunks` and `Timeout`.
  - The invariant `AckInv` says that while the upload loop is in `chunks` with no request outstanding, the last outcome is an `RSP_OK`. `UploadDone` and `ChunkAck` stay in the loop only on that reply. While no request is outstanding, only a new request changes the outcome: a transport step needs a pending outcome, and `IInv` ties a pending outcome to an outstanding request.
  - `ChunkStep` shows that only `WriteChunk` turns `req` from `"none"` into `"CHUNK"`. The theorem combines the two with `IInv` and `CInv`: `CInv` places each outstanding request in its phase.
  - TLC checked `AckInv` on the `controller` instance before the proof was written.

- **`SerialCodecProofs!AlignedFrames`**: `Spec => []DecodesAlignedFrame`, for every set of reply frames and every `NumCalls`. Whatever the timing of the bytes, and whatever replies earlier calls left unread, a call that starts reading at the first byte of a frame and never times out returns that frame's code and payload.
  - The property is far from inductive. It speaks only of finished calls, but whether a call decodes correctly depends on every byte the call has read so far, and on where the bytes in the buffers came from.
  - The inductive invariant `DInv` follows every byte by its offset in `wire`, the ghost record of all the board has sent. It has five parts:
    - `WireOK`: `rx` and then `pend` are the bytes of `wire` from `ReadPos` on.
    - `CallOK`: `got` is the bytes of `wire` from `start` up to `ReadPos`. In the `len` and `data` states it holds the code, and then the four length bytes that `dataLen` was decoded from.
    - `ResultsOK`: each complete result read consecutive bytes of `wire`, and `RecOK` says its code, length and payload are what those bytes spell.
    - `SentOK`: each sent frame's encoding sits in `wire` at its offset.
    - `TypeOK`.
  - There is one lemma per action. The reads share `TakeLemma`, which covers `Take(k)`, and `ReturnLemma`, which covers appending a result. The two timeouts that return mid-frame share `ShortReturnDInv`.
  - `BoardReply` appends to `wire`, so `RecOKExtends` keeps what earlier calls read in place. The new offset is not yet in `sent`, because every earlier frame ends at or before the old end of `wire`.
  - Lemmas about the encoding carry the arithmetic:
    - `EncodeFacts`: the layout of `Encode`.
    - `Le32RoundTrip`: `Le32` inverts `Le32Bytes` below 2^31.
    - `Le32Range`: a decoded length lies in `0..LongLength`.
    - `Le32Same`: `Le32` reads only four bytes.
  - `AlignedRecord` concludes. The five header bytes of the result and of the frame are the same bytes of `wire`, so their codes and lengths agree, and the payloads agree byte by byte.
  - This rests on `CodecAssumption`: frames carry at most `LongLength` bytes, the largest length the model's `Le32` represents.
  - TLC checked `DInv` on the `serial_codec` instance before the proof was written.
- **`SerialCodecProofs!TypeCorrect`**: `Spec => []TypeOK` for `send_command`, from the same `DInv`. In particular the length decoded from any four received bytes lies in `0..LongLength`.

Only TLC checks the rest:

- Liveness (`ParseTerminates`, `RunTerminates`, `ControllerTerminates`, `CallsReturn`) needs fairness and ENABLED, which TLAPS cannot prove.
- `DecodesSentFrames` is checked only by TLC. It compares what the loop of `parse_results` computes over a whole buffer with `ExpectedReport(sent)`.
  - `ExpectedReport` is built on `SelectSeq`. The standard module defines `SelectSeq` by a recursive function, which the provers cannot unfold.
  - Relating the loop to it is an induction over the buffer. The library's induction theorems take an operator parameter, and no installed prover can instantiate that.
  - `ExitZeroOnReport` proves what the exit status means in terms of the report `parse_results` computed. What that report means in terms of the frames the kernel sent is the decoder's business, and the decoder is wrong on real boot text (`MC_TelemetryDecoder_Edge.cfg`).
- `LinkerFinder`'s `PrintsLinkerPath` is a violation run, a finding, and has nothing to prove.

## Not modelled

- `start_renode`: `run()` never calls it.
- argparse and console output.
- In `SerialCodec`, the `if not self.serial` return of `send_command` (lines 188-189) and the upload's raw chunk writes. `BoardController` models both.
- The size of QEMU's unread stderr pipe (line 181). The model's QEMU may simply stop writing, which covers the effect.
- The controller's final marker test (line 350) only chooses the message printed. Decoding with `errors='ignore'` removes the marker's non-UTF-8 bytes, so that test is never true.

## Plan for later work

- Write an abstract session specification (spec 4.4: Idle → … → Completed | Failed | TimedOut), and show by refinement that both the emulation runner and the controller implement it.
- State `ExpectedReport` with a fold over the frames instead of `SelectSeq`, so that a future prover could relate it to the loop of `parse_results`.
