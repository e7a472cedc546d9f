# TLA+ verification of Esp32Car

Esp32Car is the firmware of a two-motor rover (an ESP32 or ESP32-CAM), and a web
client that drives it. These modules model the parts of it where order, timing and
concurrency decide whether the rover does what its driver wants, and above all
whether it stops. Each module is translated from the C++ or JavaScript source named
in its header. `PROJECT.json` maps every definition to its lines.

Paths below are relative to the repository; `L/` stands for
`lib/RoverApplication/src/`.

| Module | Models | Proofs |
|---|---|---|
| `Watchdog` | what the deadman promises, in two variables | |
| `RoverControl` | motors, deadman, the commands that move the rover, reboot and crash | `RoverControlProofs` |
| `EspNowTransport` | the ESP-NOW queue between the Wi-Fi task and the main loop | `EspNowProofs` |
| `LogRing` | the ring of `RemoteLogger`, its writers, `/logs` and the telnet dump | `RemoteLogProofs` |
| `TelnetLog` | the vector of telnet clients, walked on several tasks | `RemoteLogProofs` |
| `WsClient` | the request/reply client of `web/js/ws.js` | `WebClientProofs` |
| `DriveInput` | buttons, keyboard, keepalive, cache and slider of the control page, down to the motors | `DriveProofs` |
| `Autonomous` | the autonomous loop of `web/js/autonomous.js` and the user who takes over | `AutonomousProofs` |
| `Recorder` | the recorder of `web/js/recording.js` and its reverse replay, on the page of `DriveInput` | `DriveProofs` |
| `SessionLog` | the event buffer of `web/js/logger.js`, its requests, and the log server | `WebClientProofs` |
| `CameraServer` | the camera's two HTTP servers, the stream, frame buffers, flash light, `set_camera` | `CameraProofs` |
| `WifiSetup` | captive portal and its page, stored credentials, power cuts | `ApplicationProofs` |
| `OtaUpload` | firmware uploads and the answer to them | `ApplicationProofs` |
| `MqttBridge` | the MQTT transport and the broker that keeps its status | `ApplicationProofs` |
| `Application` | the main loop around these three: start-up, transports, commands, reboots | `ApplicationProofs` |
| `MCRoverControl`, `MCAutonomous`, `MCApplication` | arguments, readings and passwords for TLC | |

To run a check: `tlc -config MCEspNow.cfg EspNowTransport`. To check proofs:
`tlapm RoverControlProofs.tla`.

## 1. The system

### 1.1 Components

**Firmware.** `RoverApplication::setup` (`L/RoverApplication.cpp:36`) boots Wi-Fi,
configures the deadman and registers the transports that the configuration enables.
`loop` (`:46`) then calls each transport's `loop()`, the distance sensor and
`tickDeadman`. *Every command is dispatched on this one task.* What runs beside it:
the Wi-Fi task (the ESP-NOW receive callback), the HTTP tasks of the camera, and any
task that logs, through the `esp_log` hook.

| Component | State | Operations | What makes it correct |
|---|---|---|---|
| Motors (`MotorManager`, `MotorControl`) | per side: action, speed, pins, LEDC duty; last selection | `action`, `setPWM`, `begin` | pins and duty follow the last command |
| Deadman (`RoverController`) | `motorsActive`, `lastCommandMs`, timeout | `setMotorAction`, `setMotorSpeed`, `tickDeadman`, `reboot` | a silent client's rover stops in time, a commanded one never early, also when `millis()` wraps |
| Dispatcher (`CommandDispatcher`) | none | thirteen command handlers | bad arguments are rejected without effect |
| Registry (`TransportRegistry`) | transports, running or not | `begin`, `loop`, `stop`, `set_transport` | any order of begin and stop; a transport may stop itself |
| ESP-NOW | `incoming`, `running`, static `instance`, the radio's registration | `begin`, `stop`, `loop`, receive callback | no frame lost, repeated, reordered or kept across sessions; no null instance |
| WebSocket server | clients of the library | receive, broadcast | replies in the order of the requests |
| Serial | line buffer | `begin`, `stop`, `loop` | a line is a command |
| MQTT | `enabled`, the client's connection; at the broker session and retained status | `begin`, `stop`, `connect`, `loop`, messages | the retained status tells whether the rover is there; it comes back by itself |
| HTTP, OTA | the `Update` object | pages, `/api/cmd`, `/logs`, update | what the page is told of an upload is what the next boot takes |
| `RemoteLogger` | ring, head, counter; vector of telnet clients | append, `readSince`, dump, `loop`, `broadcast`, `stop` | readers get the tail of the log; no client outlives its element |
| Wi-Fi set-up | file, its cache, station, portal page | start-up, scan, connect, save, forget | what is stored joins a network, and nothing is stored after a forget |
| Distance sensor | filter window | `update` | plausible readings only |
| Camera | frame buffers, `led_duty`, `isStreaming`, the flash light | stream, still, bitmap, settings, registers, `set_camera` | whatever fails, buffers come back, the light goes out and the next viewer gets in |

**Web client** (`web/`): plain JavaScript, one event loop, so each handler runs to its
next `await`.

| Component | State | Operations | What makes it correct |
|---|---|---|---|
| `ws.js` | socket, `alive`, reconnect timer, queue of resolvers | `send`, `disconnect`, socket events | each promise settles, with its own reply |
| `controls-input.js`, `drive.js`, `control.js` | held buttons, pressed keys, keepalive, `heldInputs`, `lastSent`, slider | pointer, key, blur, slider events | the rover does what is held; the deadman spares a driver |
| `autonomous.js` | `active`, `abort`, the position in the loop | `start`, `stop`, the loop | it drives on sight only, gives way to the user, ends |
| `recording.js` | recorded moves, replay | record, replay, abort | a replay mirrors the moves and ends stopped |
| `logger.js`, `server/app.py` | buffer, session id; SQLite | events, flush, beacon | events stored, once, in order |
| vision, store, picker, toasts | DOM, local storage | | display |

### 1.2 How they interact

    finger -> controls-input -> control.js -> ws.js ==WebSocket==> RoverWebSocketServer
                                    ^                                    |
                     autonomous.js -+- recording.js         CommandDispatcher::dispatchRaw
                                                                         |
    ESP-NOW peer ==radio==> onRecvThunk -> incoming -> loop() -> dispatchRaw -> RoverController -> motors
    telnet client ==TCP==> RemoteLogger::loop() -----------------^            ^
    any task -> esp_log hook -> appendToRing, broadcast         tickDeadman --+

A reply goes back through the transport the command came by; the WebSocket server
broadcasts it to all of its clients and there is no correlation id. `set_transport`
starts and stops any transport, the one it came through included.

### 1.3 What is hard

The hazards are listed, each at its line, in `PROJECT.json`. In short: a `STOP` of one
side and the deadman of both; a millisecond clock that wraps; a callback of the Wi-Fi
task against `stop()` of the main task; a logger without a lock; a vector walked while
it changes; replies matched to requests by order alone; a cache of what was sent;
timers that one button shares with another; a loop with eight awaits at each of which
the user may take over; a replay that takes turns with its user; batches of events whose
requests fail half-way or are answered too late; reboots and crashes under way; camera
handlers on two tasks that share buffers and a light without a lock; credentials written line
by line; an update object that outlives its upload; a broker that finds out later than the
rover, or earlier.

## 2. Plan

The order is that of what is at stake: first what stops the motors, then what brings
commands to them, then what issues commands, then the rest.

1. What stops the motors and what brings commands to them: `RoverControl` with `Watchdog`;
   `EspNowTransport`; `LogRing`; `TelnetLog`.
2. What issues commands: `WsClient`; `DriveInput` and `Recorder`, which extends it;
   `Autonomous`; `SessionLog`.
3. The rest of the firmware: `CameraServer`, whose tasks run beside the main loop; and
   `WifiSetup`, `OtaUpload` and `MqttBridge`, which share it, composed in `Application`.
4. The theorems: the deadman first, the safety of every module whose invariant is about two
   tasks or a fault next, then the whole path from a finger to the motors (section 5).

What would come next: the drive input over a connection that is lost (`WsClient` in the place
of the wire of `DriveInput`), and in it `transports.js`, whose panel does not look at the
`running` of the reply; the intervals of the MQTT client in the clock of `RoverControl`: an
attempt to connect that lasts as long as `reconnectIntervalMs`, counted from its beginning
(`RoverMqttClient.cpp:119-123`), leaves one pass of the loop between two attempts.

## 3. The modules and their code

### RoverControl, Watchdog

Code: `L/Control/MotorManager.cpp`, `MotorControl.cpp`,
`L/Controller/RoverController.cpp`, the handlers of `set_motor`, `set_motor_pwm` and
`reboot` in `L/Command/CommandDispatcher.cpp`, `setup` and `loop`.

All commands run on one task, so a handler is one step. `SetMotor`, `SetMotorPwm` and
`Reboot` are the handlers down to the pins; `TickDeadman` is one iteration's tick;
`SetupCompleted` configures the timeout, before any transport can dispatch; `Restart`
follows the `delay()` of a reboot, which runs on the main loop with the motors as they
are; `Crash` is a brownout or an abort, at any time. `Elapse` is a millisecond: `now`
wraps at `MillisMod`, and an iteration lasts at most `MaxLoopMs`. `idle` is a history
variable: the true age of the last driving command.

The arguments of the commands are pairs of *any* integers, because the handlers check
nothing more. `Watchdog` states the promise with `moving` and `idle` alone: a vehicle
never sees a millisecond pass beyond `Limit` since its last command.
`ImplementsWatchdog` is the refinement, `moving` being `Driving`, whether any bridge is
driven.

The limit is the timeout, plus one iteration of the loop, plus the delay of a reboot.
`docs/ARCHITECTURE.md:116-118` names only the first; the other two are what the code
adds. `MaxLoopMs` is a parameter because the code does not bound an iteration: a
connection attempt of MQTT blocks it for seconds.

### EspNowTransport

Code: `L/EspNow/RoverEspNowServer.cpp`. The mutex makes each access to `incoming` one
step; `instance`, `running` and the registration are read and written step by step,
`Receive` being the callback up to its checks and `Enqueue` its second look at
`instance`. `begin` and `stop` are cut likewise. `Dispatch` handles one frame of a
batch; a frame may itself be a `set_transport` for ESP-NOW ("off", "on"). External is
what `esp_now_unregister_recv_cb` guarantees: `CallbackEnds` says whether it waits for
a callback in progress.

### LogRing

Code: `RemoteLogger::appendToRing`, `readSince`, `sendRingTo`, `totalWritten`
(`L/Log/RemoteLogger.cpp`), `handleLogsData` (`L/RoverWebServer/RoverWebServer.cpp`).
`appendToRing` takes no lock, so it is cut at its memory accesses, and each task keeps
the value it has loaded. `size_t` wraps at `SizeMod`. A poll is two steps, as it is two
calls. The page keeps its cursor across `Reboot`.

### TelnetLog

Code: `begin`, `stop`, `loop`, `handleClientInput`, `broadcast` of `RemoteLogger`. `it` is
the iterator of `loop()`, `walk` that of a broadcast on another task. A step that touches
an element that is gone sets `freed`; the model stops there because the program has no
defined behaviour. What the clients type is left out, but for the command that stops
telnet.

### WsClient

Code: `createConnection` in `web/js/ws.js`. A request is a number and so is its reply; 0
is a reply broadcast because of another client. Every request is one the dispatcher knows, as the
page sends no other; to a malformed or unknown command there would be no reply. `TimeOut` is the timer of the oldest
request (all have the same delay), `OnClose` covers a lost socket, a failed attempt and
our own `close()`. `slipped` is a history variable: whether, on this socket, a request
has timed out or a foreign reply has come.

### DriveInput

Code: `web/js/controls-input.js`, `drive.js`, and `dispatch`, `applyHeldInputs` and the slider
of `control.js`. The actions are the DOM events, one per event, each with all that its
handler sends; `Deliver`, `TickDeadman` and `Tick` are the rover and the time. Messages are delivered in
order before the next tick, so the module is about the page, not about latency. It has no
other driver than the user and loses no connection: what a lost `STOP` does is in
`RoverControl`.

### Autonomous

Code: `web/js/autonomous.js` and its use in `control.js`. `pc` names the eight awaits the loop can be
suspended at; each step runs from one to the next. The reading is any of `Raw` or a
failure; the hint of the vision module is a free choice; `HARD_CAP_MS` may be over at any
head of the loop; `MAX_PIVOT_MS` after any burst, and at the latest after `MaxBursts`. It
is never reset when the side flips, so the second side gets a single burst, as in the code.

### Recorder

Code: `web/js/recording.js`, `dispatch` in its single-argument form and the press and release
handlers of `control.js`, over the page, the wire and the rover of `DriveInput`. A replay is a coroutine:
`leg` says whether it sleeps in a move (`driving`, with the time that is `left` of the move
and the `nap` to the next keepalive) or between two moves (`resting`), `todo` what comes
after. Every sleep ends on time, and every message arrives before the next tick, as in
`DriveInput`; the keyboard, the slider and the loss of focus are left to that module. What aborts
a replay is a press of the d-pad: the click on the replay button that would, too
(`web/README.md:152-153`), cannot happen, because the button is disabled while a replay goes on
(`control.js:264`).

Where the rover is, is the history variable `trail`: the word of its motions, one letter per
tick, in which a motion next to its opposite cancels out. No geometry is assumed but that a
motion followed by its opposite leads back. It is followed only as long as the user is
`ByTheBook`: one button at a time while recording, none otherwise; else the rover is `astray`
and nothing is said of where it is. Pressing two buttons is not undone by the replay, which
keeps only one action per move. Nor is a press of less than 100 ms, which drives the rover and is
not recorded: `tapped` keeps such a press apart. The trail has no speed in it. A replay drives at
what the slider says then (`control.js:240`), so the rover is back only if nobody has moved it.

### SessionLog

Code: `web/js/logger.js`; the event handlers of `server/app.py`. A request is a record: its
batch, whether the page still waits for it, and whether the server has stored it. The server
commits row by row, so `BreakOff` leaves any part of a batch behind; `TimeOut` leaves the
request on its way, where it may still be handled, or lost (`Vanish`). `before`, the number
of failures of a batch before this request, keeps apart a request given up and its
repetition, which a set would make one. Nothing calls `end()`, and snapshots take the same
way one at a time without a buffer; both are left out. So is the death of the page with a
batch in flight: no program on it can answer for that.

### CameraServer

Code: `L/Camera/app_httpd.cpp`, `CameraManager.cpp`, `handleCamera` of the dispatcher. Each HTTP
server is a task that serves one request at a time: `web` (settings, stills, registers) and
`video` (the stream). A handler is cut wherever it blocks or touches what the two share: the
frame buffers of the driver (`free`), the heap, `led_duty`, `isStreaming`, `detection_enabled`,
the sensor, and the duty of the flash light's channel (`led`), which `enable_led` computes in one
step and writes in another. `set_camera` comes from the main loop at any time. Every call that
can fail does: no frame in time, no memory, a conversion, a socket, a viewer that has left.

A missing sensor is a null pointer to most handlers; what follows is an exception and a
`Restart`. `lost` and `overtaken` are history variables: the frames that one error path of
`capture_handler` keeps, and whether the last write to the light was the page's, for a stream
that had ended. The sensor delivers JPEG, no handler changes that, and the build has no face
recognition: the branches for those cannot run.

### WifiSetup

Code: `L/WiFi/WiFiSetupManager.cpp`, `WiFiConfigManager.cpp`, the script of
`CaptivePortalHTML.h`, `forget_wi_fi`, `wifi` and `reboot` of the dispatcher. `file` is the lines
of the stored file and `config` the manager's cache; both outcomes of each mount are possible, and
of `remove()`, whose result the code does not look at: `told` is then "misled".
`handleConnectToNetwork` blocks the main loop, so only the power can come between its steps:
`ConnectEnds` answers, `ConnectSaves` writes, and a power cut there leaves `Torn`, any beginning of
the file. The station interface goes on joining by itself (`Associates`).

### OtaUpload

Code: `handleOtaUpload` and `handleOtaUploadFinish` of `RoverWebServer.cpp`, `L/Ota/OTAManager.cpp`. The
library's `Update` is external, modelled from its use: `begin` refuses while it runs, and fails
without a partition to write or without memory for its buffer; only the want of a partition is an
error to `hasError()`. A failed `write` stops it with one. The code prints what `begin` answers and
goes on (`:116`), and `write` and `end` then do nothing. `answered` keeps the last answer together
with what there was against the upload and how it was `begun`.

### MqttBridge

Code: `L/Mqtt/RoverMqttClient.cpp`. `wire` is the connection: it keeps the order of packets, and
loses them when the network goes. The broker's session outlives it until the broker notices
(and publishes the will) or the client connects anew. `enabled` and `connected` are what the rover
believes.

### Application

Code: `RoverApplication.cpp`, `TransportRegistry.cpp`, the dispatcher. It extends the three modules
before it and adds which transports run. The main loop does one thing at a time: `Free` is the
guard of everything that waits for it, and while the rover joins a network, receives an upload or
waits before a reboot only the world goes on. Commands come by any transport that runs, MQTT
included, and may switch any transport, the one they came by included. A restart clears all but
the file and the broker.

## 4. What is checked

### 4.1 Runs that pass

| Run | Question | Distinct states |
|---|---|---|
| `rover_deadline` | Do the motors of a silent client stop in time, never early, over wraps, reboots and crashes? Is the deadman a `Watchdog`? | 36062 |
| `espnow` | Does the queue survive begin, stop, and the two tasks? | 14324 |
| `log_ring` | With one writer: do readers get the tail, over both wraps? | 1671 |
| `telnet` | Does a pass of `loop()` read every client, and does a client that hangs up make room? | 9642 |
| `ws_client` | Do resolvers, requests and replies stay in step, do promises settle, does the page come back or stay away? | 66189 |
| `drive` | Whatever buttons, keys, slider and focus do: does the rover do what is held? | 841033 |
| `autonomous` | Wherever the user cuts in and whatever the sensor says: does the loop stay in its bounds? | 44736 |
| `recorder` | Does a replay lead the rover back, stop, and give way, and does the deadman let it? | 1483671 |
| `session_log` | Do events reach the database whatever fails, and how often? | 317338 |
| `camera` | Whatever fails in a handler: does it give back what it took, put the light out, and end? | 242319 |
| `application` | Over power cuts, broken uploads and lost brokers: are the stored pair, the answer of an upload and the retained status true, and does the rover come back online? | 229217 |

The properties, and why they could fail:

* `ArmedDeadline`, `DrivenDeadline`: the age of the last command, measured by the history
  clock, never exceeds the deadline while the deadman is armed, or a motor is driven. They
  relate the wrapped difference of two clock readings to true time. `NeverEarly` is the
  other side. `SilenceStops`: the motors do stop.
* `InstanceOutlivesCallback`, `NoStaleFrame`, `InOrderOnce`, `Answered`: across two tasks,
  sessions and a batch dispatched outside the lock.
* `ReadsWhatWasWritten`, `DumpIsTail`: modular arithmetic of two independent periods,
  against the sequence of bytes logged. `CountsEveryByte` and the like fail with a second
  writer (4.3).
* `NoneSkipped`, `PlacesAreFreed`: erasure during the walk.
* `InStep`: the queue of resolvers equals replies followed by requests on the wire; it is
  what FIFO matching rests on. `LeftForGood`, `Settles`, `ComesBack`: the life of a page.
* `NoGhostInput`, `RoverFollows`: the state at the end of a chain of four components,
  against the inputs held at its beginning, in spite of a cache that leaves messages unsent.
  `KeepaliveSpares`: the keepalive beats the deadman however presses restart it.
* `DrivesOnSight`, `ExitStops`, `CancelSticks`, `OnlyBackupOutlivesCancel`, `CancelEnds`,
  `DeadSensorEnds`: a loop of eight awaits against a user at each of them.
* `CancelSticks`: whichever await a cancel finds the loop at, the next step is its end, but for one
  backup.
* `ComesHome`: times cut into keepalives, in reverse order, through the cache and the wire,
  against every motion of the rover since the recording began, a press too short to be recorded
  excepted. `ReplaySpared`: a
  move may be longer than the deadman. `AbortSticks`, `RestsUnlessDriven`: the loop awakes
  after the abort, when the user may be driving already.
* `NothingLost`, `TwiceOnlyIfFailed`, `Delivered`: batches that overlap, fail in part, are put
  back, and are handled after all.
* `GivesBack`: buffers and blocks add up over every path of eleven handlers, each with several
  ways out; one of them does keep its frame, and `lost` counts those. `DarkAtRest`: three writers of
  one light, two of them on one task, with the duty computed before it is written.
  `HandlersEnd`: a viewer that has left is noticed and the next one gets in, and every request is
  answered, without any call being owed success.
* `StoredPair`: the file, against the cache, a mount that fails, a power cut at each line and a
  forget; whatever is left is no wrong pair, and no forgotten one unless `remove()` failed.
  `UploadToldTrue`: the answer, against an object that keeps its state from one upload to the
  next, and that may fail to begin, to write and to end. Want of memory in `begin` is excepted.
  Both exceptions are in 4.3.
  `OfflineWhenGone`: "offline", will and disconnect, against the order in which rover and
  broker learn of a loss. `ComesOnline`: neither side can be left waiting.

Each module has one type invariant. Those of `RoverControl` (also `MCRoverMotors.cfg`), `WsClient`,
`DriveInput`, `CameraServer`, `WifiSetup`, `OtaUpload` and `MqttBridge` are proved; the others hold when added to
the configuration of their run. So do `LoopStaysInside` in `MCTelnet.cfg`, `NoFreedClient` there with
`SelfOff` and `OtherTasks` both `FALSE`, and `DutyIsSpeed` and `OnlyPartialStopDisarms` of
`MCRoverControl` in `MCRoverMotors.cfg`, with every command of the protocol (31218 states).

### 4.2 A run that finds a disagreement

It checks a statement of the repository that the code does not keep.

* `rover_half_stop` (`DrivenDeadline`): `setMotorAction` disarms the deadman on a `STOP`
  whichever side it selects (`RoverController.cpp:40-41`). Stop one side, lose the
  connection, and the other runs on. The web client stops with one message per side
  (`web/js/control.js:196-203`). `docs/ARCHITECTURE.md:116-118` calls the deadman "the
  safety net" that "forces all motors to STOP".

### 4.3 More counterexamples

These checks are not in the list of runs. Each one, run by hand, ends in a counterexample to
the property it names; where it names no configuration of its own, the property takes the place
of those of the one it names, under the specification without fairness.

| Configuration (module) | Property | What the code does, and what the repository says |
|---|---|---|
| `MCRoverBadArgs` (`MCRoverControl`) | `BadArgsSideEffectFree` | Action 3 arms the deadman, motor 3 with `STOP` disarms it while motors run (`CommandDispatcher.cpp:201-207`). `docs/PROTOCOL.md:85-86`: "failed commands are side-effect-free". |
| `MCLogRingRace` (`LogRing`) | `CountsEveryByte` | Two tasks lose an increment (`RemoteLogger.cpp:121-129`). `RemoteLogger.h:52`: "total bytes ever written". |
| `MCLogRingGap` (`LogRing`) | `NothingSkipped` | What is logged between `readSince` and `totalWritten` (`RoverWebServer.cpp:197-201`) is in no poll. |
| `MCLogRingReboot` (`LogRing`) | `OnlyWrittenBytes` | After a reboot the page's cursor is ahead of the counter, and slots never written are returned (`RemoteLogger.cpp:133`). |
| `MCTelnetSelfOff` (`TelnetLog`) | `NoFreedClient` | A client that switches telnet off destroys the vector under `loop()` (`RemoteLogger.cpp:66-95`). |
| `MCEspNowStopped` (`EspNowTransport`) | `NoDispatchWhenStopped` | `stop()` clears `incoming`, not the batch `loop()` has already swapped out; its frames are dispatched after it, where the comment at `RoverEspNowServer.cpp:62` says they are dropped. |
| `MCDriveArc` (`DriveInput`) | `DeadmanSparesHolder` | Releasing one of two held buttons stops the keepalive of both (`web/js/controls-input.js:42`); the deadman stops the rover under the other, against the comment at `:15-16`. |
| `MCRecorderOverride` (`Recorder`) | `UserTakesOver` | A press of the direction being replayed is not sent, because of the cache; and the stop at the end of the aborted move stops the user. `web/README.md:151-152`: a press "cancels the replay so you can take over". |
| `MCSessionLogRetry` (`SessionLog`) | `GivesUp` | A failed batch is put back every time (`logger.js:86-92`). Comment at `:83-85`: "give up after the next attempt also fails". |
| `MCSessionLogDrop` (`SessionLog`) | `DropsOldest` | Flushes that overlap and fail put their batches back in the order of the failures, so the front of the buffer need not be the oldest (`logger.js:86-92`). Comment at `:90-91`: "drop the oldest". |
| `MCAutoOverride` (`MCAutonomous`) | `UserKeepsTheRover` | The stop at the end of `backup()` comes after the command of the user who took over (`autonomous.js:112-114`; comment at `:232-235`). |
| `MCAutoBackup` (`MCAutonomous`) | `NoMoveAfterCancel` | A loop cancelled while it waits for a reading may still begin a backup (`autonomous.js:166-182`; comment at `control.js:384`). |
| `MCWsLate` (`WsClient`) | `RepliesMatch` | A reply later than its timeout resolves the next request, and so on, with one request in flight at a time, for which `web/js/ws.js:4-7` says the scheme works. |
| `MCRecorderCache` (`Recorder`) | `CacheInSync` | Recorder and autonomous mode stop the motors with a `motor(2, 2)` that passes the cache `lastSent` by; the next press of the last direction is not sent. `web/js/control.js:245-246`: it "will see the real current state". |
| `MCCamera` (`CameraServer`) | `NoFrameLost` | A still for which `malloc` fails keeps its frame buffer (`app_httpd.cpp:460-464`); after `fb_count` of them there are no frames until a restart. |
| `MCCamera` (`CameraServer`) | `LitForCapture` | A stream that ends during the 150 ms in which a still waits for its light puts it out (`app_httpd.cpp:361-364`, comment; `:796-799`). |
| `MCCameraFlip` (`CameraServer`) | `KeepsOrientation` | `set_framesize` resets the orientation, as the comment at `CameraManager.cpp:85-88` says; `set_camera` (`CommandDispatcher.cpp:168`) does not set it again. |
| `MCAppSaved` (`MCApplication`) | `ConnectedIsSaved` | "Connected" is answered before the pair is saved (`WiFiSetupManager.cpp:107-108`), and the empty password of an open network is never taken at boot (`:14`). |
| `MCAppStatusLags` (`MCApplication`) | `StoredPair` | If `status()` could still be "connected" right after `begin()`, an untried pair would be saved (`WiFiSetupManager.cpp:97-108`). |
| `MCApplication` (`MCApplication`) | `UploadWorks` | An upload that is broken off leaves `Update` running: nothing handles `UPLOAD_FILE_ABORTED` (`RoverWebServer.cpp:111-123`), and the next upload fails. |
| `MCApplication` (`MCApplication`) | `RebootsIntoNew` | If `begin()` has no memory for its buffer it fails without an error; the code prints that and goes on (`RoverWebServer.cpp:116`), answers "OK, rebooting" and reboots into the old image. `RoverWebServer.cpp:99`: "Upload complete"; `README.md:356`: "the rover reboots into the new firmware on completion". |
| `MCApplication` (`MCApplication`) | `ForgottenIsGone` | If `remove()` fails the cache is cleared all the same, `forget_wi_fi` answers "Forget WI-FI Success" (`CommandDispatcher.cpp:145`), and the rover joins the network again (`WiFiConfigManager.cpp:64-68`). |
| `MCRecorder` (`Recorder`) | `TapsComeHome` | A press of less than 100 ms drives the rover and is not recorded (`recording.js:75`), so the replay ends elsewhere. `web/README.md:143` says that such taps are ignored; `recording.js:3-6`: replay walks the list backwards. |
| `MCAppPortal` (`MCApplication`) | `LeavesPortal` | A rover that booted while its network was down stays in the portal when the network is back and the station has joined it (`WiFiSetupManager.cpp:18-20`). |
| `MCAutoPwm` (`MCAutonomous`) | `PwmFollowsDistance` | `applyPwm` is overridden at once by `dispatch`, which sends the slider's speed (`autonomous.js:93`, `control.js:240-242`; comment at `autonomous.js:3-4`). |

With `Passwords = {"padded", "right"}`, `MCApplication.cfg` violates `StoredPair` as well:
`readConfig` trims the lines it reads (`WiFiConfigManager.cpp:27`), so that a password that begins
or ends with a blank joins from the portal and never after the reboot.

### 4.4 Bounds

* `RoverControl`: timeout 3, iteration 2, reboot 2, clock modulo 9. All that matters of the
  1500 ms and 2^32 is their order, `T + L + R < MillisMod`; 9 is the least that holds
  it with a margin, so every wrap happens next to every deadline. The proofs
  hold for all values. Two speeds tell a duty that follows from one that does not.
* `EspNowTransport`: 4 frames and 3 sessions: a batch of two behind a frame that switches
  the transport, and a frame of each session for the next.
* `LogRing`: 3 slots, counter modulo 8, 11 bytes: 3 does not divide 8, the ring
  wraps three times and the counter once.
* `TelnetLog`: two places, four connections: erase first or last, turn one away, refill.
* `WsClient`: three requests, two lost sockets, one foreign reply, two requests pending at
  once: an awaited between two forgotten, and a reconnection after a slip.
* `DriveInput`: three of the four directions and stop, three held at once, two speeds, two
  messages on the way when the user acts again; keepalive every 2 ticks, deadman 4 (the code:
  700 and 1500 ms). Backward mirrors forward in `computeMotorCommands`, and with
  forward adds the case that equals stop.
* `Autonomous`: the constants of the code in cm, and readings on either side of each
  threshold; three bursts until the pivot is out of time.
* `Recorder`: two moves of up to four ticks, the keepalive of a replay every two, the deadman
  three: a move longer than the deadman, and one that does not divide by the keepalive;
  forward, left and stop, two held at once; one replay, as nothing but `lastSent` outlives it. A
  press of one tick is too short to be recorded.
* `SessionLog`: batches of two in a buffer of two (the code: 500 in 2000), four events, two failed
  requests: two batches at once, a batch put back in front of newer events, an overfull buffer.
* `CameraServer`: two buffers, as with PSRAM, and two blocks: both tasks may hold one of each, and
  one lost frame leaves one. Two sizes, on either side of the 400 pixels up to which faces
  are looked for; duties of zero, below and above the limit of a stream.
* `Application`: a network with a password and an open one, a right and a wrong password; images of
  two blocks, so that a broken-off upload may have written some; three packets on the wire, the two of a connection and
  one more; two transports besides MQTT, one to switch the other.

### 4.5 Fairness

* `RoverControl`: the loop ticks, time passes, a reboot ends. No command, crash or
  reboot is owed. `loop()` is called for ever by the Arduino core.
* `EspNowTransport`: the main task goes on, and a callback that has begun ends: both are
  scheduled by FreeRTOS. No frame and no `begin` or `stop` is owed.
* `TelnetLog`: `loop()` is called and goes on. Hanging up, knocking and typing are not owed.
* `WsClient`: browser timers fire (`TimeOut`, `Connect`), a connection attempt opens or
  closes. No reply is owed. Losses are bounded by `MaxLosses`, so `ComesBack` says that a page
  keeps trying until an attempt succeeds, not that one does.
* `Autonomous`: sleeps end and `send()` settles, which is `WsClient!Settles`.
* `SessionLog`: the flush timer fires (`setInterval`), the server handles a request it has
  got, and its answer arrives, unless it is one of the `MaxFails` that fail. Of losses nothing is
  owed: `Delivered` is about what happens when they have ceased.
* `CameraServer`: both HTTP tasks are scheduled by FreeRTOS, and every call they block in has a
  time limit (a frame 4 s, a socket 5 s). No viewer and no request is owed.
* `Application`: the steps of a blocking call follow (each has a time limit), the restart at the
  end of a delay too, and the broker takes what arrives. `Connect` and `Notice` are strongly
  fair: every pass of the loop calls `mqtt.loop()` or `connect()`, but between two passes a
  command, an upload or a lost network may disable them again and again. No network is owed:
  `ComesOnline` begins when it stays.
* `LogRing`, `DriveInput` and `Recorder` have no liveness property and no fairness.

`telnet`, `ws_client` and `session_log` do not check for deadlock: a telnet model
that has touched a freed element, a page that has left and sent its last request, and a
logger that found no server or has nothing left to ship, stop.

## 5. What is proved

`RoverControlProofs`, for every timeout, iteration, reboot delay and clock
width with `T + L + R < MillisMod` (`TimeAssumption`), and all integer arguments
(`ArgsAssumption`):

* `TypeCorrect`.
* `ArmedDeadlineHolds` and `NeverEarlyHolds`. `ArmedDeadline` is not inductive: the tick
  compares clock readings. `DeadlineInv` adds that the wrapped difference
  equals the true age while armed (`ClockIsTrue`) - which is why the clock must
  be wide enough for the deadline -, that the timeout is configured
  once the loop runs (`Configured`), and that nothing is armed during set-up.
* `OnlyPartialStopDisarmsHolds`: the exact hole in the above (4.2), inductive by itself, with
  the lemma `StopAllStops`.
* `DrivenDeadlineHolds` and `Refinement` (`ImplementsWatchdog`), under the premise
  `WholeStops`, that clients stop both sides together. Then `RunningIsArmed` is invariant,
  and the deadline of the armed deadman is that of the motors. Without the premise
  both fail: this is `rover_half_stop`.

`EspNowProofs`, for any number of frames and sessions, if unregistering waits for a
running callback (`CallbackEnds`):

* `InstanceOutlivesCallbackHolds`: `FlagsInv` ties `instance`, `registered` and `running`
  to the position of the main task.
* `NoStaleFrameHolds`: `QueueInv` adds that the frames in the queue and the one in the
  callback are of this session, and that there are none once `stop()` has cleared the
  queue.
* `DispatchedInOrder` (`InOrderOnce`), without that assumption: `OrderInv` says that what is
  dispatched, the batch, the queue and the frame in the callback, one behind the other, hold
  growing numbers, so that a step may only move a frame to the end of the next.

`WebClientProofs`, about `WsClient` for any number of requests, losses and foreign replies, and about
`SessionLog` for any buffer sizes and any number of events and failures:

* `TypeCorrect` and `LeavesForGood`, with `ReconnectInv`: a reconnect is due only without a
  socket and while the page stays.
* `StaysInStep` (`InStep`), by three lemmas on sequences: a served request moves from one
  queue to the next without changing their concatenation; a sent one joins its end;
  a reply leaves from its head.
* `AnswersMatchInTime`: with no late reply and no other client (`InTime`), `RepliesMatch`
  holds, over any losses and reconnections. `MCWsLate.cfg` shows that the premise is needed.
* `NothingLostHolds`. `NothingLost` is not inductive: it counts requests that nobody waits for,
  which may vanish. `KeptInv` leaves those out: their events are in the buffer again, in the
  database, dropped, or went with a beacon.
* `TwiceOnlyIfFailedHolds`, from `KeptInv` and `CopyInv`: of an event, its rows, the requests that
  carry it and have not been stored, and its place in the buffer are together no more than one and the
  failures of requests that carried it. A failure is what puts a second copy into the buffer while the
  first may still be on its way; a row takes the place of a request.

`CameraProofs`, for any number of buffers and blocks, any sizes and duties:

* `CameraGivesBack`, from `CameraInv`: `GivesBack` alone is not inductive. `WebHolds` and `VideoHolds`
  tie what a task holds to its position in its handler (no frame while it waits for one, a frame
  before a conversion, a frame or a block but not both when it sends), so that a step that gives
  one back has one.
* `CameraDark`: only the task of the stream writes `isStreaming`, and `Streaming` says at which
  of its steps it is set.

`ApplicationProofs`, for any networks, passwords, transports, blocks and packets, over the
whole of `Application`, whose steps each move one of the three parts, or two by a command:

* `GoneIsOffline`: `MqttInv` says what may be on the wire. `Departs`: "offline" is followed by
  "disconnect" and nothing else. `Announced`: telemetry and replies stand behind the "online" of
  their connection, or the broker has taken that.
* `AnswerIsTrue`: `OtaInv` follows an upload: blocks received against blocks written
  (`Receiving`), what `end` has found (`Finished`), and that an error has a reason (`Against`). An
  update that is not running and has no error has not begun for want of memory, which is the
  exception in the property.
* `PairIsGood`, under the premise `Settled`, that `status()` does not lag and trimming changes no
  name or password: `WifiInv` says that a station that is up has the right pair, that this is the pair
  the main loop is busy with, and that a complete pair in the file joins and, unless `remove()`
  failed, was not to be forgotten.
  Without the premise it fails (4.3).

`AutonomousProofs`, for any thresholds, duties and limits, whatever the sensor reports:

* `ForwardOnSight` and `NothingRunsOn`, from `AutoInv`: what moves after a cancel is the user's or
  a backup (`Yields`), and a loop that drives forward has seen free way and has not paused since
  (`Sighted`).
* `CancelledForGood` (`CancelSticks`) and `OnlyBackups` (`OnlyBackupOutlivesCancel`), step by step:
  a cancelled loop does nothing but end, or back up once and end.

`RemoteLogProofs`, about `LogRing` for every size of the ring and of `size_t` and any length of the
log, and about `TelnetLog` for any number of clients and connections:

* `ReadersGetTheLog` (`ReadsWhatWasWritten`) and `DumpGetsTheLog` (`DumpIsTail`), under the premise
  `Alone`, that no other task logs; `MCLogRingRace.cfg` shows that it is needed. `RingInv` says at which slot each
  of the last bytes of the log is, between any two memory accesses of `appendToRing`, `ringHead` and the
  counter being the length of the log modulo two numbers that need not divide each other. The lemmas on
  remainders on which it rests hide `%` behind `Rem`, for the provers have no theory of a remainder by a
  variable.
* `NobodyMissed` (`NoneSkipped`): `PassInv` is the loop invariant of the walk, that the clients in
  front of the iterator have been read. `EraseKeepsFront` says that an erase leaves it true.
* `LoopInside` (`LoopStaysInside`): the walk of `loop()` leaves the vector only if a client
  switches telnet off in its own input. `NobodyFreed` (`NoFreedClient`): without that, and without
  another task that logs, no freed client is touched. `MCTelnetSelfOff.cfg` shows that the first premise is needed.

`DriveProofs`, about `DriveInput` for any set of buttons, any number of them held, any speeds, timers
and messages on the way; and about `Recorder` for any number and length of moves:

* `DriveTypeOK`, `NoInputOutlivesItsFinger` (`NoGhostInput`) and `RoverFollowsTheInputs` (`RoverFollows`).
  `RoverFollows` speaks of an empty wire; `DriveInv` says the same of any wire: `Ends` is what a motor
  will do when all that is on its way has arrived, the last message for it or else what it does now.
  `Sound` is what lets the page leave messages out: a motor will have the action
  in `lastSent`, or be stopped; it will have the duty there; and while the deadman is or will be
  armed, that action is a motion. `ChangedEnds` shows that what is sent then brings the motors to the
  new command, or leaves them stopped. Without the deadman (`~cut`) they obey: `CacheIs` adds that
  the cache is the command of the held inputs at some speed. The keepalive forgets the cache and sends
  all, which is why it ends a `cut`.
* A blur releases the buttons one after the other. `Reported` is a function defined by recursion over
  their order; `ReportedSteps` unfolds it, by well-founded recursion, and `Released` follows it button
  by button (`SetInduction`: a set of numbers that has 0 and all successors is `Nat`).
* `KeepaliveSparesTheDriver` (`KeepaliveSpares`), with `KeptAlive`: while the timer runs, the rover's
  last command is no older than the timer, or one is on its way. A press sets the timer afresh, so it
  must send something: `PressChanges` says that one more direction is another command. It is not at a
  speed of 0, where an arc and a straight line are both two duties of 0. Hence the premise
  `0 \notin Speeds`; the slider does go to 0 (`web/control.html`), but its motors do not turn. The other
  premise, `KeepaliveTicks < DeadmanTicks`, is 700 ms against 1500 ms.
* `NoGhostInReplay` and `RestsUnlessDrivenHolds` (`RestsUnlessDriven`), of `Recorder`, where the cache is
  what the replay leaves in it: `RestInv` keeps `Sound`, which does not ask whose commands were sent, and
  adds that the motors will be stopped (`Rest`).
* `ReplayIsSpared` (`ReplaySpared`): `Spared` bounds the time since the last command and what is left of
  the sleep together by the longest sleep; the premises are that the deadman is longer than a tick
  (700 ms) and than a rest (200 ms). `AbortSticksHolds` (`AbortSticks`).

Only model-checked: liveness (`SilenceStops`, `Answered`, `Settles`, `ComesBack`,
`PlacesAreFreed`, `CancelEnds`, `DeadSensorEnds`, `Delivered`, `HandlersEnd`, `ComesOnline`), which with fairness and `ENABLED` is out
of the prover's reach, as is any module with a `RECURSIVE` operator, of which there is none here, and
the induction theorems of the library, which take an operator; where a proof needs induction over
numbers it is done with sets, as above. And, so far, `ComesHome`, which cuts every move of a recording into sleeps
and adds them up again in reverse, and `DutyIsSpeed`.

## 6. What is not modelled

* Planned (section 2): the panel of `transports.js`, MQTT's intervals. Snapshots, and the end of a
  session, which nothing calls.
* Pages and their data (`camera_index.h` is compressed): assets. The queries of the log server:
  they change nothing.
* Passwords of clients: `authorized()` lets everybody in with the default configuration.
* MQTT: an upload longer than the keepalive looks to the broker like a lost network, which is in
  the model; `reconfigure` has no caller.
* The flash takes a line of the credentials as a whole or not at all.
* Serial: one line buffer on the main loop; in `Application` one more source of commands.
* Camera: other pixel formats and face recognition cannot run in this build, and `setupLedFlash`
  has no caller.
* Distance filter and vision: arithmetic on readings and images. `Autonomous` takes
  whatever they might deliver.
* mDNS, system monitor, rover store, picker, toasts: calls of platform functions or display.
* Of `set_transport`, `set_camera` and `begin` failing with an exception, only the restart:
  it is `Crash`, which may happen at any time.
