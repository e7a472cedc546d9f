---------------------------- MODULE CameraServer ----------------------------
(***************************************************************************)
(* The camera and its two HTTP servers (Camera/app_httpd.cpp).  Each       *)
(* server is a task that runs one handler at a time: `web` (port 80) the   *)
(* settings page, stills and sensor registers, `video` (port 81) the MJPEG *)
(* stream, to one viewer until that one leaves.  The main loop is a third  *)
(* actor: set_camera changes the frame size under both.                    *)
(*                                                                         *)
(* They share the driver's frame buffers, the heap, the sensor, led_duty,  *)
(* isStreaming, detection_enabled, and the LEDC channel of the flash light,*)
(* none of them under a lock.  A handler is cut wherever it blocks or      *)
(* touches one of these.  The sensor delivers JPEG (setupCamera) and no    *)
(* handler changes that, so the branches for other formats do not run; nor *)
(* does face recognition, which the build leaves out.  `led` is the duty   *)
(* of the channel: setupLedFlash, which would give it a pin, has no caller.*)
(***************************************************************************)
EXTENDS Naturals

CONSTANTS
  FrameBuffers,              \* fb_count: frame buffers of the driver
  Blocks,                    \* image-sized blocks the heap can give out
  Sizes,                     \* frame sizes
  Narrow,                    \* those at most 400 pixels wide
  kStreamFrameSize,          \* the frame size set at boot
  Duties,                    \* values of led_intensity
  CONFIG_LED_MAX_INTENSITY   \* limit of the duty while streaming

ASSUME PoolAssumption == FrameBuffers \in Nat /\ Blocks \in Nat
ASSUME SizeAssumption == Narrow \subseteq Sizes /\ kStreamFrameSize \in Sizes
ASSUME DutyAssumption ==
  Duties \subseteq Nat /\ 0 \in Duties /\ CONFIG_LED_MAX_INTENSITY \in Nat

Pages == {"index", "status", "control", "capture", "bmp",
          "xclk", "reg", "greg", "pll", "resolution"}
Codes == {"none", "200", "404", "500"}
Frames == {"none", "narrow", "wide"}

(* What a query string may be: none at all, one there is no memory for,    *)
(* one that lacks a key, a complete one.                                   *)
Queries == {"absent", "noMemory", "incomplete", "complete"}

VARIABLES
  up,                 \* has setup run, and the rover not restarted since?
  servers,            \* the servers httpd_start could start
  sensor,             \* [present, size, flip]: flip as the mounting needs it
  detection_enabled,
  led_duty,
  isStreaming,
  led,                \* duty of the flash light's LEDC channel
  free,               \* frame buffers with the driver
  heap,               \* blocks left in the heap
  web,                \* the task of the page: position, frame, blocks, duty
  video,              \* the task of the stream, and whether all went well
  viewer,             \* "none", "watching", or "gone" while served
  reply,              \* what `web` answered last
  lost,               \* history: frames capture_handler dropped without memory
  overtaken           \* history: was the light set for a stream that had ended?

light == <<led_duty, isStreaming, led, overtaken>>
pool == <<free, lost>>
boot == <<up, servers>>
cameraVars == <<boot, sensor, detection_enabled, light, pool, heap, web, video, viewer, reply>>

Idle == [at |-> "idle", frame |-> "none", blocks |-> 0, duty |-> 0, ok |-> TRUE]

WebSteps == {"idle", "led", "flash", "grab", "dark", "deliver", "allocate", "convert",
             "compress", "bmpConvert", "bmpSend"} \cup Pages
VideoSteps == {"idle", "flash", "grab", "look", "allocate", "convert", "compress", "send",
               "dark"}

Sensors == [present : BOOLEAN, size : Sizes, flip : BOOLEAN]
WebTasks == [at : WebSteps, frame : Frames, blocks : {0, 1}, duty : Nat, ok : BOOLEAN]
VideoTasks == [at : VideoSteps, frame : Frames, blocks : {0, 1}, duty : Nat, ok : BOOLEAN]

CameraTypeOK ==
  /\ up \in BOOLEAN /\ servers \subseteq {"web", "video"}
  /\ sensor \in Sensors
  /\ detection_enabled \in BOOLEAN /\ isStreaming \in BOOLEAN /\ overtaken \in BOOLEAN
  /\ led_duty \in Duties /\ led \in Nat
  /\ free \in Nat /\ lost \in Nat /\ heap \in Nat
  /\ web \in WebTasks /\ video \in VideoTasks
  /\ viewer \in {"none", "watching", "gone"}
  /\ reply \in Codes

-----------------------------------------------------------------------------
(* Boot and restart.                                                       *)

NoSensor == [present |-> FALSE, size |-> kStreamFrameSize, flip |-> FALSE]

(* What RAM and hardware hold before setup().                              *)
Off ==
  /\ up = FALSE /\ servers = {}
  /\ sensor = NoSensor /\ detection_enabled = FALSE
  /\ led_duty = 0 /\ isStreaming = FALSE /\ led = 0 /\ overtaken = FALSE
  /\ free = FrameBuffers /\ lost = 0 /\ heap = Blocks
  /\ web = Idle /\ video = Idle /\ viewer = "none" /\ reply = "none"

(* The driver may not find the sensor; the rover goes on without it.  The  *)
(* OV2640 forgets its orientation in set_framesize, which is why it is set *)
(* afterwards.                                                             *)
setupCamera ==
  \/ UNCHANGED sensor
  \/ sensor' = [present |-> TRUE, size |-> kStreamFrameSize, flip |-> TRUE]

(* Either server may fail to start.                                        *)
startCameraServer == \E s \in SUBSET {"web", "video"} : servers' = s

Boot ==
  /\ ~up /\ up' = TRUE
  /\ setupCamera /\ startCameraServer
  /\ UNCHANGED <<detection_enabled, light, pool, heap, web, video, viewer, reply>>

(* A reboot, a power cut, or a processor exception: a handler that follows *)
(* the null pointer of a missing sensor.                                   *)
Restart ==
  /\ up /\ up' = FALSE /\ servers' = {}
  /\ sensor' = NoSensor /\ detection_enabled' = FALSE
  /\ led_duty' = 0 /\ isStreaming' = FALSE /\ led' = 0 /\ overtaken' = FALSE
  /\ free' = FrameBuffers /\ lost' = 0 /\ heap' = Blocks
  /\ web' = Idle /\ video' = Idle /\ viewer' = "none" /\ reply' = "none"

-----------------------------------------------------------------------------
(* What the handlers share.                                                *)

(* esp_camera_fb_get: a frame, if the driver has a buffer for one, or NULL *)
(* when none came in time.                                                 *)
Grabs ==
  {"none"} \cup IF sensor.present /\ free > 0
                THEN {IF sensor.size \in Narrow THEN "narrow" ELSE "wide"} ELSE {}

Take(f) == free' = IF f = "none" THEN free ELSE free - 1

esp_camera_fb_return == free' = free + 1

set_framesize(size) == [sensor EXCEPT !.size = size, !.flip = FALSE]

(* The duty enable_led(true) computes, before ledcWrite.                   *)
LedDuty(duty, streaming) ==
  IF streaming /\ duty > CONFIG_LED_MAX_INTENSITY THEN CONFIG_LED_MAX_INTENSITY ELSE duty

(* ledcWrite.  A light switched on by the page when the stream has ended   *)
(* meanwhile is nobody's.                                                  *)
enable_led(duty, by) ==
  /\ led' = duty
  /\ overtaken' = (by = "page" /\ ~isStreaming)
  /\ UNCHANGED <<led_duty, isStreaming>>

(* Frames without a face detection to do are passed on as they are.        *)
PassOn(frame) == ~detection_enabled \/ frame = "wide"

Goto(task, at) == [task EXCEPT !.at = at]

Request(page) ==
  /\ up /\ "web" \in servers /\ web.at = "idle"
  /\ web' = Goto(web, page) /\ reply' = "none"
  /\ UNCHANGED <<boot, sensor, detection_enabled, light, pool, heap, video, viewer>>

Answer(code) == web' = Idle /\ reply' = code

-----------------------------------------------------------------------------
(* The page: settings and registers of the sensor.                         *)

parse_get(q) == IF q = "noMemory" THEN "500" ELSE "404"

(* A handler that parses a query, of which it needs every key if it is     *)
(* strict, and calls the sensor; the sensor may refuse.                    *)
SensorCall(strict, effects) ==
  /\ UNCHANGED <<boot, detection_enabled, light, pool, heap, video, viewer>>
  /\ \/ \E q \in Queries \ {"complete"} :
          (strict \/ q # "incomplete") /\ Answer(parse_get(q)) /\ UNCHANGED sensor
     \/ sensor.present /\ Answer("200") /\ sensor' \in effects
     \/ sensor.present /\ Answer("500") /\ UNCHANGED sensor

(* The handlers do not look whether there is a sensor.                     *)
NullSensor == ~sensor.present /\ Restart

xclk_handler == web.at = "xclk" /\ (SensorCall(TRUE, {sensor}) \/ NullSensor)

reg_handler ==
  /\ web.at = "reg"
  /\ \/ SensorCall(TRUE, {[sensor EXCEPT !.flip = b] : b \in BOOLEAN})
     \/ NullSensor

greg_handler == web.at = "greg" /\ (SensorCall(TRUE, {sensor}) \/ NullSensor)

pll_handler == web.at = "pll" /\ (SensorCall(FALSE, {sensor}) \/ NullSensor)

win_handler == web.at = "resolution" /\ (SensorCall(FALSE, {sensor}) \/ NullSensor)

status_handler ==
  /\ web.at = "status"
  /\ \/ NullSensor
     \/ /\ sensor.present /\ Answer("200")
        /\ UNCHANGED <<boot, sensor, detection_enabled, light, pool, heap, video, viewer>>

index_handler ==
  /\ web.at = "index"
  /\ Answer(IF sensor.present THEN "200" ELSE "500")
  /\ UNCHANGED <<boot, sensor, detection_enabled, light, pool, heap, video, viewer>>

(* /control?var=...&val=...: the frame size, what sets the orientation,    *)
(* and the other properties of the image.                                  *)
ControlSensor ==
  \/ SensorCall(TRUE, {set_framesize(s) : s \in Sizes}
                        \cup {[sensor EXCEPT !.flip = b] : b \in BOOLEAN})
  \/ NullSensor

(* face_detect, and variables there are none of, need no sensor.           *)
ControlSwitch ==
  /\ \/ detection_enabled' \in BOOLEAN /\ Answer("200")
     \/ UNCHANGED detection_enabled /\ Answer("500")
  /\ UNCHANGED <<boot, sensor, light, pool, heap, video, viewer>>

(* The light is set at once if a stream runs; its duty is computed here    *)
(* and written in a step of its own.                                       *)
ControlLed(val) ==
  /\ led_duty' = val
  /\ IF isStreaming
     THEN /\ web' = [web EXCEPT !.at = "led", !.duty = LedDuty(val, TRUE)]
          /\ UNCHANGED reply
     ELSE Answer("200")
  /\ UNCHANGED <<boot, sensor, detection_enabled, isStreaming, led, overtaken, pool, heap,
                 video, viewer>>

cmd_handler ==
  /\ web.at = "control"
  /\ ControlSensor \/ ControlSwitch \/ \E val \in Duties : ControlLed(val)

ControlLedWrite ==
  /\ web.at = "led"
  /\ enable_led(web.duty, "page") /\ Answer("200")
  /\ UNCHANGED <<boot, sensor, detection_enabled, pool, heap, video, viewer>>

-----------------------------------------------------------------------------
(* The page: stills.                                                       *)

bmp_handler ==
  /\ web.at = "bmp"
  /\ \E f \in Grabs :
       /\ Take(f)
       /\ IF f = "none" THEN Answer("500")
          ELSE web' = [web EXCEPT !.at = "bmpConvert", !.frame = f] /\ UNCHANGED reply
  /\ UNCHANGED <<boot, sensor, detection_enabled, light, lost, heap, video, viewer>>

(* Mutant: a bitmap there is no memory for keeps its frame.                *)
BmpConvert_Keeps ==
  /\ web.at = "bmpConvert"
  /\ \/ heap > 0 /\ heap' = heap - 1 /\ esp_camera_fb_return /\ UNCHANGED reply
        /\ web' = [web EXCEPT !.at = "bmpSend", !.frame = "none", !.blocks = 1]
     \/ UNCHANGED <<heap, free>> /\ Answer("500")
  /\ UNCHANGED <<boot, sensor, detection_enabled, light, lost, video, viewer>>

(* The bitmap is a block of its own; the frame goes back either way.       *)
BmpConvert ==
  /\ web.at = "bmpConvert"
  /\ esp_camera_fb_return
  /\ \/ heap > 0 /\ heap' = heap - 1 /\ UNCHANGED reply
        /\ web' = [web EXCEPT !.at = "bmpSend", !.frame = "none", !.blocks = 1]
     \/ UNCHANGED heap /\ Answer("500")
  /\ UNCHANGED <<boot, sensor, detection_enabled, light, lost, video, viewer>>

BmpSend ==
  /\ web.at = "bmpSend"
  /\ heap' = heap + web.blocks /\ Answer("200")
  /\ UNCHANGED <<boot, sensor, detection_enabled, light, pool, video, viewer>>

(* capture_handler lights up, waits 150 ms, takes a frame, and darkens.    *)
CaptureLight ==
  /\ web.at = "capture"
  /\ web' = [web EXCEPT !.at = "flash", !.duty = LedDuty(led_duty, isStreaming)]
  /\ UNCHANGED <<boot, sensor, detection_enabled, light, pool, heap, video, viewer, reply>>

CaptureFlash ==
  /\ web.at = "flash"
  /\ enable_led(web.duty, "still") /\ web' = Goto(web, "grab")
  /\ UNCHANGED <<boot, sensor, detection_enabled, pool, heap, video, viewer, reply>>

CaptureGrab ==
  /\ web.at = "grab"
  /\ \E f \in Grabs : Take(f) /\ web' = [web EXCEPT !.at = "dark", !.frame = f]
  /\ UNCHANGED <<boot, sensor, detection_enabled, light, lost, heap, video, viewer, reply>>

CaptureDark ==
  /\ web.at = "dark"
  /\ enable_led(0, "still")
  /\ IF web.frame = "none" THEN Answer("500")
     ELSE /\ web' = Goto(web, IF PassOn(web.frame) THEN "deliver" ELSE "allocate")
          /\ UNCHANGED reply
  /\ UNCHANGED <<boot, sensor, detection_enabled, pool, heap, video, viewer>>

CaptureDeliver ==
  /\ web.at = "deliver"
  /\ esp_camera_fb_return /\ Answer("200")
  /\ UNCHANGED <<boot, sensor, detection_enabled, light, lost, heap, video, viewer>>

(* The whole program shares the heap: malloc may fail whatever the camera  *)
(* holds of it.  The handler then answers 500 and returns, and the frame   *)
(* buffer stays with it for good.                                          *)
CaptureAllocate ==
  /\ web.at = "allocate"
  /\ \/ /\ heap > 0 /\ heap' = heap - 1 /\ UNCHANGED <<lost, reply>>
        /\ web' = [web EXCEPT !.at = "convert", !.blocks = 1]
     \/ lost' = lost + 1 /\ Answer("500") /\ UNCHANGED heap
  /\ UNCHANGED <<boot, sensor, detection_enabled, light, free, video, viewer>>

(* fmt2rgb888: the frame goes back either way, the block if it failed.     *)
CaptureConvert ==
  /\ web.at = "convert"
  /\ esp_camera_fb_return
  /\ \/ web' = [web EXCEPT !.at = "compress", !.frame = "none"] /\ UNCHANGED <<heap, reply>>
     \/ heap' = heap + web.blocks /\ Answer("500")
  /\ UNCHANGED <<boot, sensor, detection_enabled, light, lost, video, viewer>>

(* Faces are marked, and the image is compressed into the answer.          *)
CaptureCompress ==
  /\ web.at = "compress"
  /\ heap' = heap + web.blocks
  /\ Answer("200") \/ Answer("500")
  /\ UNCHANGED <<boot, sensor, detection_enabled, light, pool, video, viewer>>

-----------------------------------------------------------------------------
(* The stream.                                                             *)

(* A viewer connects, and the light goes on if it has an intensity.        *)
StreamOpen ==
  /\ up /\ "video" \in servers /\ video.at = "idle"
  /\ viewer' = "watching" /\ isStreaming' = TRUE
  /\ video' = [Idle EXCEPT !.at = "flash", !.duty = LedDuty(led_duty, TRUE)]
  /\ UNCHANGED <<boot, sensor, detection_enabled, led_duty, led, overtaken, pool, heap, web,
                 reply>>

StreamFlash ==
  /\ video.at = "flash"
  /\ enable_led(video.duty, "stream") /\ video' = Goto(video, "grab")
  /\ UNCHANGED <<boot, sensor, detection_enabled, pool, heap, web, viewer, reply>>

(* The next frame; a NULL ends the stream.                                 *)
StreamGrab ==
  /\ video.at = "grab"
  /\ \E f \in Grabs :
       /\ Take(f)
       /\ video' = [video EXCEPT !.at = IF f = "none" THEN "send" ELSE "look",
                                 !.frame = f, !.ok = f # "none"]
  /\ UNCHANGED <<boot, sensor, detection_enabled, light, lost, heap, web, viewer, reply>>

StreamLook ==
  /\ video.at = "look"
  /\ video' = Goto(video, IF PassOn(video.frame) THEN "send" ELSE "allocate")
  /\ UNCHANGED <<boot, sensor, detection_enabled, light, pool, heap, web, viewer, reply>>

StreamAllocate ==
  /\ video.at = "allocate"
  /\ \/ /\ heap > 0 /\ heap' = heap - 1
        /\ video' = [video EXCEPT !.at = "convert", !.blocks = 1]
     \/ UNCHANGED heap /\ video' = [video EXCEPT !.at = "send", !.ok = FALSE]
  /\ UNCHANGED <<boot, sensor, detection_enabled, light, pool, web, viewer, reply>>

StreamConvert ==
  /\ video.at = "convert"
  /\ esp_camera_fb_return
  /\ \/ video' = [video EXCEPT !.at = "compress", !.frame = "none"] /\ UNCHANGED heap
     \/ /\ video' = [video EXCEPT !.at = "send", !.frame = "none", !.blocks = 0, !.ok = FALSE]
        /\ heap' = heap + video.blocks
  /\ UNCHANGED <<boot, sensor, detection_enabled, light, lost, web, viewer, reply>>

(* fmt2jpg allocates the image before the block it is made from is freed.  *)
StreamCompress ==
  /\ video.at = "compress"
  /\ \/ heap > 0 /\ UNCHANGED heap /\ video' = Goto(video, "send")
     \/ /\ video' = [video EXCEPT !.at = "send", !.blocks = 0, !.ok = FALSE]
        /\ heap' = heap + video.blocks
  /\ UNCHANGED <<boot, sensor, detection_enabled, light, pool, web, viewer, reply>>

(* Mutant: nobody looks whether the viewer took the frame.                 *)
StreamSend_Deaf ==
  /\ video.at = "send"
  /\ video' = [video EXCEPT !.at = IF video.ok THEN "grab" ELSE "dark",
                            !.frame = "none", !.blocks = 0]
  /\ isStreaming' = video.ok
  /\ IF video.frame # "none" THEN esp_camera_fb_return /\ UNCHANGED heap
     ELSE heap' = heap + video.blocks /\ UNCHANGED free
  /\ UNCHANGED <<boot, sensor, detection_enabled, led_duty, led, overtaken, lost, web,
                 viewer, reply>>

(* A frame that is well goes to the viewer, who may have left; what holds  *)
(* it is given back, and the next one follows if all went well.            *)
StreamSend ==
  /\ video.at = "send"
  /\ \E sent \in BOOLEAN :
       /\ sent => video.ok /\ viewer = "watching"
       /\ video' = [video EXCEPT !.at = IF sent THEN "grab" ELSE "dark",
                                 !.frame = "none", !.blocks = 0, !.ok = sent]
       /\ isStreaming' = sent
  /\ IF video.frame # "none" THEN esp_camera_fb_return /\ UNCHANGED heap
     ELSE heap' = heap + video.blocks /\ UNCHANGED free
  /\ UNCHANGED <<boot, sensor, detection_enabled, led_duty, led, overtaken, lost, web,
                 viewer, reply>>

(* Mutant: the stream leaves the light on.                                 *)
StreamClose_Lit ==
  /\ video.at = "dark"
  /\ video' = Idle /\ viewer' = "none"
  /\ UNCHANGED <<boot, sensor, detection_enabled, light, pool, heap, web, reply>>

(* The light goes out, and the next viewer can come.                       *)
StreamClose ==
  /\ video.at = "dark"
  /\ enable_led(0, "stream") /\ video' = Idle /\ viewer' = "none"
  /\ UNCHANGED <<boot, sensor, detection_enabled, pool, heap, web, reply>>

(* The viewer closes the page, or the network drops.                       *)
ViewerLeaves ==
  /\ viewer = "watching" /\ viewer' = "gone"
  /\ UNCHANGED <<boot, sensor, detection_enabled, light, pool, heap, web, video, reply>>

-----------------------------------------------------------------------------
(* set_camera, on the main loop: the picker of the control page.           *)
handleCamera(size) ==
  /\ up /\ sensor.present
  /\ sensor' = set_framesize(size)
  /\ UNCHANGED <<boot, detection_enabled, light, pool, heap, web, video, viewer, reply>>

-----------------------------------------------------------------------------
WebStep ==
  \/ index_handler \/ status_handler \/ cmd_handler \/ ControlLedWrite
  \/ xclk_handler \/ reg_handler \/ greg_handler \/ pll_handler \/ win_handler
  \/ bmp_handler \/ BmpConvert \/ BmpSend
  \/ CaptureLight \/ CaptureFlash \/ CaptureGrab \/ CaptureDark
  \/ CaptureDeliver \/ CaptureAllocate \/ CaptureConvert \/ CaptureCompress

VideoStep ==
  \/ StreamFlash \/ StreamGrab \/ StreamLook \/ StreamAllocate
  \/ StreamConvert \/ StreamCompress \/ StreamSend \/ StreamClose

CameraNext ==
  \/ Boot \/ Restart
  \/ \E page \in Pages : Request(page)
  \/ WebStep
  \/ StreamOpen \/ VideoStep \/ ViewerLeaves
  \/ \E size \in Sizes : handleCamera(size)

CameraSpec == Off /\ [][CameraNext]_cameraVars

(* Both server tasks are scheduled, and every call they block in has a     *)
(* time limit: a frame 4 s, a socket 5 s.                                  *)
CameraFairSpec == CameraSpec /\ WF_cameraVars(WebStep) /\ WF_cameraVars(VideoStep)

-----------------------------------------------------------------------------
Held(task) == IF task.frame = "none" THEN 0 ELSE 1

(* Whatever fails on the way, a handler gives back every frame buffer and  *)
(* every block it took: all that is ever missing are the frames of stills  *)
(* for which there was no memory.                                          *)
GivesBack ==
  /\ free + Held(web) + Held(video) + lost = FrameBuffers
  /\ heap + web.blocks + video.blocks = Blocks

(* With no still and no stream under way the flash light is dark, unless   *)
(* the page changed its intensity while the stream was ending.             *)
DarkAtRest ==
  led # 0 => overtaken \/ isStreaming \/ video.at = "dark" \/ web.at \in {"grab", "dark"}

(* A stream whose viewer has left makes room for the next one, and every   *)
(* request of the page is answered, however often frames fail.             *)
HandlersEnd ==
  /\ viewer = "gone" ~> viewer # "gone"
  /\ web.at # "idle" ~> web.at = "idle"

(* No capture keeps its frame buffer: capture_handler does, when malloc    *)
(* fails, and after fb_count of them there are no frames until a restart.  *)
NoFrameLost == lost = 0

(* "The LED needs to be turned on ~150ms before the call to                *)
(* esp_camera_fb_get() or it won't be visible in the frame": the light     *)
(* that a still switched on is still on when its frame is taken.  A stream *)
(* that ends during the 150 ms puts it out.                                *)
LitForCapture == web.at = "grab" => led = web.duty

(* "set_framesize reinitialises sensor registers and resets vflip/hmirror  *)
(* back to 0", so setupCamera sets them afterwards; set_camera and         *)
(* /control?var=framesize do not: the picture is upside down from then on. *)
KeepsOrientation ==
  [][up /\ up' /\ sensor.present /\ sensor'.size # sensor.size
       => sensor'.flip = sensor.flip]_cameraVars
=============================================================================
