---------------------------- MODULE CameraProofs ----------------------------
(***************************************************************************)
(* Theorems about CameraServer, for every number of frame buffers, heap,   *)
(* set of frame sizes and set of light intensities.                        *)
(***************************************************************************)
EXTENDS CameraServer, TLAPS

(* Where a handler of the page holds a frame buffer, and where a block.    *)
WebHolds ==
  /\ web.at \in {"bmpConvert", "deliver", "allocate", "convert"} => web.frame # "none"
  /\ web.frame # "none" =>
       web.at \in {"bmpConvert", "deliver", "allocate", "convert", "dark"}
  /\ web.blocks = IF web.at \in {"convert", "compress", "bmpSend"} THEN 1 ELSE 0

(* The same of the stream: what it sends is a frame or a block, not both.  *)
VideoHolds ==
  /\ video.at \in {"look", "allocate", "convert"} => video.frame # "none"
  /\ video.frame # "none" => video.at \in {"look", "allocate", "convert", "send"}
  /\ video.at \in {"convert", "compress"} => video.blocks = 1
  /\ video.blocks = 1 => video.at \in {"convert", "compress", "send"}
  /\ video.at = "send" /\ video.frame # "none" => video.blocks = 0

CameraInv == CameraTypeOK /\ WebHolds /\ VideoHolds /\ GivesBack

LEMMA IdleIsTask == Idle \in WebTasks /\ Idle \in VideoTasks
BY DEF Idle, WebTasks, VideoTasks, WebSteps, VideoSteps, Frames

(* A handler that only talks to the sensor holds nothing afterwards.       *)
LEMMA SensorCallKeeps ==
  ASSUME CameraInv, NEW strict \in BOOLEAN, NEW effects \in SUBSET Sensors,
         SensorCall(strict, effects), web.frame = "none", web.blocks = 0
  PROVE  CameraInv'
<1>1. web' = Idle /\ reply' \in Codes
  BY DEF SensorCall, Answer, parse_get, Codes
<1>2. sensor' \in Sensors
  BY DEF SensorCall, CameraInv, CameraTypeOK
<1>3. CameraTypeOK'
  BY <1>1, <1>2, IdleIsTask DEF SensorCall, CameraInv, CameraTypeOK, boot, light, pool
<1> QED
  BY <1>1, <1>3 DEF SensorCall, CameraInv, WebHolds, VideoHolds, GivesBack, Held, Idle,
     light,
     pool

(* After a restart everything is with the driver and the heap again.       *)
LEMMA RestartKeeps == ASSUME Restart PROVE CameraInv'
<1> USE PoolAssumption, SizeAssumption, DutyAssumption DEF Restart
<1>1. sensor' \in Sensors
  BY DEF NoSensor, Sensors
<1>2. CameraTypeOK'
  BY <1>1, IdleIsTask DEF CameraTypeOK, Codes
<1>3. WebHolds' /\ VideoHolds'
  BY DEF WebHolds, VideoHolds, Idle
<1>4. GivesBack'
  BY DEF GivesBack, Held, Idle
<1> QED
  BY <1>2, <1>3, <1>4 DEF CameraInv

(* Whatever fails on the way, a handler gives back every frame buffer and  *)
(* every block it took, but for the frames of stills without memory.       *)
THEOREM CameraGivesBack == CameraSpec => [](CameraTypeOK /\ GivesBack)
<1>1. Off => CameraInv
  <2> SUFFICES ASSUME Off PROVE CameraInv
    OBVIOUS
  <2> USE PoolAssumption, SizeAssumption, DutyAssumption DEF Off
  <2>1. sensor \in Sensors
    BY DEF NoSensor, Sensors
  <2>2. CameraTypeOK
    BY <2>1, IdleIsTask DEF CameraTypeOK, Codes
  <2>3. WebHolds /\ VideoHolds
    BY DEF WebHolds, VideoHolds, Idle
  <2>4. GivesBack
    BY DEF GivesBack, Held, Idle
  <2> QED
    BY <2>2, <2>3, <2>4 DEF CameraInv
<1>2. CameraInv /\ [CameraNext]_cameraVars => CameraInv'
  <2> SUFFICES ASSUME CameraInv, [CameraNext]_cameraVars PROVE CameraInv'
    OBVIOUS
  <2> USE PoolAssumption, DutyAssumption DEF CameraInv
  <2>1. CASE Boot
    <3>1. servers' \subseteq {"web", "video"}
      BY <2>1 DEF Boot, startCameraServer
    <3>2. sensor' \in Sensors
      <4>1. CASE sensor' = sensor
        BY <4>1 DEF CameraTypeOK
      <4>2. CASE sensor' = [present |-> TRUE, size |-> kStreamFrameSize, flip |-> TRUE]
        BY <4>2, SizeAssumption DEF Sensors
      <4> QED
        BY <2>1, <4>1, <4>2 DEF Boot, setupCamera
    <3> QED
      BY <2>1, <3>1, <3>2 DEF Boot, CameraTypeOK, WebHolds, VideoHolds, GivesBack, Held,
         light, pool
  <2>2. CASE Restart
    BY <2>2, RestartKeeps
  <2>3. CASE xclk_handler
    <3>1. web.frame = "none" /\ web.blocks = 0
      BY <2>3 DEF xclk_handler, WebHolds
    <3>2. {sensor} \in SUBSET Sensors
      BY DEF CameraTypeOK, Sensors
    <3> QED
      BY <2>3, <3>1, <3>2, SensorCallKeeps, RestartKeeps DEF xclk_handler, NullSensor
  <2>4. CASE reg_handler
    <3>1. web.frame = "none" /\ web.blocks = 0
      BY <2>4 DEF reg_handler, WebHolds
    <3>2. {[sensor EXCEPT !.flip = b] : b \in BOOLEAN} \in SUBSET Sensors
      BY DEF CameraTypeOK, Sensors
    <3> QED
      BY <2>4, <3>1, <3>2, SensorCallKeeps, RestartKeeps DEF reg_handler, NullSensor
  <2>5. CASE greg_handler
    <3>1. web.frame = "none" /\ web.blocks = 0
      BY <2>5 DEF greg_handler, WebHolds
    <3>2. {sensor} \in SUBSET Sensors
      BY DEF CameraTypeOK, Sensors
    <3> QED
      BY <2>5, <3>1, <3>2, SensorCallKeeps, RestartKeeps DEF greg_handler, NullSensor
  <2>6. CASE pll_handler
    <3>1. web.frame = "none" /\ web.blocks = 0
      BY <2>6 DEF pll_handler, WebHolds
    <3>2. {sensor} \in SUBSET Sensors
      BY DEF CameraTypeOK, Sensors
    <3> QED
      BY <2>6, <3>1, <3>2, SensorCallKeeps, RestartKeeps DEF pll_handler, NullSensor
  <2>7. CASE win_handler
    <3>1. web.frame = "none" /\ web.blocks = 0
      BY <2>7 DEF win_handler, WebHolds
    <3>2. {sensor} \in SUBSET Sensors
      BY DEF CameraTypeOK, Sensors
    <3> QED
      BY <2>7, <3>1, <3>2, SensorCallKeeps, RestartKeeps DEF win_handler, NullSensor
  <2>8. CASE cmd_handler
    <3>1. web.frame = "none" /\ web.blocks = 0
      BY <2>8 DEF cmd_handler, WebHolds
    <3>2. CASE ControlSensor
      <4>1. {set_framesize(s) : s \in Sizes} \cup {[sensor EXCEPT !.flip = b] : b \in BOOLEAN}
            \in SUBSET Sensors
        BY DEF set_framesize, CameraTypeOK, Sensors
      <4> QED
        BY <3>1, <3>2, <4>1, SensorCallKeeps, RestartKeeps DEF ControlSensor, NullSensor
    <3>3. CASE ControlSwitch
      <4>1. CameraTypeOK'
        BY <3>3, IdleIsTask DEF ControlSwitch, Answer, CameraTypeOK, Codes, boot, light, pool
      <4> QED
        BY <3>1, <3>3, <4>1 DEF ControlSwitch, Answer, Idle, WebHolds, VideoHolds, GivesBack,
           Held, pool
    <3>4. ASSUME NEW val \in Duties, ControlLed(val) PROVE CameraInv'
      <4>1. LedDuty(val, TRUE) \in Nat
        BY DEF LedDuty
      <4>2. web' \in WebTasks
        BY <3>4, <4>1, IdleIsTask DEF ControlLed, Answer, CameraTypeOK, WebTasks, WebSteps
      <4>3. CameraTypeOK'
        BY <3>4, <4>2 DEF ControlLed, Answer, CameraTypeOK, Codes, boot, pool
      <4>4. CASE isStreaming
        BY <2>8, <3>1, <3>4, <4>3, <4>4 DEF cmd_handler, ControlLed, CameraTypeOK, WebTasks,
           WebHolds, VideoHolds, GivesBack, Held, pool
      <4>5. CASE ~isStreaming
        BY <3>1, <3>4, <4>3, <4>5 DEF ControlLed, Answer, Idle, WebHolds, VideoHolds,
           GivesBack, Held, pool
      <4> QED
        BY <4>4, <4>5
    <3> QED
      BY <2>8, <3>2, <3>3, <3>4 DEF cmd_handler
  <2>9. ASSUME NEW page \in Pages, Request(page) PROVE CameraInv'
    <3>1. web' \in WebTasks
      BY <2>9, IdleIsTask DEF Request, Goto, Pages, CameraTypeOK, WebTasks, WebSteps,
         Frames
    <3>2. CameraTypeOK'
      BY <2>9, <3>1 DEF Request, Goto, Pages, CameraTypeOK, WebTasks, Codes, boot,
         light, pool, GivesBack, Held
    <3>3. WebHolds' /\ VideoHolds'
      BY <2>9 DEF Request, Goto, Pages, CameraTypeOK, WebTasks, WebHolds, VideoHolds
    <3>4. GivesBack'
      BY <2>9 DEF Request, Goto, Pages, CameraTypeOK, WebTasks, WebHolds, VideoHolds,
         GivesBack, Held, pool
    <3> QED
      BY <3>2, <3>3, <3>4
  <2>10. CASE index_handler
    <3>1. web' \in WebTasks
      BY <2>10, IdleIsTask DEF index_handler, Answer, Idle, CameraTypeOK, WebTasks,
         WebSteps, Frames
    <3>2. CameraTypeOK'
      BY <2>10, <3>1 DEF index_handler, Answer, Idle, CameraTypeOK, WebTasks, Codes,
         boot, light, pool, GivesBack, Held
    <3>3. WebHolds' /\ VideoHolds'
      BY <2>10 DEF index_handler, Answer, Idle, CameraTypeOK, WebTasks, WebHolds,
         VideoHolds
    <3>4. GivesBack'
      BY <2>10 DEF index_handler, Answer, Idle, CameraTypeOK, WebTasks, WebHolds,
         VideoHolds, GivesBack, Held, pool
    <3> QED
      BY <3>2, <3>3, <3>4
  <2>11. CASE status_handler
    <3>0. CASE NullSensor
      BY <3>0, RestartKeeps DEF NullSensor
    <3>5. CASE ~NullSensor
      <4>1. CameraTypeOK'
        BY <2>11, <3>5, IdleIsTask DEF status_handler, Answer, CameraTypeOK, Codes, boot,
           light,
           pool
      <4>2. web' = Idle /\ UNCHANGED <<free, lost, heap, video>>
        BY <2>11, <3>5 DEF status_handler, Answer, pool
      <4>3. web.frame = "none" /\ web.blocks = 0
        BY <2>11 DEF status_handler, WebHolds
      <4> QED
        BY <4>1, <4>2, <4>3 DEF Idle, WebHolds, VideoHolds, GivesBack, Held
    <3> QED
      BY <3>0, <3>5
  <2>12. CASE ControlLedWrite
    <3>1. web' \in WebTasks
      BY <2>12, IdleIsTask DEF ControlLedWrite, enable_led, Answer, Idle, CameraTypeOK,
         WebTasks, WebSteps, Frames
    <3>2. CameraTypeOK'
      BY <2>12, <3>1 DEF ControlLedWrite, enable_led, Answer, Idle, CameraTypeOK,
         WebTasks, Codes, boot, light, pool, GivesBack, Held
    <3>3. WebHolds' /\ VideoHolds'
      BY <2>12 DEF ControlLedWrite, enable_led, Answer, Idle, CameraTypeOK, WebTasks,
         WebHolds, VideoHolds
    <3>4. GivesBack'
      BY <2>12 DEF ControlLedWrite, enable_led, Answer, Idle, CameraTypeOK, WebTasks,
         WebHolds, VideoHolds, GivesBack, Held, pool
    <3> QED
      BY <3>2, <3>3, <3>4
  <2>13. CASE bmp_handler
    <3>0. PICK f \in Grabs : bmp_handler!2!(f)
      BY <2>13 DEF bmp_handler
    <3>1. web.frame = "none" /\ web.blocks = 0
      BY <2>13 DEF bmp_handler, WebHolds
    <3>2. CASE f = "none"
      <4>1. CameraTypeOK'
        BY <2>13, <3>0, <3>2, IdleIsTask DEF bmp_handler, Take, Answer, CameraTypeOK,
           Codes, boot,
           light
      <4> QED
        BY <2>13, <3>0, <3>1, <3>2, <4>1 DEF bmp_handler, Take, Answer, Idle, WebHolds,
           VideoHolds, GivesBack, Held
    <3>3. CASE f # "none"
      <4>1. free > 0 /\ free' = free - 1 /\ f \in Frames
        BY <3>0, <3>3 DEF Grabs, Take, Frames
      <4>2. web' = [web EXCEPT !.at = "bmpConvert", !.frame = f] /\ UNCHANGED reply
        BY <3>0, <3>3
      <4>3. web' \in WebTasks
        BY <4>1, <4>2 DEF CameraTypeOK, WebTasks, WebSteps
      <4>4. CameraTypeOK'
        BY <2>13, <4>1, <4>2, <4>3 DEF bmp_handler, CameraTypeOK, boot, light
      <4> QED
        BY <2>13, <3>1, <3>3, <4>1, <4>2, <4>4 DEF bmp_handler, CameraTypeOK, WebTasks,
           WebHolds,
           VideoHolds, GivesBack, Held
    <3> QED
      BY <3>2, <3>3
  <2>14. CASE BmpConvert
    <3>0. web.frame # "none" /\ web.blocks = 0
      BY <2>14 DEF BmpConvert, WebHolds
    <3>1. CASE heap > 0 /\ heap' = heap - 1 /\ reply' = reply
             /\ web' = [web EXCEPT !.at = "bmpSend", !.frame = "none", !.blocks = 1]
      <4>1. web' \in WebTasks
        BY <3>1, IdleIsTask DEF CameraTypeOK, WebTasks, WebSteps, Frames
      <4>2. CameraTypeOK'
        BY <2>14, <3>0, <3>1, <4>1 DEF BmpConvert, esp_camera_fb_return, CameraTypeOK,
           Codes, boot, light
      <4> QED
        BY <2>14, <3>0, <3>1, <4>2 DEF BmpConvert, esp_camera_fb_return, Idle,
           CameraTypeOK, WebTasks, WebHolds,
           VideoHolds, GivesBack, Held
    <3>2. CASE heap' = heap /\ web' = Idle /\ reply' = "500"
      <4>1. web' \in WebTasks
        BY <3>2, IdleIsTask DEF CameraTypeOK, WebTasks, WebSteps, Frames
      <4>2. CameraTypeOK'
        BY <2>14, <3>0, <3>2, <4>1 DEF BmpConvert, esp_camera_fb_return, CameraTypeOK,
           Codes, boot, light
      <4> QED
        BY <2>14, <3>0, <3>2, <4>2 DEF BmpConvert, esp_camera_fb_return, Idle,
           CameraTypeOK, WebTasks, WebHolds,
           VideoHolds, GivesBack, Held
    <3> QED
      BY <2>14, <3>1, <3>2 DEF BmpConvert, Answer
  <2>15. CASE BmpSend
    <3>1. web' \in WebTasks
      BY <2>15, IdleIsTask DEF BmpSend, Answer, Idle, CameraTypeOK, WebTasks, WebSteps,
         Frames
    <3>2. CameraTypeOK'
      BY <2>15, <3>1 DEF BmpSend, Answer, Idle, CameraTypeOK, WebTasks, Codes, boot,
         light, pool, GivesBack, Held
    <3>3. WebHolds' /\ VideoHolds'
      BY <2>15 DEF BmpSend, Answer, Idle, CameraTypeOK, WebTasks, WebHolds, VideoHolds
    <3>4. GivesBack'
      BY <2>15 DEF BmpSend, Answer, Idle, CameraTypeOK, WebTasks, WebHolds, VideoHolds,
         GivesBack, Held, pool
    <3> QED
      BY <3>2, <3>3, <3>4
  <2>16. CASE CaptureLight
    <3>0. LedDuty(led_duty, isStreaming) \in Nat
      BY DEF LedDuty, CameraTypeOK
    <3>1. web' \in WebTasks
      BY <2>16, <3>0, IdleIsTask DEF CaptureLight, CameraTypeOK, WebTasks, WebSteps,
         Frames
    <3>2. CameraTypeOK'
      BY <2>16, <3>0, <3>1 DEF CaptureLight, CameraTypeOK, WebTasks, Codes, boot, light,
         pool, GivesBack, Held
    <3>3. WebHolds' /\ VideoHolds'
      BY <2>16 DEF CaptureLight, CameraTypeOK, WebTasks, WebHolds, VideoHolds
    <3>4. GivesBack'
      BY <2>16 DEF CaptureLight, CameraTypeOK, WebTasks, WebHolds, VideoHolds,
         GivesBack, Held, pool
    <3> QED
      BY <3>2, <3>3, <3>4
  <2>17. CASE CaptureFlash
    <3>1. web' \in WebTasks
      BY <2>17, IdleIsTask DEF CaptureFlash, enable_led, Goto, CameraTypeOK, WebTasks,
         WebSteps, Frames
    <3>2. CameraTypeOK'
      BY <2>17, <3>1 DEF CaptureFlash, enable_led, Goto, CameraTypeOK, WebTasks, Codes,
         boot, light, pool, GivesBack, Held
    <3>3. WebHolds' /\ VideoHolds'
      BY <2>17 DEF CaptureFlash, enable_led, Goto, CameraTypeOK, WebTasks, WebHolds,
         VideoHolds
    <3>4. GivesBack'
      BY <2>17 DEF CaptureFlash, enable_led, Goto, CameraTypeOK, WebTasks, WebHolds,
         VideoHolds, GivesBack, Held, pool
    <3> QED
      BY <3>2, <3>3, <3>4
  <2>18. CASE CaptureGrab
    <3>1. web' \in WebTasks
      BY <2>18, IdleIsTask DEF CaptureGrab, Grabs, Take, CameraTypeOK, WebTasks,
         WebSteps, Frames
    <3>2. CameraTypeOK'
      BY <2>18, <3>1 DEF CaptureGrab, Grabs, Take, CameraTypeOK, WebTasks, Codes, boot,
         light, pool, GivesBack, Held
    <3>3. WebHolds' /\ VideoHolds'
      BY <2>18 DEF CaptureGrab, Grabs, Take, CameraTypeOK, WebTasks, WebHolds,
         VideoHolds
    <3>4. GivesBack'
      BY <2>18 DEF CaptureGrab, Grabs, Take, CameraTypeOK, WebTasks, WebHolds,
         VideoHolds, GivesBack, Held, pool
    <3> QED
      BY <3>2, <3>3, <3>4
  <2>19. CASE CaptureDark
    <3>1. web' \in WebTasks
      BY <2>19, IdleIsTask DEF CaptureDark, enable_led, Goto, Answer, Idle,
         CameraTypeOK, WebTasks, WebSteps, Frames
    <3>2. CameraTypeOK'
      BY <2>19, <3>1 DEF CaptureDark, enable_led, Goto, Answer, Idle, CameraTypeOK,
         WebTasks, Codes, boot, light, pool, GivesBack, Held
    <3>3. WebHolds' /\ VideoHolds'
      BY <2>19 DEF CaptureDark, enable_led, Goto, Answer, Idle, CameraTypeOK, WebTasks,
         WebHolds, VideoHolds
    <3>4. GivesBack'
      BY <2>19 DEF CaptureDark, enable_led, Goto, Answer, Idle, CameraTypeOK, WebTasks,
         WebHolds, VideoHolds, GivesBack, Held, pool
    <3> QED
      BY <3>2, <3>3, <3>4
  <2>20. CASE CaptureDeliver
    <3>1. web' \in WebTasks
      BY <2>20, IdleIsTask DEF CaptureDeliver, esp_camera_fb_return, Answer, Idle,
         CameraTypeOK, WebTasks, WebSteps, Frames
    <3>2. CameraTypeOK'
      BY <2>20, <3>1 DEF CaptureDeliver, esp_camera_fb_return, Answer, Idle,
         CameraTypeOK, WebTasks, Codes, boot, light, pool, GivesBack, Held
    <3>3. WebHolds' /\ VideoHolds'
      BY <2>20 DEF CaptureDeliver, esp_camera_fb_return, Answer, Idle, CameraTypeOK,
         WebTasks, WebHolds, VideoHolds
    <3>4. GivesBack'
      BY <2>20 DEF CaptureDeliver, esp_camera_fb_return, Answer, Idle, CameraTypeOK,
         WebTasks, WebHolds, VideoHolds, GivesBack, Held, pool
    <3> QED
      BY <3>2, <3>3, <3>4
  <2>21. CASE CaptureAllocate
    <3>0. web.frame # "none" /\ web.blocks = 0
      BY <2>21 DEF CaptureAllocate, WebHolds
    <3>1. CASE heap > 0 /\ heap' = heap - 1 /\ lost' = lost /\ reply' = reply
             /\ web' = [web EXCEPT !.at = "convert", !.blocks = 1]
      <4>1. web' \in WebTasks
        BY <3>1, IdleIsTask DEF CameraTypeOK, WebTasks, WebSteps, Frames
      <4>2. CameraTypeOK'
        BY <2>21, <3>0, <3>1, <4>1 DEF CaptureAllocate, CameraTypeOK, Codes, boot, light
      <4> QED
        BY <2>21, <3>0, <3>1, <4>2 DEF CaptureAllocate, Idle, CameraTypeOK, WebTasks,
           WebHolds,
           VideoHolds, GivesBack, Held
    <3>2. CASE lost' = lost + 1 /\ heap' = heap /\ web' = Idle /\ reply' = "500"
      <4>1. web' \in WebTasks
        BY <3>2, IdleIsTask DEF CameraTypeOK, WebTasks, WebSteps, Frames
      <4>2. CameraTypeOK'
        BY <2>21, <3>0, <3>2, <4>1 DEF CaptureAllocate, CameraTypeOK, Codes, boot, light
      <4> QED
        BY <2>21, <3>0, <3>2, <4>2 DEF CaptureAllocate, Idle, CameraTypeOK, WebTasks,
           WebHolds,
           VideoHolds, GivesBack, Held
    <3> QED
      BY <2>21, <3>1, <3>2 DEF CaptureAllocate, Answer
  <2>22. CASE CaptureConvert
    <3>0. web.frame # "none" /\ web.blocks = 1
      BY <2>22 DEF CaptureConvert, WebHolds
    <3>1. CASE heap' = heap /\ reply' = reply
             /\ web' = [web EXCEPT !.at = "compress", !.frame = "none"]
      <4>1. web' \in WebTasks
        BY <3>1, IdleIsTask DEF CameraTypeOK, WebTasks, WebSteps, Frames
      <4>2. CameraTypeOK'
        BY <2>22, <3>0, <3>1, <4>1 DEF CaptureConvert, esp_camera_fb_return, CameraTypeOK,
           Codes, boot, light
      <4> QED
        BY <2>22, <3>0, <3>1, <4>2 DEF CaptureConvert, esp_camera_fb_return, Idle,
           CameraTypeOK, WebTasks, WebHolds,
           VideoHolds, GivesBack, Held
    <3>2. CASE heap' = heap + web.blocks /\ web' = Idle /\ reply' = "500"
      <4>1. web' \in WebTasks
        BY <3>2, IdleIsTask DEF CameraTypeOK, WebTasks, WebSteps, Frames
      <4>2. CameraTypeOK'
        BY <2>22, <3>0, <3>2, <4>1 DEF CaptureConvert, esp_camera_fb_return, CameraTypeOK,
           Codes, boot, light
      <4> QED
        BY <2>22, <3>0, <3>2, <4>2 DEF CaptureConvert, esp_camera_fb_return, Idle,
           CameraTypeOK, WebTasks, WebHolds,
           VideoHolds, GivesBack, Held
    <3> QED
      BY <2>22, <3>1, <3>2 DEF CaptureConvert, Answer
  <2>23. CASE CaptureCompress
    <3>1. web' \in WebTasks
      BY <2>23, IdleIsTask DEF CaptureCompress, Answer, Idle, CameraTypeOK, WebTasks,
         WebSteps, Frames
    <3>2. CameraTypeOK'
      BY <2>23, <3>1 DEF CaptureCompress, Answer, Idle, CameraTypeOK, WebTasks, Codes,
         boot, light, pool, GivesBack, Held
    <3>3. WebHolds' /\ VideoHolds'
      BY <2>23 DEF CaptureCompress, Answer, Idle, CameraTypeOK, WebTasks, WebHolds,
         VideoHolds
    <3>4. GivesBack'
      BY <2>23 DEF CaptureCompress, Answer, Idle, CameraTypeOK, WebTasks, WebHolds,
         VideoHolds, GivesBack, Held, pool
    <3> QED
      BY <3>2, <3>3, <3>4
  <2>24. CASE StreamOpen
    <3>0. LedDuty(led_duty, TRUE) \in Nat
      BY DEF LedDuty, CameraTypeOK
    <3>1. video' \in VideoTasks
      BY <2>24, <3>0, IdleIsTask DEF StreamOpen, Idle, CameraTypeOK, VideoTasks,
         VideoSteps, Frames
    <3>2. CameraTypeOK'
      BY <2>24, <3>0, <3>1 DEF StreamOpen, Idle, CameraTypeOK, VideoTasks, Codes, boot,
         light, pool, GivesBack, Held
    <3>3. WebHolds' /\ VideoHolds'
      BY <2>24 DEF StreamOpen, Idle, CameraTypeOK, VideoTasks, WebHolds, VideoHolds
    <3>4. GivesBack'
      BY <2>24 DEF StreamOpen, Idle, CameraTypeOK, VideoTasks, WebHolds, VideoHolds,
         GivesBack, Held, pool
    <3> QED
      BY <3>2, <3>3, <3>4
  <2>25. CASE StreamFlash
    <3>1. video' \in VideoTasks
      BY <2>25, IdleIsTask DEF StreamFlash, enable_led, Goto, CameraTypeOK, VideoTasks,
         VideoSteps, Frames
    <3>2. CameraTypeOK'
      BY <2>25, <3>1 DEF StreamFlash, enable_led, Goto, CameraTypeOK, VideoTasks, Codes,
         boot, light, pool, GivesBack, Held
    <3>3. WebHolds' /\ VideoHolds'
      BY <2>25 DEF StreamFlash, enable_led, Goto, CameraTypeOK, VideoTasks, WebHolds,
         VideoHolds
    <3>4. GivesBack'
      BY <2>25 DEF StreamFlash, enable_led, Goto, CameraTypeOK, VideoTasks, WebHolds,
         VideoHolds, GivesBack, Held, pool
    <3> QED
      BY <3>2, <3>3, <3>4
  <2>26. CASE StreamGrab
    <3>1. video' \in VideoTasks
      <4>1. PICK f \in Grabs :
              video' = [video EXCEPT !.at = IF f = "none" THEN "send" ELSE "look",
                                     !.frame = f, !.ok = f # "none"]
        BY <2>26 DEF StreamGrab
      <4>2. f \in Frames /\ (f # "none") \in BOOLEAN
        BY DEF Grabs, Frames
      <4> QED
        BY <4>1, <4>2 DEF CameraTypeOK, VideoTasks, VideoSteps
    <3>2. CameraTypeOK'
      BY <2>26, <3>1 DEF StreamGrab, Grabs, Take, CameraTypeOK, VideoTasks, Codes, boot,
         light, pool, GivesBack, Held
    <3>3. WebHolds' /\ VideoHolds'
      BY <2>26 DEF StreamGrab, Grabs, Take, CameraTypeOK, VideoTasks, WebHolds,
         VideoHolds
    <3>4. GivesBack'
      BY <2>26 DEF StreamGrab, Grabs, Take, CameraTypeOK, VideoTasks, WebHolds,
         VideoHolds, GivesBack, Held, pool
    <3> QED
      BY <3>2, <3>3, <3>4
  <2>27. CASE StreamLook
    <3>1. video' \in VideoTasks
      BY <2>27, IdleIsTask DEF StreamLook, Goto, CameraTypeOK, VideoTasks, VideoSteps,
         Frames
    <3>2. CameraTypeOK'
      BY <2>27, <3>1 DEF StreamLook, Goto, CameraTypeOK, VideoTasks, Codes, boot, light,
         pool, GivesBack, Held
    <3>3. WebHolds' /\ VideoHolds'
      BY <2>27 DEF StreamLook, Goto, CameraTypeOK, VideoTasks, WebHolds, VideoHolds
    <3>4. GivesBack'
      BY <2>27 DEF StreamLook, Goto, CameraTypeOK, VideoTasks, WebHolds, VideoHolds,
         GivesBack, Held, pool
    <3> QED
      BY <3>2, <3>3, <3>4
  <2>28. CASE StreamAllocate
    <3>0. video.frame # "none" /\ video.blocks = 0
      BY <2>28 DEF StreamAllocate, VideoHolds, CameraTypeOK, VideoTasks
    <3>1. CASE heap > 0 /\ heap' = heap - 1
             /\ video' = [video EXCEPT !.at = "convert", !.blocks = 1]
      <4>1. video' \in VideoTasks
        BY <3>1, IdleIsTask DEF CameraTypeOK, VideoTasks, VideoSteps, Frames
      <4>2. CameraTypeOK'
        BY <2>28, <3>0, <3>1, <4>1 DEF StreamAllocate, pool, CameraTypeOK, Codes, boot, light
      <4> QED
        BY <2>28, <3>0, <3>1, <4>2 DEF StreamAllocate, pool, Idle, CameraTypeOK,
           VideoTasks, WebHolds,
           VideoHolds, GivesBack, Held
    <3>2. CASE heap' = heap /\ video' = [video EXCEPT !.at = "send", !.ok = FALSE]
      <4>1. video' \in VideoTasks
        BY <3>2, IdleIsTask DEF CameraTypeOK, VideoTasks, VideoSteps, Frames
      <4>2. CameraTypeOK'
        BY <2>28, <3>0, <3>2, <4>1 DEF StreamAllocate, pool, CameraTypeOK, Codes, boot, light
      <4> QED
        BY <2>28, <3>0, <3>2, <4>2 DEF StreamAllocate, pool, Idle, CameraTypeOK,
           VideoTasks, WebHolds,
           VideoHolds, GivesBack, Held
    <3> QED
      BY <2>28, <3>1, <3>2 DEF StreamAllocate
  <2>29. CASE StreamConvert
    <3>0. video.frame # "none" /\ video.blocks = 1
      BY <2>29 DEF StreamConvert, VideoHolds
    <3>1. CASE heap' = heap /\ video' = [video EXCEPT !.at = "compress", !.frame = "none"]
      <4>1. video' \in VideoTasks
        BY <3>1, IdleIsTask DEF CameraTypeOK, VideoTasks, VideoSteps, Frames
      <4>2. CameraTypeOK'
        BY <2>29, <3>0, <3>1, <4>1 DEF StreamConvert, esp_camera_fb_return, CameraTypeOK,
           Codes, boot, light
      <4> QED
        BY <2>29, <3>0, <3>1, <4>2 DEF StreamConvert, esp_camera_fb_return, Idle,
           CameraTypeOK, VideoTasks, WebHolds,
           VideoHolds, GivesBack, Held
    <3>2. CASE heap' = heap + video.blocks
             /\ video' = [video EXCEPT !.at = "send", !.frame = "none", !.blocks = 0, !.ok = FALSE]
      <4>1. video' \in VideoTasks
        BY <3>2, IdleIsTask DEF CameraTypeOK, VideoTasks, VideoSteps, Frames
      <4>2. CameraTypeOK'
        BY <2>29, <3>0, <3>2, <4>1 DEF StreamConvert, esp_camera_fb_return, CameraTypeOK,
           Codes, boot, light
      <4> QED
        BY <2>29, <3>0, <3>2, <4>2 DEF StreamConvert, esp_camera_fb_return, Idle,
           CameraTypeOK, VideoTasks, WebHolds,
           VideoHolds, GivesBack, Held
    <3> QED
      BY <2>29, <3>1, <3>2 DEF StreamConvert
  <2>30. CASE StreamCompress
    <3>0. video.frame = "none" /\ video.blocks = 1
      BY <2>30 DEF StreamCompress, VideoHolds
    <3>1. CASE heap' = heap /\ video' = [video EXCEPT !.at = "send"]
      <4>1. video' \in VideoTasks
        BY <3>1, IdleIsTask DEF CameraTypeOK, VideoTasks, VideoSteps, Frames
      <4>2. CameraTypeOK'
        BY <2>30, <3>0, <3>1, <4>1 DEF StreamCompress, pool, CameraTypeOK, Codes, boot, light
      <4> QED
        BY <2>30, <3>0, <3>1, <4>2 DEF StreamCompress, pool, Idle, CameraTypeOK,
           VideoTasks, WebHolds,
           VideoHolds, GivesBack, Held
    <3>2. CASE heap' = heap + video.blocks
             /\ video' = [video EXCEPT !.at = "send", !.blocks = 0, !.ok = FALSE]
      <4>1. video' \in VideoTasks
        BY <3>2, IdleIsTask DEF CameraTypeOK, VideoTasks, VideoSteps, Frames
      <4>2. CameraTypeOK'
        BY <2>30, <3>0, <3>2, <4>1 DEF StreamCompress, pool, CameraTypeOK, Codes, boot, light
      <4> QED
        BY <2>30, <3>0, <3>2, <4>2 DEF StreamCompress, pool, Idle, CameraTypeOK,
           VideoTasks, WebHolds,
           VideoHolds, GivesBack, Held
    <3> QED
      BY <2>30, <3>1, <3>2 DEF StreamCompress, Goto
  <2>31. CASE StreamSend
    <3>1. video' \in VideoTasks
      BY <2>31, IdleIsTask DEF StreamSend, esp_camera_fb_return, CameraTypeOK,
         VideoTasks, VideoSteps, Frames
    <3>2. CameraTypeOK'
      BY <2>31, <3>1 DEF StreamSend, esp_camera_fb_return, CameraTypeOK, VideoTasks,
         Codes, boot, light, pool, GivesBack, Held
    <3>3. WebHolds' /\ VideoHolds'
      BY <2>31 DEF StreamSend, esp_camera_fb_return, CameraTypeOK, VideoTasks, WebHolds,
         VideoHolds
    <3>4. GivesBack'
      BY <2>31 DEF StreamSend, esp_camera_fb_return, CameraTypeOK, VideoTasks, WebHolds,
         VideoHolds, GivesBack, Held, pool
    <3> QED
      BY <3>2, <3>3, <3>4
  <2>32. CASE StreamClose
    <3>1. video' \in VideoTasks
      BY <2>32, IdleIsTask DEF StreamClose, enable_led, Idle, CameraTypeOK, VideoTasks,
         VideoSteps, Frames
    <3>2. CameraTypeOK'
      BY <2>32, <3>1 DEF StreamClose, enable_led, Idle, CameraTypeOK, VideoTasks, Codes,
         boot, light, pool, GivesBack, Held
    <3>3. WebHolds' /\ VideoHolds'
      BY <2>32 DEF StreamClose, enable_led, Idle, CameraTypeOK, VideoTasks, WebHolds,
         VideoHolds
    <3>4. GivesBack'
      BY <2>32 DEF StreamClose, enable_led, Idle, CameraTypeOK, VideoTasks, WebHolds,
         VideoHolds, GivesBack, Held, pool
    <3> QED
      BY <3>2, <3>3, <3>4
  <2>33. CASE ViewerLeaves
    BY <2>33 DEF ViewerLeaves, CameraTypeOK, WebHolds, VideoHolds, GivesBack, Held, boot,
       light,
       pool
  <2>34. ASSUME NEW size \in Sizes, handleCamera(size) PROVE CameraInv'
    <3>1. sensor' \in Sensors
      BY <2>34 DEF handleCamera, set_framesize, CameraTypeOK, Sensors
    <3> QED
      BY <2>34, <3>1 DEF handleCamera, CameraTypeOK, WebHolds, VideoHolds, GivesBack, Held,
         boot,
         light, pool
  <2>35. CASE UNCHANGED cameraVars
    BY <2>35 DEF cameraVars, CameraTypeOK, WebHolds, VideoHolds, GivesBack, Held, boot,
       light, pool
  <2> QED
    BY <2>1, <2>2, <2>3, <2>4, <2>5, <2>6, <2>7, <2>8, <2>9, <2>10, <2>11, <2>12, <2>13,
       <2>14, <2>15, <2>16, <2>17, <2>18, <2>19, <2>20, <2>21, <2>22, <2>23, <2>24,
       <2>25, <2>26, <2>27, <2>28, <2>29, <2>30, <2>31, <2>32, <2>33, <2>34, <2>35 DEF
       CameraNext, WebStep, VideoStep
<1>3. CameraInv => CameraTypeOK /\ GivesBack
  BY DEF CameraInv
<1> QED
  BY <1>1, <1>2, <1>3, PTL DEF CameraSpec

(* The stream handler is in its loop exactly while isStreaming is set.     *)
Streaming == isStreaming <=> video.at \notin {"idle", "dark"}

(* With no still and no stream under way the flash light is dark, unless   *)
(* the page changed its intensity while the stream was ending.             *)
THEOREM CameraDark == CameraSpec => []DarkAtRest
<1> DEFINE DarkInv == Streaming /\ DarkAtRest
<1>1. Off => DarkInv
  BY DEF Off, Streaming, DarkAtRest, Idle
<1>2. CameraTypeOK /\ DarkInv /\ [CameraNext]_cameraVars => DarkInv'
  <2> SUFFICES ASSUME CameraTypeOK, DarkInv, [CameraNext]_cameraVars PROVE DarkInv'
    OBVIOUS
  <2>1. CASE Boot
    BY <2>1 DEF Boot, Streaming, DarkAtRest, light
  <2>2. CASE Restart
    BY <2>2 DEF Restart, Streaming, DarkAtRest, Idle
  <2>3. ASSUME NEW page \in Pages, Request(page) PROVE DarkInv'
    BY <2>3 DEF Request, Goto, Pages, Streaming, DarkAtRest, light, CameraTypeOK, WebTasks
  <2>4. CASE xclk_handler
    BY <2>4 DEF xclk_handler, SensorCall, NullSensor, Restart, Answer, Idle, Streaming, DarkAtRest, light
  <2>5. CASE reg_handler
    BY <2>5 DEF reg_handler, SensorCall, NullSensor, Restart, Answer, Idle, Streaming, DarkAtRest, light
  <2>6. CASE greg_handler
    BY <2>6 DEF greg_handler, SensorCall, NullSensor, Restart, Answer, Idle, Streaming, DarkAtRest, light
  <2>7. CASE pll_handler
    BY <2>7 DEF pll_handler, SensorCall, NullSensor, Restart, Answer, Idle, Streaming, DarkAtRest, light
  <2>8. CASE win_handler
    BY <2>8 DEF win_handler, SensorCall, NullSensor, Restart, Answer, Idle, Streaming, DarkAtRest, light
  <2>9. CASE cmd_handler
    <3>1. CASE ControlSensor
      BY <2>9, <3>1 DEF cmd_handler, ControlSensor, SensorCall, NullSensor, Restart, Answer, Idle,
         Streaming, DarkAtRest, light
    <3>2. CASE ControlSwitch
      BY <2>9, <3>2 DEF cmd_handler, ControlSwitch, Answer, Idle, Streaming, DarkAtRest, light
    <3>3. ASSUME NEW val \in Duties, ControlLed(val) PROVE DarkInv'
      BY <2>9, <3>3 DEF cmd_handler, ControlLed, Answer, Idle, Streaming, DarkAtRest,
         CameraTypeOK, WebTasks
    <3> QED
      BY <2>9, <3>1, <3>2, <3>3 DEF cmd_handler
  <2>10. CASE index_handler
    BY <2>10 DEF index_handler, Answer, Idle, NullSensor, Restart, Streaming, DarkAtRest, light,
       CameraTypeOK, WebTasks
  <2>11. CASE status_handler
    BY <2>11 DEF status_handler, Answer, Idle, NullSensor, Restart, Streaming, DarkAtRest, light,
       CameraTypeOK, WebTasks
  <2>12. CASE bmp_handler
    BY <2>12 DEF bmp_handler, Answer, Idle, NullSensor, Restart, Streaming, DarkAtRest, light,
       CameraTypeOK, WebTasks
  <2>13. CASE BmpConvert
    BY <2>13 DEF BmpConvert, Answer, Idle, NullSensor, Restart, Streaming, DarkAtRest, light,
       CameraTypeOK, WebTasks
  <2>14. CASE BmpSend
    BY <2>14 DEF BmpSend, Answer, Idle, NullSensor, Restart, Streaming, DarkAtRest, light,
       CameraTypeOK, WebTasks
  <2>15. CASE CaptureDeliver
    BY <2>15 DEF CaptureDeliver, Answer, Idle, NullSensor, Restart, Streaming, DarkAtRest, light,
       CameraTypeOK, WebTasks
  <2>16. CASE CaptureAllocate
    BY <2>16 DEF CaptureAllocate, Answer, Idle, NullSensor, Restart, Streaming, DarkAtRest, light,
       CameraTypeOK, WebTasks
  <2>17. CASE CaptureConvert
    BY <2>17 DEF CaptureConvert, Answer, Idle, NullSensor, Restart, Streaming, DarkAtRest, light,
       CameraTypeOK, WebTasks
  <2>18. CASE CaptureCompress
    BY <2>18 DEF CaptureCompress, Answer, Idle, NullSensor, Restart, Streaming, DarkAtRest, light,
       CameraTypeOK, WebTasks
  <2>19. CASE ControlLedWrite
    BY <2>19 DEF ControlLedWrite, enable_led, Goto, Answer, Idle, Streaming, DarkAtRest, CameraTypeOK,
       WebTasks
  <2>20. CASE CaptureFlash
    BY <2>20 DEF CaptureFlash, enable_led, Goto, Answer, Idle, Streaming, DarkAtRest, CameraTypeOK,
       WebTasks
  <2>21. CASE CaptureDark
    BY <2>21 DEF CaptureDark, enable_led, Goto, Answer, Idle, Streaming, DarkAtRest, CameraTypeOK,
       WebTasks
  <2>22. CASE CaptureLight
    BY <2>22 DEF CaptureLight, Streaming, DarkAtRest, light, CameraTypeOK, WebTasks
  <2>23. CASE CaptureGrab
    BY <2>23 DEF CaptureGrab, Streaming, DarkAtRest, light, CameraTypeOK, WebTasks
  <2>24. CASE StreamOpen
    BY <2>24 DEF StreamOpen, enable_led, Goto, Idle, Streaming, DarkAtRest, light, CameraTypeOK,
       VideoTasks
  <2>25. CASE StreamFlash
    BY <2>25 DEF StreamFlash, enable_led, Goto, Idle, Streaming, DarkAtRest, light, CameraTypeOK,
       VideoTasks
  <2>26. CASE StreamLook
    BY <2>26 DEF StreamLook, enable_led, Goto, Idle, Streaming, DarkAtRest, light, CameraTypeOK,
       VideoTasks
  <2>27. CASE StreamAllocate
    BY <2>27 DEF StreamAllocate, enable_led, Goto, Idle, Streaming, DarkAtRest, light, CameraTypeOK,
       VideoTasks
  <2>28. CASE StreamConvert
    BY <2>28 DEF StreamConvert, enable_led, Goto, Idle, Streaming, DarkAtRest, light, CameraTypeOK,
       VideoTasks
  <2>29. CASE StreamCompress
    BY <2>29 DEF StreamCompress, enable_led, Goto, Idle, Streaming, DarkAtRest, light, CameraTypeOK,
       VideoTasks
  <2>30. CASE StreamSend
    BY <2>30 DEF StreamSend, enable_led, Goto, Idle, Streaming, DarkAtRest, light, CameraTypeOK,
       VideoTasks
  <2>31. CASE StreamClose
    BY <2>31 DEF StreamClose, enable_led, Goto, Idle, Streaming, DarkAtRest, light, CameraTypeOK,
       VideoTasks
  <2>32. CASE StreamGrab
    BY <2>32 DEF StreamGrab, enable_led, Goto, Idle, Streaming, DarkAtRest, light, CameraTypeOK,
       VideoTasks
  <2>33. CASE ViewerLeaves
    BY <2>33 DEF ViewerLeaves, Streaming, DarkAtRest, light
  <2>34. ASSUME NEW size \in Sizes, handleCamera(size) PROVE DarkInv'
    BY <2>34 DEF handleCamera, Streaming, DarkAtRest, light
  <2>35. CASE UNCHANGED cameraVars
    BY <2>35 DEF cameraVars, Streaming, DarkAtRest, light
  <2> QED
    BY <2>1, <2>2, <2>3, <2>4, <2>5, <2>6, <2>7, <2>8, <2>9, <2>10, <2>11, <2>12, <2>13,
       <2>14, <2>15, <2>16, <2>17, <2>18, <2>19, <2>20, <2>21, <2>22, <2>23, <2>24, <2>25,
       <2>26, <2>27, <2>28, <2>29, <2>30, <2>31, <2>32, <2>33, <2>34, <2>35 DEF
       CameraNext, WebStep, VideoStep
<1>3. DarkInv => DarkAtRest
  OBVIOUS
<1> QED
  BY <1>1, <1>2, <1>3, CameraGivesBack, PTL DEF CameraSpec
=============================================================================
