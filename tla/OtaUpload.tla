----------------------------- MODULE OtaUpload -----------------------------
(***************************************************************************)
(* New firmware: the upload of the /ota page (RoverWebServer.cpp) and      *)
(* ArduinoOTA (Ota/OTAManager.cpp).  Both write through the library's      *)
(* Update object, which is external: begin() may fail, of which only some  *)
(* is an error to hasError(); write() appends; end(true) makes the         *)
(* partition the one to boot if it holds exactly one image, and stops      *)
(* either way.  When begin() has failed write() and end() do nothing.  An  *)
(* upload is served by one call of handleClient, so the main loop stands   *)
(* still until its last block, or until it is broken off.  Clients are     *)
(* authorized: the default configuration asks for nothing.                 *)
(***************************************************************************)
EXTENDS Naturals

CONSTANTS Chunks     \* blocks of an image

ASSUME OtaAssumption == Chunks \in Nat \ {0}

VARIABLES
  boots,     \* which image the next boot takes: the one that runs, or a new one
  Update,    \* running, blocks of this upload, of earlier ones, error
  upload,    \* step of the upload, blocks received, is the image whole?
  answered   \* the last upload's answer, what there was against it, and how
             \* its begin() went

otaVars == <<boots, Update, upload, answered>>

Stopped == [running |-> FALSE, own |-> 0, stale |-> FALSE, error |-> FALSE]
NoUpload == [at |-> "none", sent |-> 0, good |-> TRUE]
NoAnswer == [code |-> "none", good |-> TRUE, flashed |-> TRUE, begun |-> "afresh"]

Updates == [running : BOOLEAN, own : 0..Chunks, stale : BOOLEAN, error : BOOLEAN]
Uploads == [at : {"none", "receiving", "finish", "restart"}, sent : 0..Chunks, good : BOOLEAN]
Beginnings == {"afresh", "running", "no partition", "no memory"}
Replies == [code : {"none", "200", "500"}, good : BOOLEAN, flashed : BOOLEAN, begun : Beginnings]

OtaTypeOK ==
  boots \in {"old", "new"} /\ Update \in Updates /\ upload \in Uploads /\ answered \in Replies

-----------------------------------------------------------------------------
(* The Update object.                                                      *)

(* begin() refuses while an update is running, which is no error; without  *)
(* a partition to write it fails with one, without memory for its buffer   *)
(* with none.                                                              *)
UpdateBegin(begun) ==
  IF Update.running
  THEN begun = "running" /\ Update' = [Update EXCEPT !.own = 0, !.stale = @ \/ Update.own > 0]
  ELSE /\ begun # "running"
       /\ Update' = [Stopped EXCEPT !.running = begun = "afresh", !.error = begun = "no partition"]

(* A block is appended, or the flash fails, which stops the update.  After *)
(* that nothing is written any more.                                       *)
UpdateWrite ==
  \/ /\ Update.running /\ Update' = [Update EXCEPT !.own = @ + 1]
     /\ UNCHANGED answered
  \/ /\ Update.running /\ Update' = [Stopped EXCEPT !.error = TRUE]
     /\ answered' = [answered EXCEPT !.flashed = FALSE]
  \/ ~Update.running /\ UNCHANGED <<Update, answered>>

UpdateEnd ==
  LET image == Update.own = Chunks /\ ~Update.stale /\ upload.good
  IN IF Update.running
     THEN /\ Update' = [Stopped EXCEPT !.error = ~image]
          /\ boots' = IF image THEN "new" ELSE boots
     ELSE UNCHANGED <<Update, boots>>

-----------------------------------------------------------------------------
(* handleOtaUpload, which is called for the start of the file, its blocks  *)
(* and its end; and, doing nothing, when the client has gone in between.   *)
(* What begin() answers is printed, and the upload goes on.                *)
UploadStart ==
  /\ upload.at = "none"
  /\ \E good \in BOOLEAN, begun \in Beginnings :
       /\ upload' = [at |-> "receiving", sent |-> 0, good |-> good]
       /\ answered' = [NoAnswer EXCEPT !.good = good, !.begun = begun]
       /\ UpdateBegin(begun)
  /\ UNCHANGED boots

UploadWrite ==
  /\ upload.at = "receiving" /\ upload.sent < Chunks
  /\ upload' = [upload EXCEPT !.sent = @ + 1]
  /\ UpdateWrite
  /\ UNCHANGED boots

UploadEnd ==
  /\ upload.at = "receiving" /\ upload.sent = Chunks
  /\ upload' = [upload EXCEPT !.at = "finish"]
  /\ UpdateEnd
  /\ UNCHANGED answered

UploadAborted ==
  /\ upload.at = "receiving" /\ upload' = NoUpload
  /\ UNCHANGED <<boots, Update, answered>>

(* A request without a file goes straight to its answer.                   *)
PostWithoutFile ==
  /\ upload.at = "none" /\ upload' = [at |-> "finish", sent |-> 0, good |-> FALSE]
  /\ answered' = [NoAnswer EXCEPT !.good = FALSE]
  /\ UNCHANGED <<boots, Update>>

(* Mutant: the answer does not look for an error.                          *)
handleOtaUploadFinish_Trusts ==
  /\ upload.at = "finish"
  /\ upload' = [upload EXCEPT !.at = "restart"]
  /\ answered' = [answered EXCEPT !.code = "200"]
  /\ UNCHANGED <<boots, Update>>

(* The answer; after a good one the rover reboots.                         *)
handleOtaUploadFinish ==
  /\ upload.at = "finish"
  /\ IF Update.error
     THEN upload' = NoUpload /\ answered' = [answered EXCEPT !.code = "500"]
     ELSE /\ upload' = [upload EXCEPT !.at = "restart"]
          /\ answered' = [answered EXCEPT !.code = "200"]
  /\ UNCHANGED <<boots, Update>>

UploadStep == UploadWrite \/ UploadEnd \/ UploadAborted \/ handleOtaUploadFinish

(* ArduinoOTA takes the whole image in one call of handle(); what fails of *)
(* it is aborted, or has not begun.  If it succeeds it reboots.            *)
handleEspota ==
  /\ upload.at = "none"
  /\ ~Update.running
  /\ \/ boots' = "new" /\ upload' = [NoUpload EXCEPT !.at = "restart"] /\ Update' = Stopped
     \/ \E e \in BOOLEAN : Update' = [Stopped EXCEPT !.error = e] /\ UNCHANGED <<boots, upload>>
  /\ answered' = NoAnswer

-----------------------------------------------------------------------------
OtaInit == boots = "old" /\ Update = Stopped /\ upload = NoUpload /\ answered = NoAnswer

OtaOff == boots' = "old" /\ Update' = Stopped /\ upload' = NoUpload /\ answered' = NoAnswer

-----------------------------------------------------------------------------
(* "OK, rebooting" is said only when the next boot takes the image that    *)
(* was uploaded, unless begin() had no memory for its buffer, and "Update  *)
(* failed" only when it does not, for a reason: the image, the flash, an   *)
(* upload that was broken off before, or no partition to write.            *)
UploadToldTrue ==
  /\ upload.at = "restart" /\ upload.sent > 0 /\ answered.begun # "no memory" =>
       answered.good /\ boots = "new"
  /\ answered.code = "500" =>
       /\ boots = "old"
       /\ ~answered.good \/ ~answered.flashed \/ answered.begun \in {"running", "no partition"}

(* "Upload complete. Rebooting...", "the rover reboots into the new        *)
(* firmware on completion": an upload is answered "OK, rebooting" only     *)
(* when the next boot takes a new image.  Not so if begin() had no memory. *)
RebootsIntoNew == upload.at = "restart" /\ upload.sent > 0 => boots = "new"

(* A good image on a good flash is taken.  Not the first one after an      *)
(* upload that was broken off: nobody has ended that one.                  *)
UploadWorks ==
  answered.code = "500" => ~answered.good \/ ~answered.flashed \/ answered.begun = "no partition"
=============================================================================
