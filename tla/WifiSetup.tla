----------------------------- MODULE WifiSetup -----------------------------
(***************************************************************************)
(* How the rover gets onto a network (WiFi/WiFiSetupManager.cpp), the file *)
(* it keeps the network's name and password in (WiFi/WiFiConfigManager.cpp)*)
(* and the page of the captive portal (WiFi/CaptivePortalHTML.h).          *)
(*                                                                         *)
(* The station interface is the library's: begin() is told a pair and goes *)
(* on trying to join with it until it is told otherwise, status() is       *)
(* sta.up.  Nothing else runs while handleConnectToNetwork waits, so its   *)
(* steps are those at which the power may go, and `job` says which is next.*)
(* The flash takes a line of the file as a whole.                          *)
(***************************************************************************)
EXTENDS Naturals, Sequences

CONSTANTS
  Networks,      \* the names of the networks around
  Passwords,     \* what a user may type as a password
  PasswordOf,    \* each network's password, "" if it is open
  Trimmed,       \* what trimString makes of a name or password
  StatusLags,    \* may status() still say "connected" right after begin()?
  MaxPending     \* requests of the page that wait while one is served

Secrets == Passwords \cup {""}
Strings == Networks \cup Secrets

ASSUME WifiAssumption ==
  /\ PasswordOf \in [Networks -> Secrets]
  /\ Trimmed \in [Strings -> Strings] /\ Trimmed[""] = ""
  /\ StatusLags \in BOOLEAN /\ MaxPending \in Nat \ {0}
  /\ "" \notin Networks

Absent == <<"absent">>
Pairs == Networks \X Secrets
NoPair == <<"", "">>

VARIABLES
  file,     \* the lines of the configuration file, or Absent
  config,   \* WiFiConfigManager: file system mounted, pair cached, which
  mode,     \* "off" before setup(); "portal", or "station" when set up
  sta,      \* the station interface: the pair it was told, is it up?
  job,      \* what the main loop is busy with, and the pair it is about
  inbox,    \* pairs posted to /connect and not served yet
  page,     \* the portal's page: the network picked, what it shows
  told      \* what the rover last told a client of the stored network;
            \* "misled" is "forgotten" when the file could not be removed

wifiVars == <<file, config, mode, sta, job, inbox, page, told>>

Unread == [mounted |-> FALSE, cached |-> FALSE, pair |-> NoPair]
Down == [pair |-> NoPair, up |-> FALSE]
NoJob == [do |-> "none", pair |-> NoPair]
NewPage == [ssid |-> "", shows |-> "list"]

Files == {Absent, <<>>} \cup {<<s>> : s \in Networks} \cup Pairs
Configs == [mounted : BOOLEAN, cached : BOOLEAN, pair : Strings \X Strings]
Stations == [pair : Strings \X Strings, up : BOOLEAN]
Jobs == [do : {"none", "join", "save", "restart"}, pair : Strings \X Strings]
Pages == [ssid : Networks \cup {""},
          shows : {"list", "pick", "connecting", "connected", "failed", "error"}]

WifiTypeOK ==
  /\ file \in Files /\ config \in Configs /\ sta \in Stations /\ job \in Jobs
  /\ mode \in {"off", "portal", "station"}
  /\ inbox \in Seq(Pairs) /\ Len(inbox) <= MaxPending
  /\ page \in Pages /\ told \in {"nothing", "connected", "forgotten", "misled"}

-----------------------------------------------------------------------------
(* WiFiConfigManager.                                                      *)

(* readConfig trims the lines, and skips empty ones before the name.       *)
Line(f, i) == IF f # Absent /\ Len(f) >= i THEN Trimmed[f[i]] ELSE ""

Stored(f) == IF Line(f, 1) # "" THEN <<Line(f, 1), Line(f, 2)>> ELSE <<Line(f, 2), "">>

(* begin() of the file system may fail, and is called again next time.     *)
ensureMounted(mounted) == config.mounted => mounted

readConfig(mounted) ==
  [mounted |-> mounted, cached |-> TRUE,
   pair |-> IF config.cached THEN config.pair
            ELSE IF mounted THEN Stored(file) ELSE config.pair]

saveConfig(pair) ==
  \E mounted \in BOOLEAN :
    /\ ensureMounted(mounted)
    /\ \/ /\ mounted /\ file' = pair
          /\ config' = [mounted |-> TRUE, cached |-> TRUE, pair |-> pair]
       \/ config' = [config EXCEPT !.mounted = mounted] /\ UNCHANGED file

(* Mutant: only the cache is cleared.                                      *)
clearConfig_CacheOnly ==
  \E mounted \in BOOLEAN :
    /\ ensureMounted(mounted)
    /\ config' = [Unread EXCEPT !.mounted = mounted]
    /\ told' = "forgotten" /\ UNCHANGED file

(* The file is removed, if there is one and the file system has mounted.   *)
(* Whether remove() did so is not looked at.                               *)
clearConfig ==
  \E mounted \in BOOLEAN :
    /\ ensureMounted(mounted)
    /\ IF mounted /\ file # Absent
       THEN /\ config' = [Unread EXCEPT !.mounted = TRUE]
            /\ \/ file' = Absent /\ told' = "forgotten"
               \/ told' = "misled" /\ UNCHANGED file
       ELSE /\ config' = [config EXCEPT !.mounted = mounted]
            /\ told' = "forgotten" /\ UNCHANGED file

(* The file after a power cut: opened for writing it is empty, and then    *)
(* takes a line after the other.                                           *)
Torn == {file, <<>>, <<job.pair[1]>>, job.pair}

-----------------------------------------------------------------------------
Joins(pair) == pair[1] \in Networks /\ pair[2] = PasswordOf[pair[1]]

(* initialize: with a stored name and password the rover tries to join for *)
(* a while, and without, or without success, opens the portal.             *)
initialize ==
  \E mounted \in BOOLEAN :
    LET known == readConfig(mounted)
        tries == known.pair[1] # "" /\ known.pair[2] # ""
    IN /\ ensureMounted(mounted)
       /\ config' = known
       /\ sta' \in IF ~tries THEN {Down}
                   ELSE {[pair |-> known.pair, up |-> b] : b \in {FALSE, Joins(known.pair)}}
       /\ mode' = IF sta'.up THEN "station" ELSE "portal"
       /\ UNCHANGED <<file, job, inbox, page, told>>

(* The page's scan(), also its first act: the rover leaves its network and *)
(* forgets which, to be able to look around.                               *)
handleScanNetworks ==
  /\ mode = "portal" /\ job.do = "none"
  /\ sta' = Down
  /\ page' = [page EXCEPT !.shows = "list"]
  /\ UNCHANGED <<file, config, mode, job, inbox, told>>

(* begin(), and then the wait: status() may lag behind.                    *)
handleConnectToNetwork ==
  /\ mode = "portal" /\ job.do = "none"
  /\ inbox # <<>> /\ inbox' = Tail(inbox)
  /\ job' = [do |-> "join", pair |-> Head(inbox)]
  /\ sta' = [pair |-> Head(inbox), up |-> StatusLags /\ sta.up]
  /\ UNCHANGED <<file, config, mode, page, told>>

(* It ends when status() says so or after 30 s: the answer goes out first, *)
(* then the pair is saved.                                                 *)
ConnectEnds ==
  /\ job.do = "join"
  /\ IF sta.up
     THEN /\ job' = [job EXCEPT !.do = "save"] /\ told' = "connected"
          /\ page' = [page EXCEPT !.shows = "connected"]
     ELSE /\ job' = NoJob /\ page' = [page EXCEPT !.shows = "failed"]
          /\ UNCHANGED told
  /\ UNCHANGED <<file, config, mode, sta, inbox>>

ConnectSaves ==
  /\ job.do = "save"
  /\ saveConfig(job.pair) /\ job' = [job EXCEPT !.do = "restart"]
  /\ UNCHANGED <<mode, sta, inbox, page, told>>

(* The interface joins on its own, and loses its network.                  *)
Associates ==
  /\ mode # "off" /\ ~sta.up /\ Joins(sta.pair)
  /\ sta' = [sta EXCEPT !.up = TRUE]
  /\ UNCHANGED <<file, config, mode, job, inbox, page, told>>

LosesNetwork ==
  /\ sta.up /\ sta' = [sta EXCEPT !.up = FALSE]
  /\ UNCHANGED <<file, config, mode, job, inbox, page, told>>

-----------------------------------------------------------------------------
(* The portal's page.  A listed network can be picked at any time.         *)
selectNetwork ==
  /\ page.shows # "connected"
  /\ \E s \in Networks : page' = [page EXCEPT !.ssid = s]
  /\ UNCHANGED <<file, config, mode, sta, job, inbox, told>>

(* The button is off while one request is out, the Enter key is not.       *)
connect ==
  /\ IF page.ssid = ""
     THEN page' = [page EXCEPT !.shows = "pick"] /\ UNCHANGED inbox
     ELSE /\ Len(inbox) < MaxPending
          /\ page' = [page EXCEPT !.shows = "connecting"]
          /\ \E p \in Secrets : inbox' = Append(inbox, <<page.ssid, p>>)
  /\ UNCHANGED <<file, config, mode, sta, job, told>>

networkError ==
  /\ page.shows = "connecting"
  /\ page' = [page EXCEPT !.shows = "error"]
  /\ UNCHANGED <<file, config, mode, sta, job, inbox, told>>

-----------------------------------------------------------------------------
(* Commands of a rover that is set up.                                     *)

(* forget_wi_fi: clears, answers "Success", and reboots a second later.    *)
handleWiFiForget ==
  /\ clearConfig /\ job' = [NoJob EXCEPT !.do = "restart"]
  /\ UNCHANGED <<mode, sta, inbox, page>>

handleReboot ==
  /\ job' = [NoJob EXCEPT !.do = "restart"]
  /\ UNCHANGED <<file, config, mode, sta, inbox, page, told>>

handleGetWiFi ==
  /\ \E mounted \in BOOLEAN : ensureMounted(mounted) /\ config' = readConfig(mounted)
  /\ UNCHANGED <<file, mode, sta, job, inbox, page, told>>

-----------------------------------------------------------------------------
WifiInit ==
  /\ file = Absent /\ config = Unread /\ mode = "off" /\ sta = Down /\ job = NoJob
  /\ inbox = <<>> /\ page = NewPage /\ told = "nothing"

(* All but the file is lost with the power, or in ESP.restart().           *)
WifiOff ==
  /\ file' \in IF job.do = "save" THEN Torn ELSE {file}
  /\ config' = Unread /\ mode' = "off" /\ sta' = Down /\ job' = NoJob
  /\ inbox' = <<>> /\ page' = NewPage
  /\ UNCHANGED told

PortalPage == mode = "portal" /\ (selectNetwork \/ connect \/ networkError)

-----------------------------------------------------------------------------
(* A complete pair in the file is one the rover has joined with, and a     *)
(* rover that was told to forget its network keeps no complete pair,       *)
(* unless remove() failed.                                                 *)
StoredPair ==
  LET pair == Stored(file)
  IN pair[1] # "" /\ pair[2] # "" => Joins(pair) /\ told # "forgotten"

(* "Forget WI-FI Success": no complete pair is left, whatever the answer   *)
(* rests on.  Not so if remove() fails: after the reboot the rover joins   *)
(* the network it was told to forget.                                      *)
ForgottenIsGone ==
  LET pair == Stored(file)
  IN told \in {"forgotten", "misled"} => pair[1] = "" \/ pair[2] = ""

(* "persists Wi-Fi creds and reboots into station mode": who was told      *)
(* "Connected" finds a pair to join with after the reboot.  Not so if the  *)
(* power goes or the file system fails between the answer and the file,    *)
(* and never for an open network, whose password line is empty.            *)
ConnectedIsSaved ==
  mode = "off" /\ told = "connected" => Stored(file)[1] # "" /\ Stored(file)[2] # ""
=============================================================================
