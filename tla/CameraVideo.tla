----------------------------- MODULE CameraVideo -----------------------------
(***************************************************************************)
(* CameraVideo: the pictures of the members' tiles, of the main screen,    *)
(* and the last picture received of each member, as operators on the state *)
(* v of the object.  Tiles and main screen are labels that show what was   *)
(* drawn last.  A picture is known by its member: "picture" on a tile, the *)
(* member's address on the main screen, whose two ImgDisplays draw on one  *)
(* label.                                                                  *)
(***************************************************************************)
CONSTANT NoIp   \* the address 0

NewVideo ==
    [displays |-> [i \in {} |-> "blank"],   \* _partnerDisplays: what each tile shows
     lastImages |-> {},    \* the keys of _lastImages
     main |-> "blank",     \* what the main screen shows
     mainIp |-> NoIp,      \* _mainIp
     localIp |-> NoIp,     \* _localIp
     isRunning |-> FALSE]  \* _isRunning

\* ImgDisplay::showImage on the tile of ip, if there is one.
Draw(v, ip, what) ==
    IF ip \in DOMAIN v.displays THEN [v EXCEPT !.displays[ip] = what] ELSE v

showMainAvatar(v) == [v EXCEPT !.main = "avatar"]

showImageForIp(v, ip) ==
    LET d == Draw([v EXCEPT !.lastImages = @ \cup {ip}], ip, "picture")
    IN  IF ip = v.mainIp THEN [d EXCEPT !.main = ip] ELSE d

\* Mutant: the main screen keeps the last picture.
showAvatars_TileOnly(v, ips) ==
    [v EXCEPT !.displays = [i \in DOMAIN @ |-> IF i \in ips THEN "avatar" ELSE @[i]],
              !.lastImages = @ \ ips]

\* showAvatarForIp, for each of ips.
showAvatars(v, ips) ==
    [v EXCEPT !.displays = [i \in DOMAIN @ |-> IF i \in ips THEN "avatar" ELSE @[i]],
              !.lastImages = @ \ ips,
              !.main = IF v.mainIp \in ips THEN "avatar" ELSE @]

\* Mutant: a new tile stays empty.
addPartnerDisplays_Blank(v, ips) ==
    [v EXCEPT !.displays =
        [i \in DOMAIN @ \cup ips |-> IF i \in DOMAIN @ THEN @[i] ELSE "blank"]]

\* addPartnerDisplay, for each of ips.
addPartnerDisplays(v, ips) ==
    LET d == v.displays
        blank == [i \in DOMAIN d \cup ips |-> IF i \in DOMAIN d THEN d[i] ELSE "blank"]
    IN  showAvatars([v EXCEPT !.displays = blank], ips \ DOMAIN d)

\* The last picture is not forgotten.
removePartnerDisplay(v, ip) ==
    [v EXCEPT !.displays = [i \in DOMAIN @ \ {ip} |-> @[i]]]

clearAllPartnerDisplays(v) ==
    [v EXCEPT !.displays = [i \in {} |-> "blank"], !.lastImages = {}]

refreshMainForIp(v, ip) ==
    LET m == [v EXCEPT !.mainIp = ip]
    IN  IF ip \in v.lastImages THEN [m EXCEPT !.main = ip] ELSE showMainAvatar(m)

setLocalAndMainIp(v, ip) == [v EXCEPT !.localIp = ip, !.mainIp = ip]

startCamera(v) == [v EXCEPT !.isRunning = TRUE]
stopCamera(v) == [v EXCEPT !.isRunning = FALSE]

endVideo(v) ==
    [stopCamera(v) EXCEPT !.main = "blank", !.displays = [i \in DOMAIN @ |-> "blank"]]

\* A frame of the camera; whether it is still running is not asked.
cameraImageCapture(v) == IF v.localIp = NoIp THEN v ELSE showImageForIp(v, v.localIp)
==============================================================================
