---------------------------- MODULE MeetingWindow ----------------------------
(***************************************************************************)
(* The window of a meeting: the members it lists, their pictures, the      *)
(* buttons for microphone and camera, and the microphone itself, through   *)
(* one meeting after another.                                              *)
(*                                                                         *)
(* The UI thread handles one event after another.  What comes from the     *)
(* network waits in its queue, and goes on coming until the IO thread has  *)
(* closed the connection; so messages of a session are handled after the   *)
(* reset of the window that ended it.  Frames of the camera may be posted  *)
(* by a thread of their own.  The microphone belongs to another thread,    *)
(* which is sent start and stop and obeys them in order: it is modelled as *)
(* it will be when it has.                                                 *)
(*                                                                         *)
(* What the server sends is reduced to what the others in the room do, in  *)
(* the order MeetingServer sends it.  Attempts to connect, timeouts and    *)
(* errors of the session are ClientSession, playback AudioPlayback, chat   *)
(* Chat.                                                                   *)
(***************************************************************************)
EXTENDS CameraVideo, Integers, FiniteSets, SequencesExt

CONSTANTS
    Self,         \* the address of this client
    Others,       \* the addresses of the other members
    MaxMeetings,  \* bound: sessions
    MaxPackets,   \* bound: what the others in the room do
    MaxClicks     \* bound: buttons and tiles the user clicks

ASSUME WindowAssumption ==
    /\ IsFiniteSet(Others)
    /\ Self \notin Others /\ NoIp \notin Others \cup {Self}
    /\ {MaxMeetings, MaxPackets, MaxClicks} \subseteq Nat

VARIABLES
    ui,      \* MeetingWidget
    frame,   \* has a frame of the camera been posted?
    uiq,     \* messages of the network on their way through the UI thread
    mic,     \* AudioInput, once it has done what it was told
    server,  \* where the server has this client: "out", "lobby" or "in" a room
    room,    \* the others in that room
    cam,     \* those who have sent a picture and not closed the camera since
    used,    \* how much of each bound has been used
    late     \* history: has a message or a frame of a session been handled
             \* after its end, or a frame after the camera was closed?

deviceVars == <<frame, mic>>
remoteVars == <<uiq, server, room, cam>>
vars == <<ui, deviceVars, remoteVars, used, late>>

Ips == Others \cup {Self}
Open == "open"      \* OPENAUDIO
Close == "close"    \* CLOSEAUDIO

Init ==
    /\ ui = [partner |-> {}, iplist |-> << >>, selected |-> {},
             audioText |-> Open, openAudio |-> FALSE, openVedio |-> FALSE,
             inMeeting |-> FALSE, visible |-> FALSE, session |-> "none",
             video |-> NewVideo]
    /\ frame = FALSE
    /\ uiq = << >>
    /\ mic = "stopped"
    /\ server = "out" /\ room = {} /\ cam = {}
    /\ used = [meetings |-> 0, packets |-> 0, clicks |-> 0]
    /\ late = FALSE

Use(what, max) == used[what] < max /\ used' = [used EXCEPT ![what] = @ + 1]
-----------------------------------------------------------------------------
(***************************************************************************)
(* The functions of MeetingWidget, on its state u.  The microphone is told *)
(* to stop by remove_partner, when one is left alone, and by the end of a  *)
(* session.                                                                *)
(***************************************************************************)
\* add_partner, for each of ips: a second member enables the microphone.
add_partners(u, ips) ==
    IF ips \subseteq u.partner THEN u
    ELSE [u EXCEPT !.partner = @ \cup ips,
                   !.video = addPartnerDisplays(@, ips),
                   !.openAudio = @ \/ Cardinality(u.partner \cup ips) > 1]

\* Mutant: those who are new do not come into the list for "@".
join_partners_NoList(u, ips) ==
    [add_partners(u, ips) EXCEPT !.video = showAvatars(@, ips \ u.partner)]

\* handle_partner_join, and the loop of handle_partner_join2: avatar and "@" of
\* those who are new.
join_partners(u, ips) ==
    LET new == ips \ u.partner
    IN  [add_partners(u, ips) EXCEPT !.video = showAvatars(@, new),
                                     !.iplist = @ \o SetToSeq(new)]

\* Mutant: nobody is left rather than one.
LeftAlone_OffByOne(u, ip) == ip \in u.partner /\ Cardinality(u.partner \ {ip}) < 1

\* Only the client itself is left.
LeftAlone(u, ip) == ip \in u.partner /\ Cardinality(u.partner \ {ip}) <= 1

remove_partner(u, ip) ==
    LET r == [u EXCEPT !.partner = @ \ {ip}, !.selected = @ \ {ip},
                       !.video = removePartnerDisplay(@, ip)]
    IN  IF ip \notin u.partner THEN u
        ELSE IF LeftAlone(u, ip)
             THEN [r EXCEPT !.audioText = Open, !.openAudio = FALSE]
             ELSE r

clear_partner(u) ==
    IF u.partner = {} THEN u
    ELSE [u EXCEPT !.partner = {}, !.selected = {},
                   !.video = clearAllPartnerDisplays(@),
                   !.audioText = Close, !.openAudio = FALSE, !.openVedio = FALSE]

reset_meeting_ui(u) ==
    [u EXCEPT !.openAudio = FALSE, !.openVedio = FALSE, !.iplist = << >>]

\* Mutant: the camera is left to the user.
end_meeting_session_NoEndVideo(u) ==
    LET e == [u EXCEPT !.inMeeting = FALSE, !.video.main = "blank"]
    IN  [reset_meeting_ui(clear_partner(e)) EXCEPT
            !.session = IF @ = "active" THEN "ending" ELSE @]

\* The disconnection itself is io_disconnect.
end_meeting_session(u) ==
    LET e == [u EXCEPT !.video = endVideo(@), !.inMeeting = FALSE]
    IN  [reset_meeting_ui(clear_partner(e)) EXCEPT
            !.session = IF @ = "active" THEN "ending" ELSE @]

\* What the responses do for one who is let in.
enter_room(u) ==
    LET a == add_partners(u, {Self})
    IN  [a EXCEPT !.inMeeting = TRUE,
                  !.video = showMainAvatar(setLocalAndMainIp(@, Self))]
-----------------------------------------------------------------------------
(***************************************************************************)
(* Messages: what each handler makes of u.                                 *)
(***************************************************************************)
Msg(type, ips) == [type |-> type, ips |-> ips]
IpOf(m) == CHOOSE ip \in m.ips : TRUE

handle_partner_exit(u, ip) ==
    LET r == [remove_partner(u, ip) EXCEPT !.iplist = RemoveFirst(@, ip)]
    IN  IF ip = u.video.mainIp THEN [r EXCEPT !.video = showMainAvatar(@)] ELSE r

handle_img_recv(u, ip) ==
    LET a == add_partners(u, {ip})
    IN  [a EXCEPT !.video = showImageForIp(@, ip)]

close_img(u, ip) ==
    IF ip \in u.partner THEN [u EXCEPT !.video = showAvatars(@, {ip})] ELSE u

Handled(u, m) ==
    CASE m.type = "CreateMeetingResponse" ->
            [enter_room(u) EXCEPT !.openVedio = TRUE]
      [] m.type = "JoinMeetingResponse" -> enter_room(u)
      [] m.type = "JoinRefused" -> [u EXCEPT !.openVedio = FALSE]
      [] m.type = "PartnerJoin2" ->
            [join_partners(u, m.ips) EXCEPT !.openVedio = TRUE]
      [] m.type = "PartnerJoin" -> join_partners(u, m.ips)
      [] m.type = "PartnerExit" -> handle_partner_exit(u, IpOf(m))
      [] m.type = "ImgRecv" -> handle_img_recv(u, IpOf(m))
      [] m.type = "CloseCamera" -> close_img(u, IpOf(m))
      [] m.type = "RemoteHostClosed" ->
            IF u.session = "ending" THEN u ELSE end_meeting_session(u)
      [] m.type = "disconnected" -> [u EXCEPT !.session = "none"]

StopsMic(u, m) ==
    \/ m.type = "PartnerExit" /\ LeftAlone(u, IpOf(m))
    \/ m.type = "RemoteHostClosed" /\ u.session # "ending"

\* The next message of the queue.
handle_message ==
    /\ uiq # << >>
    /\ LET m == Head(uiq)
       IN /\ ui' = Handled(ui, m)
          /\ mic' = IF StopsMic(ui, m) THEN "stopped" ELSE mic
          /\ late' = (late \/ /\ ui.session # "active"
                              /\ m.type \notin {"RemoteHostClosed", "disconnected"})
    /\ uiq' = Tail(uiq)
    /\ UNCHANGED <<frame, server, room, cam, used>>
-----------------------------------------------------------------------------
(***************************************************************************)
(* The user.                                                               *)
(***************************************************************************)
\* The window is opened to create or join a meeting; the attempt to connect
\* begins, or waits for the end of the last session.
show_window ==
    /\ ~ui.visible /\ Use("meetings", MaxMeetings)
    /\ ui' = [ui EXCEPT !.visible = TRUE]
    /\ UNCHANGED <<deviceVars, remoteVars, late>>

\* A session begins: on_connect_finished_slot with a success.
connect ==
    /\ ui.visible /\ ui.session = "none" /\ server = "out"
    /\ ui' = [ui EXCEPT !.session = "active", !.openAudio = FALSE, !.openVedio = FALSE]
    /\ server' = "lobby"
    /\ UNCHANGED <<deviceVars, uiq, room, cam, used, late>>

\* The window is closed.  While a session is ending that is all.
closeEvent ==
    /\ ui.visible
    /\ LET hidden == [ui EXCEPT !.visible = FALSE]
       IN IF ui.session = "ending"
          THEN ui' = hidden /\ UNCHANGED mic
          ELSE ui' = end_meeting_session(hidden) /\ mic' = "stopped"
    /\ UNCHANGED <<frame, remoteVars, used, late>>

\* Mutant: the text of the button changes, but nothing is told to stop.
on_open_audio_clicked_NoStop ==
    /\ ui.visible /\ ui.openAudio /\ Use("clicks", MaxClicks)
    /\ ui.inMeeting
    /\ mic' = IF ui.audioText = Open THEN "active" ELSE mic
    /\ ui' = [ui EXCEPT !.audioText = IF @ = Open THEN Close ELSE Open]
    /\ UNCHANGED <<frame, remoteVars, late>>

on_open_audio_clicked_slot ==
    /\ ui.visible /\ ui.openAudio /\ Use("clicks", MaxClicks)
    /\ ui.inMeeting
    /\ mic' = IF ui.audioText = Open THEN "active" ELSE "stopped"
    /\ ui' = [ui EXCEPT !.audioText = IF @ = Open THEN Close ELSE Open]
    /\ UNCHANGED <<frame, remoteVars, late>>

on_open_vedio_clicked_slot ==
    /\ ui.visible /\ ui.openVedio /\ Use("clicks", MaxClicks)
    /\ ui' = IF ui.video.isRunning
             THEN close_img([ui EXCEPT !.video = stopCamera(@)], Self)
             ELSE [ui EXCEPT !.video = startCamera(@)]
    /\ UNCHANGED <<deviceVars, remoteVars, late>>

\* The border of the tile chosen before is reset, that of ip is set.
setSelected(selected, before, ip) == (selected \ {before}) \cup {ip}

\* The tile of a member is clicked.
on_recv_ip_slot ==
    /\ ui.visible /\ Use("clicks", MaxClicks)
    /\ \E ip \in ui.partner :
         ui' = [ui EXCEPT !.selected = setSelected(@, ui.video.mainIp, ip),
                          !.video = refreshMainForIp(@, ip)]
    /\ UNCHANGED <<deviceVars, remoteVars, late>>
-----------------------------------------------------------------------------
(***************************************************************************)
(* The devices.                                                            *)
(***************************************************************************)
camera_frame ==
    /\ ui.video.isRunning /\ ~frame
    /\ frame' = TRUE
    /\ UNCHANGED <<ui, mic, remoteVars, used, late>>

handle_frame ==
    /\ frame
    /\ frame' = FALSE
    /\ ui' = [ui EXCEPT !.video = cameraImageCapture(@)]
    /\ late' = (late \/ ~ui.video.isRunning)
    /\ UNCHANGED <<mic, remoteVars, used>>

\* An error of the device: handleStateChanged stops; the window only warns.
mic_error ==
    /\ mic = "active"
    /\ mic' = "stopped"
    /\ UNCHANGED <<ui, frame, remoteVars, used, late>>
-----------------------------------------------------------------------------
(***************************************************************************)
(* The IO thread, the server and the others.                               *)
(***************************************************************************)
Receive(s) == uiq' = uiq \o s

admit ==
    /\ server = "lobby"
    /\ server' = "in"
    /\ \/ /\ Receive(<<Msg("CreateMeetingResponse", {})>>)
          /\ UNCHANGED room
       \/ /\ room' \in SUBSET Others \ {{}}
          /\ Receive(<<Msg("JoinMeetingResponse", {}), Msg("PartnerJoin2", room')>>)
    /\ UNCHANGED <<ui, deviceVars, cam, used, late>>

\* No such meeting; the connection stays.
refuse ==
    /\ server = "lobby" /\ Use("packets", MaxPackets)
    /\ Receive(<<Msg("JoinRefused", {})>>)
    /\ UNCHANGED <<ui, deviceVars, server, room, cam, late>>

partner_joins(ip) ==
    /\ server = "in" /\ ip \notin room /\ Use("packets", MaxPackets)
    /\ room' = room \cup {ip}
    /\ Receive(<<Msg("PartnerJoin", {ip})>>)
    /\ UNCHANGED <<ui, deviceVars, server, cam, late>>

partner_exits(ip) ==
    /\ server = "in" /\ ip \in room /\ Use("packets", MaxPackets)
    /\ room' = room \ {ip} /\ cam' = cam \ {ip}
    /\ Receive(<<Msg("PartnerExit", {ip})>>)
    /\ UNCHANGED <<ui, deviceVars, server, late>>

partner_sends_picture(ip) ==
    /\ server = "in" /\ ip \in room /\ Use("packets", MaxPackets)
    /\ cam' = cam \cup {ip}
    /\ Receive(<<Msg("ImgRecv", {ip})>>)
    /\ UNCHANGED <<ui, deviceVars, server, room, late>>

partner_closes_camera(ip) ==
    /\ server = "in" /\ ip \in cam /\ Use("packets", MaxPackets)
    /\ cam' = cam \ {ip}
    /\ Receive(<<Msg("CloseCamera", {ip})>>)
    /\ UNCHANGED <<ui, deviceVars, server, room, late>>

\* The connection ends, by the client's doing or the server's.
GoOut == server' = "out" /\ room' = {} /\ cam' = {}

io_disconnect ==
    /\ ui.session = "ending" /\ server # "out"
    /\ GoOut
    /\ Receive(<<Msg("disconnected", {})>>)
    /\ UNCHANGED <<ui, deviceVars, used, late>>

remote_host_closes ==
    /\ server # "out"
    /\ GoOut
    /\ Receive(<<Msg("RemoteHostClosed", {}), Msg("disconnected", {})>>)
    /\ UNCHANGED <<ui, deviceVars, used, late>>
-----------------------------------------------------------------------------
User ==
    \/ show_window \/ connect \/ closeEvent
    \/ on_open_audio_clicked_slot \/ on_open_vedio_clicked_slot \/ on_recv_ip_slot

Devices == camera_frame \/ handle_frame \/ mic_error

Remote ==
    \/ admit \/ refuse \/ io_disconnect \/ remote_host_closes
    \/ \E ip \in Others :
        \/ partner_joins(ip) \/ partner_exits(ip)
        \/ partner_sends_picture(ip) \/ partner_closes_camera(ip)

Next == handle_message \/ User \/ Devices \/ Remote

Spec == Init /\ [][Next]_vars
-----------------------------------------------------------------------------
(***************************************************************************)
(* Properties.                                                             *)
(***************************************************************************)
\* The values of the variables.
TypeOK ==
    /\ ui.partner \subseteq Ips
    /\ ui.iplist \in Seq(Others)
    /\ ui.selected \subseteq ui.partner
    /\ ui.audioText \in {Open, Close}
    /\ {ui.openAudio, ui.openVedio, ui.inMeeting, ui.visible} \subseteq BOOLEAN
    /\ ui.session \in {"none", "active", "ending"}
    /\ ui.video.displays \in [DOMAIN ui.video.displays -> {"avatar", "picture"}]
    /\ ui.video.lastImages \subseteq Ips
    /\ ui.video.main \in {"blank", "avatar"} \cup Ips
    /\ {ui.video.mainIp, ui.video.localIp} \subseteq Ips \cup {NoIp}
    /\ ui.video.isRunning \in BOOLEAN
    /\ frame \in BOOLEAN /\ late \in BOOLEAN
    /\ mic \in {"stopped", "active"}
    /\ server \in {"out", "lobby", "in"}
    /\ cam \subseteq room /\ room \subseteq Others

\* The three places that know a member's picture agree: the tile, the table
\* of last pictures and, unless a message of an ended session was handled,
\* the main screen when the member is on it.  Nobody else is on it.
PicturesAgree ==
    LET v == ui.video
    IN /\ TypeOK
       /\ DOMAIN v.displays = ui.partner
       /\ \A ip \in ui.partner :
            v.displays[ip] = IF ip \in v.lastImages THEN "picture" ELSE "avatar"
       /\ late \/ v.main =
            IF v.mainIp \notin ui.partner
            THEN IF ui.inMeeting THEN "avatar" ELSE "blank"
            ELSE IF v.mainIp \in v.lastImages THEN v.mainIp ELSE "avatar"

Quiet == uiq = << >> /\ ~frame

\* Once all messages are handled, and if none of an ended session was, the
\* window lists the members of the room, offers each of them once for "@",
\* and shows a picture of those whose camera is on and of nobody else;
\* outside a meeting it lists nobody.
MembersShown ==
    Quiet /\ ~late =>
        IF ui.session = "active" /\ server = "in"
        THEN /\ ui.partner = room \cup {Self}
             /\ ToSet(ui.iplist) = room /\ IsInjective(ui.iplist)
             /\ \A ip \in room : ui.video.displays[ip] = "picture" <=> ip \in cam
             /\ ui.video.displays[Self] = "picture" => ui.video.isRunning
             /\ ui.selected \subseteq {ui.video.mainIp}
        ELSE ui.partner = {} /\ ui.iplist = << >>

\* A microphone that is on can be seen to be on and can be switched off: the
\* button offers to close it, and is enabled, in a meeting, unless a message
\* of an ended session was handled.
LiveMicIsShown ==
    mic = "active" =>
        /\ ui.audioText = Close
        /\ late \/ (ui.openAudio /\ ui.inMeeting)

\* Nobody is recorded who is alone or has left.  When all is handled the
\* microphone is off unless somebody else is in the room; a camera that runs
\* belongs to a meeting at any time, so that every way out of one has stopped
\* it, and its button can stop it before.  Again unless a message of an ended
\* session was handled.  (A list of members that comes after the end enables
\* the camera button of an empty window.)
DevicesInMeeting ==
    ~late =>
        /\ Quiet /\ mic = "active" => room # {}
        /\ ui.video.isRunning => ui.inMeeting /\ ui.openVedio
==============================================================================
