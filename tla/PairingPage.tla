------------------------------ MODULE PairingPage ------------------------------
(* The page of the desktop that shows the pairing code and its QR image, and the
   task that announces the chosen address on the network (qr, on_refresh and
   on_select_pairing_address in src/ale-gui/src/desktop_ui.rs; maintain_mdns and
   the address channel in remote_server.rs). *)
EXTENDS PairingCredentials, FiniteSets

VARIABLES
    refreshing,  \* "no", "looking" (on a blocking thread), "found"
    page,        \* what the page shows: its code and host (0: none)
    image,       \* the code and host in the QR image
    encoding,    \* the images that blocking threads make
    missed,      \* did qr find the credentials locked the last time?
    handle,      \* is the server's handle alive?
    wanted,      \* advertised_host: the last address sent ...
    unseen,      \* ... and whether the task has yet to see it
    task,        \* "starting", "waiting", "stopping", "ended"
    target,      \* the address its blocking work registers
    announced    \* the addresses that are announced on the network

pageVars == <<now, credentials, refreshing, page, image, encoding, missed, handle,
              wanted, unseen, task, target, announced>>
ui == <<refreshing, page, image, encoding, missed>>
mdns == <<handle, wanted, unseen, task, target, announced>>

Blank == [code |-> 0, host |-> NoHost]
Shown == [code |-> code, host |-> host]

PageInit ==
    /\ CredentialsInit
    /\ refreshing = "no" /\ page = Blank /\ image = Blank /\ encoding = {}
    /\ missed = TRUE
    /\ handle = TRUE
    /\ wanted = host /\ unseen = FALSE
    /\ task = "starting" /\ target = host /\ announced = {}

------------------------------------------------------------------------------
(* The page.  Its handlers run on the thread of the user interface. *)

\* advertise_pairing_address: an address that is already the last one is not sent.
Advertise ==
    /\ wanted' = host'
    /\ unseen' = (unseen \/ host' # wanted)

\* qr, after the handler has changed the credentials: a lock that a connection holds
\* at this moment leaves the page as it is.
Redraw ==
    \/ /\ missed' = FALSE
       /\ Advertise
       /\ image' = Blank
       /\ IF addresses' = << >> THEN page' = Blank /\ UNCHANGED encoding
          ELSE page' = Shown' /\ encoding' = encoding \union {Shown'}
    \/ missed' = TRUE /\ UNCHANGED <<wanted, unseen, page, image, encoding>>

\* The server has started, and the page shows its credentials.
FirstDraw ==
    /\ code = 1 /\ page = Blank /\ missed
    /\ UNCHANGED <<now, credentials, refreshing, handle, task, target, announced>>
    /\ Redraw

Refresh ==
    /\ handle /\ refreshing = "no"
    /\ refreshing' = "looking"
    /\ UNCHANGED <<now, credentials, page, image, encoding, missed, mdns>>

\* refresh_pairing_network, on its thread; the list may not be had.
NetworkFound ==
    /\ refreshing = "looking"
    /\ \/ \E list \in Networks : ReplaceAddresses(list) /\ refreshing' = "found"
       \/ refreshing' = "no" /\ UNCHANGED credentials
    /\ UNCHANGED <<now, page, image, encoding, missed, mdns>>

RefreshShown ==
    /\ refreshing = "found"
    /\ refreshing' = "no"
    /\ UNCHANGED <<now, credentials, handle, task, target, announced>>
    /\ Redraw

\* A choice is not made during a refresh.
Select(chosen) ==
    /\ handle /\ refreshing = "no"
    /\ SelectAddress(chosen)
    /\ Redraw
    /\ UNCHANGED <<now, refreshing, handle, task, target, announced>>

\* Mutant: whatever was encoded last is shown.
EncodedLate(shown) ==
    /\ shown \in encoding
    /\ encoding' = encoding \ {shown}
    /\ image' = shown
    /\ UNCHANGED <<now, credentials, refreshing, page, missed, mdns>>

\* An image is shown if the page still shows what it encodes.
Encoded(shown) ==
    /\ shown \in encoding
    /\ encoding' = encoding \ {shown}
    /\ image' = IF page = shown THEN shown ELSE image
    /\ UNCHANGED <<now, credentials, refreshing, page, missed, mdns>>

------------------------------------------------------------------------------
(* maintain_mdns. *)

\* The blocking work: what was announced is withdrawn, the target is announced,
\* unless it is empty or the system refuses.
Register ==
    /\ task = "starting"
    /\ announced' \in {{target} \ {NoHost}, {}}
    /\ task' = "waiting"
    /\ UNCHANGED <<now, credentials, ui, handle, wanted, unseen, target>>

\* updates.changed(): a value that was not seen comes before the end of the handle.
Update ==
    /\ task = "waiting" /\ unseen
    /\ unseen' = FALSE
    /\ target' = wanted
    /\ task' = "starting"
    /\ UNCHANGED <<now, credentials, ui, handle, wanted, announced>>

\* Mutant: the task ends with the handle, and leaves its announcement.
StopAtOnce ==
    /\ task = "waiting" /\ ~unseen /\ ~handle
    /\ task' = "ended"
    /\ UNCHANGED <<now, credentials, ui, handle, wanted, unseen, target, announced>>

\* The handle is gone: what is announced is withdrawn, by blocking work again.
StopAnnouncing ==
    /\ task = "waiting" /\ ~unseen /\ ~handle
    /\ task' = IF announced = {} THEN "ended" ELSE "stopping"
    /\ UNCHANGED <<now, credentials, ui, handle, wanted, unseen, target, announced>>

Withdraw ==
    /\ task = "stopping"
    /\ announced' = {} /\ task' = "ended"
    /\ UNCHANGED <<now, credentials, ui, handle, wanted, unseen, target>>

MdnsStep == Register \/ Update \/ StopAnnouncing \/ Withdraw

\* RemoteServerHandle is dropped, the sender of addresses with it.
DropHandle ==
    /\ handle /\ handle' = FALSE
    /\ UNCHANGED <<now, credentials, ui, wanted, unseen, task, target, announced>>

PageNext ==
    \/ FirstDraw \/ Refresh \/ NetworkFound \/ RefreshShown
    \/ \E chosen \in {addresses[i] : i \in DOMAIN addresses} : Select(chosen)
    \/ \E shown \in encoding : Encoded(shown)
    \/ MdnsStep \/ DropHandle

\* The task of maintain_mdns runs (the fairness of the runs); the user, the
\* threads that look for networks and those that encode images owe nothing.
PageSpec == PageInit /\ [][PageNext]_pageVars /\ WF_pageVars(MdnsStep)

------------------------------------------------------------------------------
(* Properties. *)

\* However refreshes, choices and encodings overlap, the image never shows another
\* code or address than the text beside it, and the text is that of the
\* credentials once a refresh has been shown (qr: "Never leave the previous
\* address's image visible", desktop_ui.rs:200).
PageIsCurrent ==
    /\ image \in {Blank, page}
    /\ (~missed /\ refreshing # "found") => page = IF addresses = << >> THEN Blank ELSE Shown

\* The network is told of one address at most, and of the one on the page once
\* the task has caught up.
AnnouncedIsChosen ==
    /\ Cardinality(announced) <= 1
    /\ (task = "waiting" /\ ~unseen) => announced \subseteq {wanted}

\* When the server is dropped its announcement is withdrawn.
AnnouncementEnds == ~handle ~> announced = {} /\ task = "ended"
=================================================================================
