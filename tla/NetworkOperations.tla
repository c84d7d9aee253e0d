-------------------------- MODULE NetworkOperations --------------------------
(***************************************************************************)
(* The Wi-Fi of the gateway: the requests of web clients (scan, connect,   *)
(* questions that are answered at once), the scan worker, the pending      *)
(* station connect, the automatic connection from saved credentials with   *)
(* its retries, and the adapter of the Wi-Fi driver (hal_wifi.c).          *)
(*                                                                         *)
(* Four tasks run it: the web server's, which accepts requests and hands   *)
(* results out, the runtime task, the scan worker, and the driver's event  *)
(* task.  Scans and connects exclude each other only by the lock of the    *)
(* Wi-Fi operations, which a connect from saved credentials holds until it *)
(* is answered.  Before the runtime runs, the start of the program tries   *)
(* the saved credentials once and falls back to an access point.           *)
(*                                                                         *)
(* Credentials are "good" when they let the station in, and else "bad".    *)
(***************************************************************************)
EXTENDS OperationResults, Integers

CONSTANTS
    QueueBound,      \* kRequestQueueCapacity
    Limit,           \* kAutoconnectRetryLimit
    ConnectTimeout,  \* kStaConnectAsyncTimeoutMs, and
    Delay,           \* the delay between two attempts, in the units of the model
    Asked,           \* the credentials that clients ask for, and
    Saves,           \* whether to save them
    MaxRequests,     \* bounds of the model: what clients do, and
    MaxFaults        \* the calls that fail and the links that are lost

Bounds ==
    /\ {QueueBound, Limit, ConnectTimeout, Delay} \subseteq Nat \ {0}
    /\ Asked \subseteq {"good", "bad"} /\ Saves \subseteq BOOLEAN
    /\ {MaxRequests, MaxFaults} \subseteq Nat

ASSUME NetworkBounds == Bounds

VARIABLES
    requests,   \* request_queue_ of the NetworkManager
    box,        \* the store's network results and poll statuses
    posting,    \* the scan whose status the web server has still to note
    asked,      \* what was accepted and its client has not taken
    lastId,     \* the last request id
    scans,      \* the queue of the scan worker
    worker,     \* where the scan worker is
    busy,       \* busy_ of the ScanManager
    task,       \* where the runtime task is
    connect,    \* pending_sta_connect_
    retry,      \* autoconnect_retry_count_
    next,       \* what remains to next_autoconnect_attempt_ms_
    connected,  \* network_connected of the core's snapshot
    events,     \* the runtime's events of the network
    saved,      \* the saved credentials
    mode,       \* the driver's mode,
    station,    \* its station, and the credentials that it uses
    clients,    \* somebody uses the access point
    told,       \* what the driver has told, not yet handled
    hasIp,      \* s_sta_has_ip
    bits,       \* s_sta_event_group
    faults      \* what may still fail

requestVars == <<requests, box, posting, asked, lastId>>
scanVars == <<scans, worker, busy>>
policyVars == <<connect, retry, next>>
driverVars == <<mode, station, clients, told>>
handlerVars == <<hasIp, bits>>
vars == <<requestVars, scanVars, task, policyVars, connected, events, saved,
          driverVars, handlerVars, faults>>

Never == -1
NoConnect == [id |-> 0, left |-> 0]
Free == [pc |-> "idle", id |-> 0]
At(pc, id) == [pc |-> pc, id |-> id]
\* Where the runtime task is: [pc, id, with, after]
Idle == [pc |-> "idle", id |-> 0, with |-> "none", after |-> "none"]
Autoconnect(after) == [Idle EXCEPT !.pc = "auto", !.after = after]

\* The program has just started
Init ==
    /\ requests = <<>> /\ box = EmptyBox /\ posting = 0 /\ asked = {} /\ lastId = 0
    /\ scans = <<>> /\ worker = Free /\ busy = FALSE
    /\ task = Autoconnect("boot")
    /\ connect = NoConnect /\ retry = 0 /\ next = Never
    /\ connected = FALSE /\ events = <<>>
    /\ saved \in {"none", "good", "bad"}
    /\ mode = "null" /\ station = [link |-> "down", with |-> "none"]
    /\ clients = FALSE /\ told = <<>> /\ hasIp = FALSE /\ bits = {}
    /\ faults = MaxFaults

Failed == faults > 0 /\ faults' = faults - 1

-----------------------------------------------------------------------------
(* The driver, as the adapter's use of it shows it *)

HasAp(m) == m \in {"ap", "apsta"}

\* What the loss of the station's link tells
Lost == IF station.link = "down" THEN told ELSE Append(told, "disconnected")

\* esp_wifi_stop, then esp_wifi_set_mode
Switches(m) ==
    /\ mode' = m
    /\ station' = [station EXCEPT !.link = "down"] /\ told' = Lost
    /\ clients' = FALSE

\* esp_wifi_disconnect, then esp_wifi_connect, in a mode that may just be entered
Connects(m, with) ==
    /\ mode' = m
    /\ station' = [link |-> "trying", with |-> with] /\ told' = Lost
    /\ clients' = (clients /\ m = mode)

\* The tasks have nothing to do but to wait
AllWait ==
    /\ told = <<>>
    /\ \/ task = Idle /\ events = <<>>
       \/ task.pc = "waiting" /\ bits = {}
       \/ task.pc \in {"asking", "connecting"} /\ worker.pc = "scanning"

\* The station is let in and has its address; that it is quicker than the tasks is
\* counted among the faults
Associates ==
    /\ station.link = "trying" /\ station.with = "good"
    /\ IF AllWait THEN UNCHANGED faults ELSE Failed
    /\ station' = [station EXCEPT !.link = "up"]
    /\ told' = Append(told, "gotip")
    /\ UNCHANGED <<requestVars, scanVars, task, policyVars, connected, events, saved,
                   mode, clients, handlerVars>>

\* The station is refused, or its link is lost
Disconnects ==
    /\ station.link # "down"
    /\ IF station.with = "bad" THEN UNCHANGED faults ELSE Failed
    /\ station' = [station EXCEPT !.link = "down"] /\ told' = Lost
    /\ UNCHANGED <<requestVars, scanVars, task, policyVars, connected, events, saved,
                   mode, clients, handlerVars>>

\* Somebody joins the access point
ClientComes ==
    /\ HasAp(mode) /\ ~ clients
    /\ lastId < MaxRequests /\ lastId' = lastId + 1
    /\ clients' = TRUE
    /\ UNCHANGED <<requests, box, posting, asked, scanVars, task, policyVars, connected, events, saved,
                   mode, station, told, handlerVars, faults>>

\* The bits are cleared before they are waited for
Seen(bit) == IF task.pc = "waiting" THEN bits \cup {bit} ELSE bits

\* Variant for the runs' mutants: the handler does not note that there is an address
EventHandlerForgets ==
    /\ told # <<>> /\ told' = Tail(told)
    /\ IF Head(told) = "gotip"
       THEN /\ bits' = Seen("gotip")
            /\ events' = Append(events, "up")
            /\ UNCHANGED hasIp
       ELSE /\ bits' = Seen("disconnected")
            /\ events' = IF hasIp THEN Append(events, "down") ELSE events
            /\ hasIp' = FALSE
    /\ UNCHANGED <<requestVars, scanVars, task, policyVars, connected, saved,
                   mode, station, clients, faults>>

\* wifi_event_handler, and the callbacks of the event adapter
EventHandler ==
    /\ told # <<>> /\ told' = Tail(told)
    /\ IF Head(told) = "gotip"
       THEN /\ bits' = Seen("gotip")
            /\ events' = Append(events, "up")
            /\ hasIp' = TRUE
       ELSE /\ bits' = Seen("disconnected")
            /\ events' = IF hasIp THEN Append(events, "down") ELSE events
            /\ hasIp' = FALSE
    /\ UNCHANGED <<requestVars, scanVars, task, policyVars, connected, saved,
                   mode, station, clients, faults>>

-----------------------------------------------------------------------------
(* The web server *)

Running == task.after # "boot"

\* A request is accepted, or refused because the queue is full
Post(request) ==
    /\ Running /\ posting = 0
    /\ lastId < MaxRequests /\ lastId' = request.id
    /\ IF Len(requests) >= QueueBound THEN UNCHANGED <<requests, asked>>
       ELSE /\ requests' = Append(requests, request)
            /\ asked' = asked \cup {[id |-> request.id, op |-> request.op]}
    /\ posting' = IF request.op = "scan" /\ Len(requests) < QueueBound
                  THEN request.id ELSE 0
    /\ UNCHANGED <<box, scanVars, task, policyVars, connected, events, saved,
                   driverVars, handlerVars, faults>>

\* network_scan_get_handler, network_connect_post_handler, and the requests that
\* are answered at once
Asks == 
    \/ \E op \in {"scan", "status"} :
          Post([id |-> lastId + 1, op |-> op, with |-> "none", save |-> FALSE])
    \/ \E with \in Asked, save \in Saves :
          Post([id |-> lastId + 1, op |-> "connect", with |-> with, save |-> save])

\* post_network_scan notes the status after it has queued the request
PostNotes ==
    /\ posting # 0 /\ posting' = 0
    /\ box' = Note(box, posting, "queued")
    /\ UNCHANGED <<requests, asked, lastId, scanVars, task, policyVars, connected,
                   events, saved, driverVars, handlerVars, faults>>

\* network_refresh_post_handler, and the command that becomes an event
AsksRefresh ==
    /\ Running
    /\ lastId < MaxRequests /\ lastId' = lastId + 1
    /\ events' = Append(events, "refresh")
    /\ UNCHANGED <<requests, box, posting, asked, scanVars, task, policyVars,
                   connected, saved, driverVars, handlerVars, faults>>

\* network_result_get_handler, when there is a result
Takes == \E entry \in asked :
    /\ entry.id \in Ids(box.results) /\ posting # entry.id
    /\ box' = Take(box, entry.id)
    /\ asked' = asked \ {entry}
    /\ UNCHANGED <<requests, posting, lastId, scanVars, task, policyVars, connected,
                   events, saved, driverVars, handlerVars, faults>>

-----------------------------------------------------------------------------
(* The scan worker *)

ScanPendingOrBusy == busy \/ scans # <<>>
\* The connect from saved credentials holds the lock of the operations while it waits
RadioFree == task.pc # "waiting" /\ worker.pc # "scanning"

WorkerPops ==
    /\ worker.pc = "idle" /\ scans # <<>>
    /\ worker' = At("popped", Head(scans)) /\ scans' = Tail(scans)
    /\ UNCHANGED <<requestVars, busy, task, policyVars, connected, events, saved,
                   driverVars, handlerVars, faults>>

\* Variant for the runs' mutants: the status is withdrawn when the scan begins
WorkerBeginsSilently ==
    /\ worker.pc = "popped"
    /\ worker' = [worker EXCEPT !.pc = "begun"] /\ busy' = TRUE
    /\ box' = Note(box, worker.id, "notready")
    /\ UNCHANGED <<requests, posting, asked, lastId, scans, task, policyVars, connected,
                   events, saved, driverVars, handlerVars, faults>>

WorkerBegins ==
    /\ worker.pc = "popped"
    /\ worker' = [worker EXCEPT !.pc = "begun"] /\ busy' = TRUE
    /\ box' = Note(box, worker.id, "inprogress")
    /\ UNCHANGED <<requests, posting, asked, lastId, scans, task, policyVars, connected,
                   events, saved, driverVars, handlerVars, faults>>

\* ensure_wifi_mode_for_scan, and the adapter that adds the station to an access
\* point without a restart
ModeForScan == CASE mode = "null" -> "sta"
                 [] mode = "ap"   -> "apsta"
                 [] OTHER         -> mode

WorkerScans ==
    /\ worker.pc = "begun" /\ RadioFree
    /\ worker' = [worker EXCEPT !.pc = "scanning"]
    /\ mode' = ModeForScan
    /\ UNCHANGED <<requestVars, scans, busy, task, policyVars, connected, events, saved,
                   station, clients, told, handlerVars, faults>>

\* The scan ends, one way or the other, and the worker is no longer busy
WorkerEnds ==
    /\ worker.pc = "scanning"
    /\ \E status \in {"ok", "halfailed"} :
          /\ IF status = "ok" THEN UNCHANGED faults ELSE Failed
          /\ worker' = [worker EXCEPT !.pc = status]
    /\ busy' = FALSE
    /\ UNCHANGED <<requestVars, scans, task, policyVars, connected, events, saved,
                   driverVars, handlerVars>>

WorkerPublishes ==
    /\ worker.pc \in {"ok", "halfailed"}
    /\ box' = PublishResult(box, worker.id, worker.pc)
    /\ worker' = Free
    /\ UNCHANGED <<requests, posting, asked, lastId, scans, busy, task, policyVars,
                   connected, events, saved, driverVars, handlerVars, faults>>

Worker == WorkerPops \/ WorkerBegins \/ WorkerScans \/ WorkerEnds \/ WorkerPublishes

-----------------------------------------------------------------------------
(* The runtime task: requests *)

Request == Head(requests)
NextRequest(op) == task = Idle /\ requests # <<>> /\ Request.op = op

Answers(status) == box' = PublishResult(box, Request.id, status) /\ task' = Idle

HandleStatus ==
    /\ NextRequest("status")
    /\ requests' = Tail(requests)
    /\ Answers("ok")
    /\ UNCHANGED <<posting, asked, lastId, scanVars, policyVars, connected, events,
                   saved, driverVars, handlerVars, faults>>

\* handle_scan hands the request on and then notes that it is queued
HandleScan ==
    /\ NextRequest("scan")
    /\ requests' = Tail(requests)
    /\ IF ScanPendingOrBusy THEN Answers("nocapacity") /\ UNCHANGED scans
       ELSE /\ scans' = Append(scans, Request.id)
            /\ task' = [Idle EXCEPT !.pc = "noting", !.id = Request.id]
            /\ UNCHANGED box
    /\ UNCHANGED <<posting, asked, lastId, worker, busy, policyVars, connected, events,
                   saved, driverVars, handlerVars, faults>>

ScanNotes ==
    /\ task.pc = "noting" /\ task' = Idle
    /\ box' = Note(box, task.id, "queued")
    /\ UNCHANGED <<requests, posting, asked, lastId, scanVars, policyVars, connected,
                   events, saved, driverVars, handlerVars, faults>>

\* The two keys of the credentials: when the second cannot be written they are mixed
Writes(request, done) ==
    IF ~ request.save THEN done /\ UNCHANGED <<saved, faults>>
    ELSE \/ done /\ saved' = request.with /\ UNCHANGED faults
         \/ ~ done /\ Failed /\ UNCHANGED saved
         \/ ~ done /\ Failed /\ saved' = "bad"

HandleConnect ==
    /\ NextRequest("connect")
    /\ requests' = Tail(requests)
    /\ IF connect # NoConnect \/ ScanPendingOrBusy
       THEN Answers("nocapacity") /\ UNCHANGED <<saved, faults>>
       ELSE \/ /\ Writes(Request, TRUE) /\ UNCHANGED box
               /\ task' = [Idle EXCEPT !.pc = "asking", !.id = Request.id,
                                       !.with = Request.with]
            \/ Writes(Request, FALSE) /\ Answers("halfailed")
    /\ UNCHANGED <<posting, asked, lastId, scanVars, policyVars, connected, events,
                   driverVars, handlerVars>>

ModeForConnect == CASE mode = "ap"   -> "apsta"
                    [] mode = "null" -> "sta"
                    [] OTHER         -> mode

\* handle_connect goes on: the mode, the retries, the driver, and the pending connect
ConnectAsks ==
    /\ task.pc = "asking" /\ RadioFree
    /\ task' = Idle
    /\ \/ /\ Connects(ModeForConnect, task.with)
          /\ bits' = {}
          /\ connect' = [id |-> task.id, left |-> ConnectTimeout]
          /\ retry' = 0 /\ next' = Never
          /\ UNCHANGED <<box, faults>>
       \/ \* the mode cannot be set
          /\ Failed
          /\ box' = PublishResult(box, task.id, "halfailed")
          /\ UNCHANGED <<policyVars, driverVars, bits>>
       \/ \* the driver refuses
          /\ Failed
          /\ Switches(ModeForConnect) /\ bits' = {}
          /\ retry' = 0 /\ next' = Never
          /\ box' = PublishResult(box, task.id, "halfailed")
          /\ UNCHANGED connect
    /\ UNCHANGED <<requests, posting, asked, lastId, scanVars, connected, events,
                   saved, hasIp>>

\* process_pending_sta_connect
ConnectEnds ==
    /\ task = Idle /\ connect # NoConnect
    /\ connected \/ connect.left = 0
    /\ box' = PublishResult(box, connect.id, IF connected THEN "ok" ELSE "halfailed")
    /\ connect' = NoConnect
    /\ UNCHANGED <<requests, posting, asked, lastId, scanVars, task, retry, next,
                   connected, events, saved, driverVars, handlerVars, faults>>

-----------------------------------------------------------------------------
(* The runtime task: events and the automatic connection *)

HandleUp ==
    /\ task = Idle /\ events # <<>> /\ Head(events) = "up"
    /\ events' = Tail(events) /\ connected' = TRUE
    /\ UNCHANGED <<requestVars, scanVars, task, policyVars, saved, driverVars,
                   handlerVars, faults>>

\* The gateway reconnects before the event is reduced
HandleDown ==
    /\ task = Idle /\ events # <<>> /\ Head(events) = "down"
    /\ events' = Tail(events) /\ task' = Autoconnect("down")
    /\ UNCHANGED <<requestVars, scanVars, policyVars, connected, saved, driverVars,
                   handlerVars, faults>>

\* The effect of a refresh: hal_wifi_refresh
HandleRefresh ==
    /\ task = Idle /\ events # <<>> /\ Head(events) = "refresh" /\ RadioFree
    /\ events' = Tail(events)
    /\ CASE mode = "sta" -> /\ Connects(mode, station.with)
         [] mode = "ap"  -> /\ Switches(mode)
         [] OTHER        -> UNCHANGED driverVars
    /\ UNCHANGED <<requestVars, scanVars, task, policyVars, connected, saved,
                   handlerVars, faults>>

\* The tick, after the events, finds an attempt due; that it crosses what the driver
\* tells is counted among the faults
TickConnects ==
    /\ task = Idle /\ events = <<>>
    /\ ~ connected /\ connect = NoConnect /\ retry < Limit /\ next = 0
    /\ task' = Autoconnect("tick")
    /\ IF told = <<>> THEN UNCHANGED faults ELSE Failed
    /\ UNCHANGED <<requestVars, scanVars, policyVars, connected, events, saved,
                   driverVars, handlerVars>>

\* The automatic connection returns to where it was called from: the start of the
\* program goes on with an access point, the event is reduced
Returns(success) ==
    /\ task' = IF task.after = "boot" /\ ~ success
               THEN [task EXCEPT !.pc = "startap"] ELSE Idle
    /\ connected' = (connected /\ task.after # "down")

\* Variant for the runs' mutants: an attempt that is due is taken for one that is not
SuppressedWhenDue == next # Never \/ retry >= Limit

Suppressed == next > 0 \/ retry >= Limit

\* autoconnect_from_saved_credentials, until it touches the driver
AutoGate ==
    /\ task.pc = "auto"
    /\ IF Suppressed THEN Returns(FALSE) /\ UNCHANGED retry
       ELSE IF saved = "none" THEN Returns(FALSE) /\ retry' = Limit
       ELSE /\ task' = [task EXCEPT !.pc = "connecting"]
            /\ UNCHANGED <<retry, connected>>
    /\ UNCHANGED <<requestVars, scanVars, connect, next, events, saved, driverVars,
                   handlerVars, faults>>

\* A failed attempt delays the next one, from the time it began: the delay may be over
\* when the attempt is, unless it ended at once, with the disconnection from the
\* network before it
Delays == next' \in IF bits # {} /\ station.link = "trying" THEN {Delay} ELSE {0, Delay}

\* The delay doubles each time
Counts == retry' = retry + 1 /\ Delays

\* The mode is forced to station only, then clients of the access point are looked
\* for - there are none in that mode - and the driver is asked
AutoConnects ==
    /\ task.pc = "connecting" /\ RadioFree
    /\ \/ /\ Connects("sta", saved) /\ bits' = {}
          /\ task' = [task EXCEPT !.pc = "waiting"]
          /\ UNCHANGED <<retry, next, connected, faults>>
       \/ \* the mode cannot be set
          /\ Failed /\ Returns(FALSE)
          /\ UNCHANGED <<retry, next, driverVars, bits>>
       \/ \* the driver refuses
          /\ Failed /\ Returns(FALSE) /\ Counts
          /\ Switches("sta") /\ bits' = {}
    /\ UNCHANGED <<requestVars, scanVars, connect, events, saved, hasIp>>

\* hal_wifi_connect_sta has its answer, or waits no longer
AutoEnds ==
    /\ task.pc = "waiting"
    /\ IF bits # {} THEN UNCHANGED faults ELSE Failed
    /\ bits' = {}
    /\ Returns("gotip" \in bits)
    /\ IF "gotip" \in bits THEN retry' = 0 /\ next' = Never ELSE Counts
    /\ UNCHANGED <<requestVars, scanVars, connect, events, saved, driverVars, hasIp>>

\* start_provisioning_ap; when it fails the program stops there
StartAp ==
    /\ task.pc = "startap"
    /\ \/ task' = Idle /\ Switches("ap") /\ UNCHANGED faults
       \/ Failed /\ task' = [task EXCEPT !.pc = "halted"] /\ UNCHANGED driverVars
    /\ UNCHANGED <<requestVars, scanVars, policyVars, connected, events, saved,
                   handlerVars>>

RuntimeTask ==
    \/ HandleStatus \/ HandleScan \/ ScanNotes \/ HandleConnect \/ ConnectAsks
    \/ ConnectEnds \/ HandleUp \/ HandleDown \/ HandleRefresh \/ TickConnects
    \/ AutoGate \/ AutoConnects \/ AutoEnds \/ StartAp

\* Time passes while the tasks wait for something
Tick ==
    /\ task = Idle /\ told = <<>> /\ events = <<>>
    /\ connect.left > 0 \/ next > 0
    /\ connect' = [connect EXCEPT !.left = IF @ > 0 THEN @ - 1 ELSE @]
    /\ next' = IF next > 0 THEN next - 1 ELSE next
    /\ UNCHANGED <<requestVars, scanVars, task, retry, connected, events, saved,
                   driverVars, handlerVars, faults>>

Inputs == Asks \/ AsksRefresh \/ Takes \/ ClientComes

Next == Inputs \/ PostNotes \/ Worker \/ RuntimeTask \/ EventHandler
        \/ Associates \/ Disconnects \/ Tick

Spec == Init /\ [][Next]_vars

\* The tasks run, the driver answers and tells, and time passes
FairSpec ==
    /\ Spec
    /\ WF_vars(PostNotes) /\ WF_vars(Worker) /\ WF_vars(RuntimeTask)
    /\ WF_vars(EventHandler) /\ WF_vars(Associates \/ Disconnects) /\ WF_vars(Tick)

-----------------------------------------------------------------------------
Id == 1 .. MaxRequests
Request_ == [id : Id, op : {"scan", "connect", "status"}, with : Asked \cup {"none"},
             save : BOOLEAN]

\* Type invariant of the requests, the tasks, the policy and the driver
TypeOK ==
    /\ requests \in Seq(Request_) /\ Len(requests) <= QueueBound
    /\ posting \in 0 .. MaxRequests /\ lastId \in 0 .. MaxRequests
    /\ asked \subseteq [id : Id, op : {"scan", "connect", "status"}]
    /\ Ids(box.results) \subseteq Id /\ Ids(box.statuses) \subseteq Id
    /\ scans \in Seq(Id) /\ Len(scans) <= 1 /\ busy \in BOOLEAN
    /\ worker.pc \in {"idle", "popped", "begun", "scanning", "ok", "halfailed"}
    /\ worker.id \in 0 .. MaxRequests
    /\ task.pc \in {"idle", "noting", "asking", "auto", "connecting", "waiting",
                    "startap", "halted"}
    /\ task.after \in {"none", "boot", "down", "tick"}
    /\ connect \in [id : 0 .. MaxRequests, left : 0 .. ConnectTimeout]
    /\ retry \in 0 .. Limit /\ next \in Never .. Delay
    /\ connected \in BOOLEAN /\ hasIp \in BOOLEAN /\ clients \in BOOLEAN
    /\ events \in Seq({"up", "down", "refresh"})
    /\ told \in Seq({"gotip", "disconnected"})
    /\ saved \in {"none", "good", "bad"} /\ mode \in {"null", "sta", "ap", "apsta"}
    /\ station \in [link : {"down", "trying", "up"}, with : {"none", "good", "bad"}]
    /\ bits \subseteq {"gotip", "disconnected"} /\ faults \in 0 .. MaxFaults

\* A client that asked for a scan and has been told its id is told where the scan
\* is - queued, in progress or ready - until it takes the result: however the notes
\* of the web server, the runtime task and the worker cross, none of them loses it
ScanIsVisible ==
    \A entry \in asked : entry.op = "scan" /\ posting # entry.id
        => PollStatus(box, entry.id) # "notready"

\* Scans are told to their clients, and the queues keep to their bounds
ScansAreTold == TypeOK /\ ScanIsVisible

\* Every accepted request is answered: a scan that waits for the radio, a connect
\* whose driver says nothing, a second request of the kind that is refused
AcceptedEnds ==
    \A id \in Id : (\E entry \in asked : entry.id = id)
        ~> (id \in Ids(box.results) \/ \A entry \in asked : entry.id # id)

\* When clients and links come to rest, what the core's snapshot says of the network
\* is what the driver has, whatever happened while the events were under way
SnapshotSettles == <>[](Running => connected = (station.link = "up"))

\* The gateway does not try wrong credentials, or a network that is gone, forever
AttemptsEnd == <>[](task.pc \in {"idle", "halted"})

\* An attempt that is armed is made, and again until the gateway is connected, has
\* used up its retries, or a client's connect has disarmed it
ArmedIsRetried ==
    (Running /\ next # Never /\ retry < Limit)
        ~> (connected \/ retry = Limit \/ next = Never)

\* Neither a client nor the gateway itself waits for ever
NothingHangs == AcceptedEnds /\ AttemptsEnd /\ ArmedIsRetried

\* "Keep provisioning UI stable on softAP. Background autoconnect attempts in AP/APSTA
\* can disrupt active HTTP sessions": the automatic connection leaves the access point
\* alone while somebody uses it
AutoconnectSparesClients ==
    [][AutoConnects => clients' = clients]_vars
=============================================================================
