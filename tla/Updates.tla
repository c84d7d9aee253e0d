------------------------------ MODULE Updates -------------------------------
(***************************************************************************)
(* Updates of the gateway's firmware (OtaManager) and of the radio         *)
(* co-processor's (RcpUpdateManager).  The web server's task submits them  *)
(* and collects their results; one worker task of each kind carries them   *)
(* out; the runtime task moves status updates from each manager's mailbox  *)
(* into the snapshot the API shows.                                        *)
(*                                                                         *)
(* The two workers take the same steps, but not in the same order: each    *)
(* runs through its Program.                                               *)
(***************************************************************************)
EXTENDS OperationResults, FiniteSets

CONSTANTS MaxRequests,      \* bounds of the model: on request ids,
          Submitted,        \* and on the kinds that clients submit
          AutoReboot        \* CONFIG_ZGW_OTA_AUTO_REBOOT_ENABLED

Kinds == {"ota", "rcp"}

ASSUME UpdatesAssumption ==
    MaxRequests \in Nat /\ Submitted \subseteq Kinds /\ AutoReboot \in BOOLEAN

Requests == 1..MaxRequests
NoRequest == 0

Other(k) == IF k = "ota" THEN "rcp" ELSE "ota"

\* The worker loops: pop_request and process_request
Program ==
    [ota |-> <<"pop", "busy", "started", "working", "pause", "transfer",
               "resume", "finished", "free", "result", "reboot">>,
     rcp |-> <<"pop", "busy", "working", "started", "transfer",
               "free", "finished", "result">>]

VARIABLES
    slot,       \* request_slot_, or NoRequest
    pending,    \* pending_count_, of at most one
    busy,       \* busy_
    mailbox,    \* pending_status_update_
    snapshot,   \* snapshot_
    store,      \* the kinds' boxes of the OperationResultStore
    at,         \* where the worker is in its program
    job,        \* its request
    ok,         \* whether that succeeded
    web,        \* the web server's task: its place, kind and request
    nextId,     \* next_request_id_
    mqtt,       \* the MQTT client: "started", "stopped" or "released"
    paused,     \* mqtt_paused_for_ota
    rebootDue,  \* a restart is scheduled
    accepted,   \* history, since the last restart: requests accepted,
    succeeded,  \* requests whose update succeeded,
    mqttFailed  \* and whether the HAL failed to stop or to start MQTT

managerVars == <<slot, pending, busy>>
statusVars == <<mailbox, snapshot, store>>
workerVars == <<at, job, ok, succeeded>>
webVars == <<web, nextId, accepted>>
deviceVars == <<mqtt, paused, mqttFailed, rebootDue>>
vars == <<managerVars, statusVars, workerVars, webVars, deviceVars>>

NoUpdate == [kind |-> "none", id |-> NoRequest, ok |-> FALSE]
Update(kind, id) == [kind |-> kind, id |-> id, ok |-> FALSE]

IdleWeb == [pc |-> "idle", kind |-> "ota", id |-> NoRequest]

Init ==
    /\ slot = [k \in Kinds |-> NoRequest]
    /\ pending = [k \in Kinds |-> FALSE]
    /\ busy = [k \in Kinds |-> FALSE]
    /\ mailbox = [k \in Kinds |-> NoUpdate]
    /\ snapshot = [k \in Kinds |->
                      [id |-> NoRequest, stage |-> "idle", busy |-> FALSE]]
    /\ store = [k \in Kinds |-> EmptyBox]
    /\ at = [k \in Kinds |-> 1]
    /\ job = [k \in Kinds |-> NoRequest]
    /\ ok = [k \in Kinds |-> FALSE]
    /\ web = IdleWeb
    /\ nextId = 1
    /\ mqtt = "started"
    /\ paused = FALSE
    /\ rebootDue = FALSE
    /\ accepted = [k \in Kinds |-> {}]
    /\ succeeded = [k \in Kinds |-> {}]
    /\ mqttFailed = FALSE

-----------------------------------------------------------------------------
(* The web server's task: post_..._start and enqueue_request *)

WebAt(pc) == web' = IF pc = "idle" THEN IdleWeb ELSE [web EXCEPT !.pc = pc]

Submit(k) ==
    /\ web.pc = "idle"
    /\ k \in Submitted
    /\ nextId <= MaxRequests
    /\ web' = [pc |-> "otherBusy", kind |-> k, id |-> nextId]
    /\ nextId' = nextId + 1
    /\ UNCHANGED <<managerVars, statusVars, workerVars, accepted, deviceVars>>

\* has_pending_or_busy of the other manager: two loads, without a lock
ReadOtherBusy ==
    /\ web.pc = "otherBusy"
    /\ WebAt(IF busy[Other(web.kind)] THEN "idle" ELSE "otherPending")
    /\ UNCHANGED <<managerVars, statusVars, workerVars, nextId, accepted, deviceVars>>

\* Variant for the runs' mutants: the pending request is not looked at
IgnoreOtherPending ==
    /\ web.pc = "otherPending"
    /\ WebAt("enqueue")
    /\ UNCHANGED <<managerVars, statusVars, workerVars, nextId, accepted, deviceVars>>

ReadOtherPending ==
    /\ web.pc = "otherPending"
    /\ WebAt(IF pending[Other(web.kind)] THEN "idle" ELSE "enqueue")
    /\ UNCHANGED <<managerVars, statusVars, workerVars, nextId, accepted, deviceVars>>

\* The manifest or the request is refused, there is no worker or no
\* backend, or the manager has a request already
Refuse ==
    /\ web.pc = "enqueue"
    /\ WebAt("idle")
    /\ UNCHANGED <<managerVars, statusVars, workerVars, nextId, accepted, deviceVars>>

\* pop_request holds queue_lock_ between its stores
PopHoldsLock(k) == Program[k][at[k]] = "busy"

\* Variant for the runs' mutants: accepts while the worker is busy
AcceptWhileBusy ==
    LET k == web.kind IN
    /\ web.pc = "enqueue"
    /\ ~PopHoldsLock(k)
    /\ slot[k] = NoRequest
    /\ slot' = [slot EXCEPT ![k] = web.id]
    /\ pending' = [pending EXCEPT ![k] = TRUE]
    /\ accepted' = [accepted EXCEPT ![k] = @ \union {web.id}]
    /\ WebAt("note")
    /\ UNCHANGED <<busy, statusVars, workerVars, nextId, deviceVars>>

Accept ==
    LET k == web.kind IN
    /\ web.pc = "enqueue"
    /\ ~PopHoldsLock(k)
    /\ slot[k] = NoRequest /\ ~busy[k]
    /\ slot' = [slot EXCEPT ![k] = web.id]
    /\ pending' = [pending EXCEPT ![k] = TRUE]
    /\ accepted' = [accepted EXCEPT ![k] = @ \union {web.id}]
    /\ WebAt("note")
    /\ UNCHANGED <<busy, statusVars, workerVars, nextId, deviceVars>>

NoteQueued ==
    /\ web.pc = "note"
    /\ store' = [store EXCEPT ![web.kind] = Note(@, web.id, "queued")]
    /\ WebAt("publish")
    /\ UNCHANGED <<managerVars, mailbox, snapshot, workerVars, nextId, accepted,
                   deviceVars>>

PublishQueued ==
    /\ web.pc = "publish"
    /\ mailbox' = [mailbox EXCEPT ![web.kind] = Update("queued", web.id)]
    /\ WebAt("idle")
    /\ UNCHANGED <<managerVars, snapshot, store, workerVars, nextId, accepted,
                   deviceVars>>

\* A client asks for its result, and takes it if it is there
TakeResult(k, id) ==
    /\ web.pc = "idle"
    /\ id \in Ids(store[k].results)
    /\ store' = [store EXCEPT ![k] = Take(@, id)]
    /\ UNCHANGED <<managerVars, mailbox, snapshot, workerVars, webVars, deviceVars>>

\* RcpUpdateManager notes and publishes under queue_lock_, OtaManager does not
EnqueueHoldsLock(k) ==
    k = "rcp" /\ web.kind = k /\ web.pc \in {"note", "publish"}

-----------------------------------------------------------------------------
(* The workers *)

Step(k) == Program[k][at[k]]

\* Worker k does what its program says next
Does(k, step) ==
    /\ Step(k) = step
    /\ at' = [at EXCEPT ![k] = IF @ = Len(Program[k]) THEN 1 ELSE @ + 1]

Pop(k) ==
    /\ Does(k, "pop")
    /\ slot[k] # NoRequest
    /\ ~EnqueueHoldsLock(k)
    /\ job' = [job EXCEPT ![k] = slot[k]]
    /\ slot' = [slot EXCEPT ![k] = NoRequest]
    /\ pending' = [pending EXCEPT ![k] = FALSE]
    /\ UNCHANGED <<busy, statusVars, ok, succeeded, webVars, deviceVars>>

BecomeBusy(k) ==
    /\ Does(k, "busy")
    /\ busy' = [busy EXCEPT ![k] = TRUE]
    /\ UNCHANGED <<slot, pending, statusVars, job, ok, succeeded, webVars, deviceVars>>

PublishStarted(k) ==
    /\ Does(k, "started")
    /\ mailbox' = [mailbox EXCEPT ![k] = Update("started", job[k])]
    /\ UNCHANGED <<managerVars, snapshot, store, job, ok, succeeded, webVars, deviceVars>>

NoteWorking(k) ==
    /\ Does(k, "working")
    /\ store' = [store EXCEPT ![k] = Note(@, job[k], "working")]
    /\ UNCHANGED <<managerVars, mailbox, snapshot, job, ok, succeeded, webVars, deviceVars>>

\* hal_mqtt_stop and hal_mqtt_release_resources, either of which may fail
PauseMqtt(k) ==
    /\ Does(k, "pause")
    /\ \/ /\ mqtt # "released"
          /\ paused' = TRUE
          /\ mqtt' \in {"stopped", "released"}
          /\ UNCHANGED mqttFailed
       \/ /\ mqtt # "stopped"
          /\ paused' = FALSE
          /\ mqttFailed' = (mqttFailed \/ mqtt = "started")
          /\ UNCHANGED mqtt
    /\ UNCHANGED <<managerVars, statusVars, job, ok, succeeded, webVars, rebootDue>>

\* The HAL reports progress while it downloads
Progress(k) ==
    /\ k = "ota" /\ Step(k) = "transfer"
    /\ mailbox' = [mailbox EXCEPT ![k] = Update("progress", job[k])]
    /\ UNCHANGED <<managerVars, snapshot, store, workerVars, webVars, deviceVars>>

\* The HAL's call returns
EndTransfer(k) ==
    /\ Does(k, "transfer")
    /\ \E success \in BOOLEAN :
          /\ ok' = [ok EXCEPT ![k] = success]
          /\ succeeded' = [succeeded EXCEPT
                             ![k] = IF success THEN @ \union {job[k]} ELSE @]
    /\ UNCHANGED <<managerVars, statusVars, job, webVars, deviceVars>>

\* Variant for the runs' mutants: MQTT is started, but not restored first
StartMqttOnly(k) ==
    /\ Does(k, "resume")
    /\ IF paused /\ ~ok[k] /\ mqtt = "stopped"
       THEN /\ mqtt' \in {"stopped", "started"}
            /\ mqttFailed' = (mqttFailed \/ mqtt' # "started")
       ELSE UNCHANGED <<mqtt, mqttFailed>>
    /\ UNCHANGED <<managerVars, statusVars, job, ok, succeeded, webVars, paused,
                   rebootDue>>

\* hal_mqtt_restore_resources and hal_mqtt_start after a failed update;
\* either may fail, and a client that is not restored does not start
ResumeMqtt(k) ==
    /\ Does(k, "resume")
    /\ IF paused /\ ~ok[k]
       THEN /\ mqtt' \in {mqtt, "stopped", "started"}
            /\ mqttFailed' = (mqttFailed \/ mqtt' # "started")
       ELSE UNCHANGED <<mqtt, mqttFailed>>
    /\ UNCHANGED <<managerVars, statusVars, job, ok, succeeded, webVars, paused, rebootDue>>

PublishFinished(k) ==
    /\ Does(k, "finished")
    /\ mailbox' = [mailbox EXCEPT
                      ![k] = [kind |-> "finished", id |-> job[k], ok |-> ok[k]]]
    /\ UNCHANGED <<managerVars, snapshot, store, job, ok, succeeded, webVars, deviceVars>>

BecomeFree(k) ==
    /\ Does(k, "free")
    /\ busy' = [busy EXCEPT ![k] = FALSE]
    /\ UNCHANGED <<slot, pending, statusVars, job, ok, succeeded, webVars, deviceVars>>

\* Variant for the runs' mutants: only a success is reported
QueueSuccess(k) ==
    /\ Does(k, "result")
    /\ store' = [store EXCEPT ![k] = IF ok[k] THEN PublishResult(@, job[k], TRUE)
                                              ELSE @]
    /\ UNCHANGED <<managerVars, mailbox, snapshot, job, ok, succeeded, webVars,
                   deviceVars>>

QueueResult(k) ==
    /\ Does(k, "result")
    /\ store' = [store EXCEPT ![k] = PublishResult(@, job[k], ok[k])]
    /\ UNCHANGED <<managerVars, mailbox, snapshot, job, ok, succeeded, webVars, deviceVars>>

ScheduleReboot(k) ==
    /\ Does(k, "reboot")
    /\ IF ok[k] /\ AutoReboot
       THEN /\ mailbox' = [mailbox EXCEPT ![k] = Update("reboot", job[k])]
            /\ rebootDue' = TRUE
       ELSE UNCHANGED <<mailbox, rebootDue>>
    /\ UNCHANGED <<managerVars, snapshot, store, job, ok, succeeded, webVars, mqtt, paused,
                   mqttFailed>>

WorkerStep(k) ==
    \/ Pop(k) \/ BecomeBusy(k) \/ PublishStarted(k) \/ NoteWorking(k)
    \/ PauseMqtt(k) \/ EndTransfer(k) \/ ResumeMqtt(k)
    \/ PublishFinished(k) \/ BecomeFree(k) \/ QueueResult(k)
    \/ ScheduleReboot(k)

-----------------------------------------------------------------------------
(* The runtime task, and the restart *)

\* apply_status_update
Applied(shown, update) ==
    [id |-> update.id,
     busy |-> CASE update.kind \in {"queued", "started", "progress"} -> TRUE
                [] update.kind = "finished" -> FALSE
                [] update.kind = "reboot" -> shown.busy,
     stage |-> CASE update.kind = "queued" -> "queued"
                 [] update.kind \in {"started", "progress"} -> "working"
                 [] update.kind = "finished" ->
                        IF update.ok THEN "done" ELSE "failed"
                 [] update.kind = "reboot" ->
                        IF shown.stage = "done" THEN "reboot" ELSE shown.stage]

\* drain_..._status_update
ApplyStatus(k) ==
    /\ mailbox[k].kind # "none"
    /\ snapshot' = [snapshot EXCEPT ![k] = Applied(@, mailbox[k])]
    /\ mailbox' = [mailbox EXCEPT ![k] = NoUpdate]
    /\ UNCHANGED <<managerVars, store, workerVars, webVars, deviceVars>>

Restart ==
    /\ rebootDue
    /\ slot' = [k \in Kinds |-> NoRequest]
    /\ pending' = [k \in Kinds |-> FALSE]
    /\ busy' = [k \in Kinds |-> FALSE]
    /\ mailbox' = [k \in Kinds |-> NoUpdate]
    /\ snapshot' = [k \in Kinds |->
                       [id |-> NoRequest, stage |-> "idle", busy |-> FALSE]]
    /\ store' = [k \in Kinds |-> EmptyBox]
    /\ at' = [k \in Kinds |-> 1]
    /\ job' = [k \in Kinds |-> NoRequest]
    /\ ok' = [k \in Kinds |-> FALSE]
    /\ web' = IdleWeb
    /\ nextId' = 1
    /\ mqtt' = "started"
    /\ paused' = FALSE
    /\ rebootDue' = FALSE
    /\ accepted' = [k \in Kinds |-> {}]
    /\ succeeded' = [k \in Kinds |-> {}]
    /\ mqttFailed' = FALSE

Next ==
    \/ ReadOtherBusy \/ ReadOtherPending \/ Refuse \/ Accept
    \/ NoteQueued \/ PublishQueued
    \/ \E k \in Kinds :
          \/ Submit(k) \/ WorkerStep(k) \/ Progress(k) \/ ApplyStatus(k)
          \/ \E id \in Requests : TakeResult(k, id)
    \/ Restart

Spec == Init /\ [][Next]_vars

\* The runtime and worker tasks go on, the HAL's downloads end (their
\* requests have timeouts), and the web server finishes what it began
FairSpec ==
    /\ Spec
    /\ \A k \in Kinds : WF_vars(WorkerStep(k)) /\ WF_vars(ApplyStatus(k))
    /\ WF_vars(ReadOtherBusy \/ ReadOtherPending \/ Refuse \/ Accept
                  \/ NoteQueued \/ PublishQueued)

-----------------------------------------------------------------------------
(* Properties *)

Queues == UNION {[1..n -> [id : Requests, value : BOOLEAN]] : n \in 0..Capacity}
StatusQueues ==
    UNION {[1..n -> [id : Requests, value : {"queued", "working", "ready"}]] :
              n \in 0..Capacity}
MaybeRequest == Requests \union {NoRequest}

\* The type invariant; the queues of the store keep to their capacity
TypeOK ==
    /\ slot \in [Kinds -> MaybeRequest]
    /\ pending \in [Kinds -> BOOLEAN]
    /\ busy \in [Kinds -> BOOLEAN]
    /\ mailbox \in [Kinds -> [kind : {"none", "queued", "started", "progress",
                                       "finished", "reboot"},
                               id : MaybeRequest, ok : BOOLEAN]]
    /\ snapshot \in [Kinds -> [id : MaybeRequest, busy : BOOLEAN,
                                stage : {"idle", "queued", "working", "done",
                                         "failed", "reboot"}]]
    /\ store \in [Kinds -> [results : Queues, statuses : StatusQueues]]
    /\ at \in [Kinds -> Nat \ {0}] /\ \A k \in Kinds : at[k] <= Len(Program[k])
    /\ job \in [Kinds -> MaybeRequest]
    /\ ok \in [Kinds -> BOOLEAN]
    /\ web \in [pc : {"idle", "otherBusy", "otherPending", "enqueue", "note",
                      "publish"}, kind : Kinds, id : MaybeRequest]
    /\ nextId \in 1..MaxRequests + 1
    /\ mqtt \in {"started", "stopped", "released"}
    /\ paused \in BOOLEAN
    /\ mqttFailed \in BOOLEAN
    /\ rebootDue \in BOOLEAN
    /\ accepted \in [Kinds -> SUBSET Requests]
    /\ succeeded \in [Kinds -> SUBSET Requests]

\* Worker k has popped a request and is not free again
Running(k) == Step(k) \notin {"pop"} /\ \A i \in 1..at[k] - 1 : Program[k][i] # "free"

Phase(k, r) ==
    IF r = slot[k] THEN "queued"
    ELSE IF Running(k) /\ r = job[k] THEN "running"
    ELSE IF r \in accepted[k] THEN "ended"
    ELSE "new"

Phases(k) == [r \in Requests |-> Phase(k, r)]

OtaQueue == INSTANCE UpdateQueue WITH phase <- Phases("ota")
RcpQueue == INSTANCE UpdateQueue WITH phase <- Phases("rcp")

\* Each manager implements UpdateQueue, although it admits requests under a
\* lock that does not protect its busy_ flag
ImplementsQueues == OtaQueue!Spec /\ RcpQueue!Spec

\* Requests of both kinds never wait at the same time
NeverBothWait == slot["ota"] = NoRequest \/ slot["rcp"] = NoRequest

\* A client that is told its result is ready finds it, and a result tells
\* how its own request ended; both queues drop entries when they are full
ReadyHasResult ==
    \A k \in Kinds :
        LET box == store[k] IN
        /\ \A i \in DOMAIN box.statuses :
              box.statuses[i].value = "ready" =>
                  box.statuses[i].id \in Ids(box.results)
        /\ \A i \in DOMAIN box.results :
              /\ Phase(k, box.results[i].id) = "ended"
              /\ box.results[i].value = (box.results[i].id \in succeeded[k])

\* From the moment it has been noted until its result is there, a client
\* that polls for an accepted request is told that it is on its way
AcceptedIsVisible ==
    \A k \in Kinds, r \in Requests :
        /\ \/ r = slot[k]
           \/ r = job[k] /\ (Running(k) \/ Step(k) \in {"finished", "result"})
        /\ web.id # r \/ web.pc # "note"
        => PollStatus(store[k], r) # "notready"

\* Nothing is left to do for kind k
Quiet(k) ==
    /\ slot[k] = NoRequest
    /\ Step(k) = "pop"
    /\ mailbox[k].kind = "none"
    /\ web.kind # k \/ web.pc \notin {"note", "publish"}
    /\ accepted[k] # {}

LastAccepted(k) ==
    CHOOSE r \in accepted[k] : \A other \in accepted[k] : other <= r

\* When all is quiet, what the API shows is how the last request ended.
\* Updates overwrite each other in a mailbox of one place.
Settled(k) ==
    Quiet(k) =>
        /\ snapshot[k].id = LastAccepted(k)
        /\ ~snapshot[k].busy
        /\ snapshot[k].stage \in
               IF LastAccepted(k) \in succeeded[k] THEN {"done", "reboot"}
                                                  ELSE {"failed"}

RcpSettles == Settled("rcp")

\* Whatever order the web server, a worker and the runtime task come in, clients that
\* poll are told of their request while it lasts and of its own result afterwards, and
\* the snapshot shows how the last update of the RCP ended
ClientsAreTold == TypeOK /\ ReadyHasResult /\ AcceptedIsVisible /\ RcpSettles

\* MQTT stops for a transfer, and stays stopped only after an update that
\* succeeded, for which a restart is due, or after a failure of the HAL
MqttComesBack ==
    mqtt # "started" =>
        \/ Step("ota") \in {"transfer", "resume"}
        \/ succeeded["ota"] # {}
        \/ mqttFailed

\* An accepted request gets its result, unless a restart comes first
AcceptedEnds ==
    \A k \in Kinds : \A r \in Requests :
        r = slot[k] ~> (r \in Ids(store[k].results) \/ rebootDue \/ r \notin accepted[k])

-----------------------------------------------------------------------------
(* Claims of the documents and tests that do not hold *)

\* The two kinds of update never run at once
NeverBothRun == ~(Running("ota") /\ Running("rcp"))

\* After an update of the gateway, the API does not show it as busy
OtaSettles == Settled("ota")

=============================================================================
