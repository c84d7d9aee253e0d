-------------------------- MODULE CommandLifecycle --------------------------
(***************************************************************************)
(* The life of a command, from the request a protocol task posts to the    *)
(* completion event the runtime task reduces:                              *)
(* service::CommandManager, core::CoreCommandDispatcher, the event queue   *)
(* of ServiceRuntime, and the parts of process_pending(), tick() and       *)
(* execute_effects() that move commands.                                   *)
(*                                                                         *)
(* The protocol tasks (httpd, MQTT, Matter) and the HAL callbacks run      *)
(* between any two steps of the runtime task; each queue is behind a lock, *)
(* so that one step is one critical section and the work around it that    *)
(* touches only the runtime task's own data.                               *)
(***************************************************************************)
EXTENDS Integers, Sequences, FiniteSets

CONSTANTS
    Commands,        \* the requests that may be posted, each once
    Correlation,     \* Correlation[c]: the correlation id its poster gave c
    Power,           \* the commands sent to a device; the others refresh the
                     \* network, and the HAL never answers those
    MaxRetries,      \* ConfigManager::max_command_retries()
    MaxPending,      \* CoreCommandDispatcher::kMaxPending
    IngressCapacity, \* kCommandIngressQueueCapacity
    ResultCapacity,  \* kCommandResultQueueCapacity
    EventCapacity,   \* kEventQueueCapacity
    EventsPerCycle,  \* kMaxProcessedEventsPerCycle
    Timeout,         \* ConfigManager::command_timeout_ms()
    TimeRange,       \* the millisecond clock counts modulo this: 2^32
    MaxLag,          \* bound: the clock is never further ahead of the runtime
                     \* task's reading of it
    MaxOther         \* bound: events of other kinds in the queue at a time

ASSUME CommandsAssumption ==
    IsFiniteSet(Commands) /\ Power \subseteq Commands
ASSUME SizesAssumption ==
    {MaxRetries, MaxPending, IngressCapacity, ResultCapacity, EventCapacity,
     EventsPerCycle, Timeout, TimeRange, MaxLag, MaxOther} \subseteq Nat
ASSUME TimeAssumption == Timeout > 0 /\ MaxLag > 0 /\ TimeRange > MaxLag

VARIABLES
    clock,     \* esp_timer_get_time() in milliseconds
    loopNow,   \* now_ms of runtime_task_entry: the clock when the loop began
    pc,        \* where the runtime task is in its loop
    processed, \* the events processed in this call of process_pending
    progress,  \* made_progress
    ingress,   \* command_request_queue_
    results,   \* command_result_queue_: the commands whose sending is answered
    events,    \* event_queue_
    pending,   \* CoreCommandDispatcher::pending_
    tracked,   \* tracked_commands_
    expired,   \* the commands of timeout_events that are not handled yet
    air,       \* air[c]: sendings of c the HAL has neither answered nor lost
    fate,      \* history: what became of the request to post c
    attempts,  \* history: how often c was handed to the HAL
    completed  \* history: how often a completion of c was reduced

loopVars  == <<loopNow, pc, processed, progress>>
queueVars == <<ingress, results, events>>
tableVars == <<pending, tracked, expired>>
pastVars  == <<fate, attempts, completed>>
vars == <<clock, loopVars, queueVars, tableVars, air, pastVars>>

-----------------------------------------------------------------------------

\* Events carry the command they are about; "by" is the command that was
\* answered, of which the code sees only the correlation id.
Request(c)     == [kind |-> "request", cmd |-> c, by |-> c]
Answered(c, a) == [kind |-> "answered", cmd |-> c, by |-> a]
TimedOut(c)    == [kind |-> "timeout", cmd |-> c, by |-> c]
OtherEvent     == [kind |-> "other"]

Room == Len(events) < EventCapacity

\* Variant for the runs' mutants: an event overtakes those before it.
PushedAtFront(e) == IF Room THEN <<e>> \o events ELSE events

\* push_event: an event that finds the queue full is dropped.
Pushed(e) == IF Room THEN Append(events, e) ELSE events

SameId(c, d) == Correlation[c] = Correlation[d]

\* The dispatcher's entries and the tracked entries of c's correlation id.
PendingOf(c) == {p \in pending : SameId(p.cmd, c)}
TrackedOf(c) == {t \in tracked : SameId(t.cmd, c)}

\* CoreCommandDispatcher::submit returns kOk.
Admits(c) == Cardinality(pending) < MaxPending /\ PendingOf(c) = {}

\* The subtraction of two uint32_t times.
Since(now, then) == (now - then) % TimeRange

Init ==
    /\ clock = 0
    /\ loopNow = 0 /\ pc = "sleep" /\ processed = 0 /\ progress = FALSE
    /\ ingress = <<>> /\ results = <<>> /\ events = <<>>
    /\ pending = {} /\ tracked = {} /\ expired = {}
    /\ air = [c \in Commands |-> 0]
    /\ fate = [c \in Commands |-> "new"]
    /\ attempts = [c \in Commands |-> 0]
    /\ completed = [c \in Commands |-> 0]

-----------------------------------------------------------------------------
(* The other tasks, the HAL and the clock.                                 *)

PostAccepted(c) ==
    /\ fate[c] = "new"
    /\ Len(ingress) < IngressCapacity
    /\ ingress' = Append(ingress, [cmd |-> c, issued |-> clock])
    /\ fate' = [fate EXCEPT ![c] = "accepted"]
    /\ UNCHANGED <<clock, loopVars, results, events, tableVars, air,
                   attempts, completed>>

PostRefused(c) ==
    /\ fate[c] = "new"
    /\ Len(ingress) >= IngressCapacity
    /\ fate' = [fate EXCEPT ![c] = "refused"]
    /\ UNCHANGED <<clock, loopVars, queueVars, tableVars, air,
                   attempts, completed>>

\* The HAL reports the result of a sending of c, late or not, at most once
\* for each; a result that finds its queue full is dropped.
Reply(c) ==
    /\ air[c] > 0
    /\ air' = [air EXCEPT ![c] = @ - 1]
    /\ results' = IF Len(results) < ResultCapacity
                  THEN Append(results, c) ELSE results
    /\ UNCHANGED <<clock, loopVars, ingress, events, tableVars, pastVars>>

\* Any other task pushes an event of another kind.
PushOther ==
    /\ Cardinality({i \in DOMAIN events : events[i] = OtherEvent}) < MaxOther
    /\ events' = Pushed(OtherEvent)
    /\ UNCHANGED <<clock, loopVars, ingress, results, tableVars, air, pastVars>>

Advance ==
    /\ Since(clock, loopNow) < MaxLag
    /\ clock' = (clock + 1) % TimeRange
    /\ UNCHANGED <<loopVars, queueVars, tableVars, air, pastVars>>

-----------------------------------------------------------------------------
(* process_pending, by the runtime task.                                   *)

BeginLoop ==
    /\ pc = "sleep"
    /\ loopNow' = clock
    /\ processed' = 0
    /\ progress' = FALSE
    /\ pc' = IF EventsPerCycle > 0 THEN "requests" ELSE "tick"
    /\ UNCHANGED <<clock, queueVars, tableVars, air, pastVars>>

\* submit_command_internal of a request the dispatcher admits: it is tracked
\* with all its retries, and its event is pushed if the queue has room.
AdmitRequest ==
    /\ pc = "requests" /\ ingress # <<>>
    /\ LET r == Head(ingress)
           c == r.cmd
           tracks == TrackedOf(c) # {} \/ Cardinality(tracked) < MaxPending
       IN /\ Admits(c)
          /\ pending' = pending \cup {r}
          /\ tracked' = IF tracks
                        THEN (tracked \ TrackedOf(c))
                               \cup {[cmd |-> c, retries |-> MaxRetries]}
                        ELSE tracked
          /\ events' = IF tracks THEN Pushed(Request(c)) ELSE events
    /\ ingress' = Tail(ingress)
    /\ progress' = TRUE
    /\ UNCHANGED <<clock, loopNow, pc, processed, results, expired, air,
                   pastVars>>

\* The dispatcher is full, or busy with the same correlation id: a request
\* that was accepted is dropped, and only a counter tells.
DropRequest ==
    /\ pc = "requests" /\ ingress # <<>>
    /\ ~ Admits(Head(ingress).cmd)
    /\ ingress' = Tail(ingress)
    /\ fate' = [fate EXCEPT ![Head(ingress).cmd] = "dropped"]
    /\ progress' = TRUE
    /\ UNCHANGED <<clock, loopNow, pc, processed, results, events, tableVars,
                   air, attempts, completed>>

RequestsDone ==
    /\ pc = "requests" /\ ingress = <<>>
    /\ pc' = "results"
    /\ UNCHANGED <<clock, loopNow, processed, progress, queueVars, tableVars,
                   air, pastVars>>

\* What is still to be pushed about c is lost with a full queue.
DroppedUnlessRoom(c) ==
    fate' = IF Room THEN fate ELSE [fate EXCEPT ![c] = "dropped"]

\* Variant for the runs' mutants: the tracked entry is not released.
ResolveKeepsTracked ==
    /\ pc = "results" /\ results # <<>>
    /\ \E p \in PendingOf(Head(results)) :
         /\ pending' = pending \ {p}
         /\ tracked' = tracked
         /\ events' = Pushed(Answered(p.cmd, Head(results)))
         /\ DroppedUnlessRoom(p.cmd)
    /\ results' = Tail(results)
    /\ progress' = TRUE
    /\ UNCHANGED <<clock, loopNow, pc, processed, ingress, expired, air,
                   attempts, completed>>

\* resolve_command_result of a result whose correlation id is pending.
ResolveResult ==
    /\ pc = "results" /\ results # <<>>
    /\ \E p \in PendingOf(Head(results)) :
         /\ pending' = pending \ {p}
         /\ tracked' = tracked \ TrackedOf(p.cmd)
         /\ events' = Pushed(Answered(p.cmd, Head(results)))
         /\ DroppedUnlessRoom(p.cmd)
    /\ results' = Tail(results)
    /\ progress' = TRUE
    /\ UNCHANGED <<clock, loopNow, pc, processed, ingress, expired, air,
                   attempts, completed>>

\* A result nobody waits for any more.
IgnoreResult ==
    /\ pc = "results" /\ results # <<>>
    /\ PendingOf(Head(results)) = {}
    /\ results' = Tail(results)
    /\ progress' = TRUE
    /\ UNCHANGED <<clock, loopNow, pc, processed, ingress, events, tableVars,
                   air, pastVars>>

ResultsDone ==
    /\ pc = "results" /\ results = <<>>
    /\ pc' = "event"
    /\ UNCHANGED <<clock, loopNow, processed, progress, queueVars, tableVars,
                   air, pastVars>>

\* pop_event, and the guard of the loop when the event has been processed.
PopEvent(kinds) ==
    /\ pc = "event" /\ events # <<>>
    /\ Head(events).kind \in kinds
    /\ events' = Tail(events)
    /\ processed' = processed + 1
    /\ progress' = FALSE
    /\ pc' = IF processed + 1 < EventsPerCycle THEN "requests" ELSE "tick"
    /\ UNCHANGED <<clock, loopNow, ingress, results, tableVars, fate>>

\* The effect of a request: the command goes on the air, unless the HAL
\* refuses it (which only a counter tells) or it is a network refresh.
SendCommand ==
    /\ PopEvent({"request"})
    /\ LET c == Head(events).cmd
       IN /\ attempts' = [attempts EXCEPT ![c] = @ + 1]
          /\ \/ air' = air
             \/ c \in Power /\ air' = [air EXCEPT ![c] = @ + 1]
    /\ UNCHANGED completed

CompleteCommand ==
    /\ PopEvent({"answered", "timeout"})
    /\ completed' = [completed EXCEPT ![Head(events).cmd] = @ + 1]
    /\ UNCHANGED <<air, attempts>>

ProcessOther ==
    /\ PopEvent({"other"})
    /\ UNCHANGED <<air, attempts, completed>>

\* Variant for the runs' mutants: made_progress outlives its round.
NoEventKeepsProgress ==
    /\ pc = "event" /\ events = <<>>
    /\ pc' = IF progress THEN "requests" ELSE "tick"
    /\ UNCHANGED <<clock, loopNow, processed, progress, queueVars, tableVars,
                   air, pastVars>>

\* No event: once more round the loop if this round drained something.
NoEvent ==
    /\ pc = "event" /\ events = <<>>
    /\ pc' = IF progress THEN "requests" ELSE "tick"
    /\ progress' = FALSE
    /\ UNCHANGED <<clock, loopNow, processed, queueVars, tableVars, air,
                   pastVars>>

-----------------------------------------------------------------------------
(* tick and CommandManager::process_timeouts, by the runtime task.         *)

\* Variant for the runs' mutants: the deadline is computed, not the age.
OverdueUnwrapped(p) == loopNow >= p.issued + Timeout

Overdue(p) == Since(loopNow, p.issued) >= Timeout

ExpireTimeouts ==
    /\ pc = "tick"
    /\ expired' = {p.cmd : p \in {q \in pending : Overdue(q)}}
    /\ pending' = {p \in pending : ~ Overdue(p)}
    /\ pc' = "timeouts"
    /\ UNCHANGED <<clock, loopNow, processed, progress, queueVars, tracked,
                   air, pastVars>>

\* Variant for the runs' mutants: a retry that finds the queue full is taken
\* back from the dispatcher and nothing else is done about it.
RetryForgets(c) ==
    \E t \in TrackedOf(c) :
      /\ t.retries > 0
      /\ Admits(c)
      /\ pending' = IF Room THEN pending \cup {[cmd |-> t.cmd, issued |-> loopNow]}
                            ELSE pending
      /\ tracked' = (tracked \ {t})
           \cup IF Room THEN {[t EXCEPT !.retries = @ - 1]} ELSE {}
      /\ events' = Pushed(Request(t.cmd))
      /\ UNCHANGED fate

\* A tracked command with retries left, re-submitted as of now_ms.  When its
\* event finds the queue full, the code goes on to release the tracked entry
\* and to push the timeout event, which finds the queue as full; the
\* dispatcher keeps the entry.
Retry(c) ==
    \E t \in TrackedOf(c) :
      /\ t.retries > 0
      /\ Admits(c)
      /\ pending' = pending \cup {[cmd |-> t.cmd, issued |-> loopNow]}
      /\ tracked' = (tracked \ {t})
           \cup IF Room THEN {[t EXCEPT !.retries = @ - 1]} ELSE {}
      /\ events' = Pushed(Request(t.cmd))
      /\ UNCHANGED fate

GiveUp(c) ==
    /\ \A t \in TrackedOf(c) : t.retries = 0 \/ ~ Admits(c)
    /\ tracked' = tracked \ TrackedOf(c)
    /\ events' = Pushed(TimedOut(c))
    /\ DroppedUnlessRoom(c)
    /\ UNCHANGED pending

HandleTimeout(c) ==
    /\ pc = "timeouts" /\ c \in expired
    /\ Retry(c) \/ GiveUp(c)
    /\ expired' = expired \ {c}
    /\ UNCHANGED <<clock, loopVars, ingress, results, air, attempts, completed>>

EndLoop ==
    /\ pc = "timeouts" /\ expired = {}
    /\ pc' = "sleep"
    /\ UNCHANGED <<clock, loopNow, processed, progress, queueVars, tableVars,
                   air, pastVars>>

-----------------------------------------------------------------------------

RuntimeTask ==
    \/ BeginLoop
    \/ AdmitRequest \/ DropRequest \/ RequestsDone
    \/ ResolveResult \/ IgnoreResult \/ ResultsDone
    \/ SendCommand \/ CompleteCommand \/ ProcessOther \/ NoEvent
    \/ ExpireTimeouts \/ (\E c \in Commands : HandleTimeout(c)) \/ EndLoop

Environment ==
    \/ \E c \in Commands : PostAccepted(c) \/ PostRefused(c) \/ Reply(c)
    \/ PushOther \/ Advance

Next == RuntimeTask \/ Environment

Spec == Init /\ [][Next]_vars

\* The scheduler runs the runtime task, which has the highest priority of the
\* gateway's own tasks, and time passes.  Nobody has to post or to answer.
FairSpec == Spec /\ WF_vars(RuntimeTask) /\ WF_vars(Advance)
-----------------------------------------------------------------------------
(* Correctness.                                                            *)

Times == 0 .. (TimeRange - 1)

LoopTypes ==
    /\ {clock, loopNow} \subseteq Times
    /\ pc \in {"sleep", "requests", "results", "event", "tick", "timeouts"}
    /\ processed \in Nat
    /\ progress \in BOOLEAN

QueueTypes ==
    /\ ingress \in Seq([cmd : Commands, issued : Times])
    /\ Len(ingress) <= IngressCapacity
    /\ results \in Seq(Commands)
    /\ Len(results) <= ResultCapacity
    /\ events \in Seq([kind : {"request", "answered", "timeout"},
                       cmd : Commands, by : Commands] \cup {OtherEvent})
    /\ Len(events) <= EventCapacity

TableTypes ==
    /\ pending \subseteq [cmd : Commands, issued : Times]
    /\ Cardinality(pending) <= MaxPending
    /\ tracked \subseteq [cmd : Commands, retries : 0 .. MaxRetries]
    /\ Cardinality(tracked) <= MaxPending
    /\ expired \subseteq Commands

PastTypes ==
    /\ air \in [Commands -> Nat]
    /\ fate \in [Commands -> {"new", "refused", "accepted", "dropped"}]
    /\ attempts \in [Commands -> Nat]
    /\ completed \in [Commands -> Nat]

\* Every variable has its type, and no queue or table exceeds its capacity.
TypeOK == LoopTypes /\ QueueTypes /\ TableTypes /\ PastTypes

Queued(c)     == {i \in DOMAIN ingress : ingress[i].cmd = c}
Completing(c) == {i \in DOMAIN events :
                    /\ events[i].kind \in {"answered", "timeout"}
                    /\ events[i].cmd = c}
IsPending(c)  == \E p \in pending : p.cmd = c

StageNames == {"queued", "pending", "expired", "completing", "completed"}

\* Where an accepted command is on its way.
Stages(c) ==
    {s \in StageNames :
       \/ s = "queued"     /\ Queued(c) # {}
       \/ s = "pending"    /\ IsPending(c)
       \/ s = "expired"    /\ c \in expired
       \/ s = "completing" /\ Completing(c) # {}
       \/ s = "completed"  /\ completed[c] > 0}

\* An accepted command is at exactly one stage and a dropped one at none,
\* whatever answers, retries and full queues it meets: no path forgets a
\* command silently and none takes it up twice.
OneStage ==
    \A c \in Commands :
      IF fate[c] = "accepted" THEN \E s \in StageNames : Stages(c) = {s}
                              ELSE Stages(c) = {}

\* No command is completed twice, neither by two answers to its sendings nor
\* by an answer and a timeout, counting completions still in the event queue.
AtMostOneCompletion ==
    \A c \in Commands : Cardinality(Completing(c)) + completed[c] <= 1

\* A tracked entry is released with the dispatcher's: there is one to take
\* whenever the dispatcher admits a request.
TrackedIsPending ==
    \A t \in tracked : IsPending(t.cmd) \/ t.cmd \in expired

\* The dispatcher, the tracked commands and the completions under way agree.
TablesAgree == TypeOK /\ TrackedIsPending /\ AtMostOneCompletion

\* A device never gets a command more often than the retries allow.
AttemptsBounded == \A c \in Commands : attempts[c] <= MaxRetries + 1

\* Once a completion has been reduced, the device is not sent the command
\* again by a retry that was already under way.
NoSendAfterCompletion ==
    [][\A c \in Commands : completed[c] > 0 => attempts'[c] = attempts[c]]_vars

\* While no queue overflows, a timeout is reported only when the command and
\* each of its retries have been handed to the HAL.
GivesUpAfterLastRetry ==
    \A i \in DOMAIN events :
      i = 1 /\ events[i].kind = "timeout"
        => attempts[events[i].cmd] = MaxRetries + 1

\* However the clock wraps, a pending command is noticed within one lag of
\* its timeout, and the age that wraps is never taken for a young one.
PendingIsYoung ==
    \A p \in pending : Since(clock, p.issued) < Timeout + 2 * MaxLag

\* Retries keep to their number and to their times.
RetriesKeepLimits == AttemptsBounded /\ PendingIsYoung

\* The answer that completes a command is an answer to that command.
AnswerIsItsOwn ==
    \A i \in DOMAIN events :
      events[i].kind = "answered" => events[i].by = events[i].cmd

\* A command does not expire before its timeout has passed since it was
\* issued (test/host/test_core_effects.cpp:68).
NeverExpiresEarly ==
    [][\A p \in pending :
         pc = "tick" /\ p \notin pending' => Since(clock, p.issued) >= Timeout]_vars

\* Every accepted command is completed, if only by a timeout, while the event
\* queue and the dispatcher have room for all.
AcceptedCompletes ==
    \A c \in Commands : fate[c] = "accepted" ~> completed[c] = 1

\* Every accepted command is completed or known to be dropped.
AcceptedEnds ==
    \A c \in Commands :
      fate[c] = "accepted" ~> completed[c] = 1 \/ fate[c] = "dropped"

=============================================================================
