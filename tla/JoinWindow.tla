----------------------------- MODULE JoinWindow -----------------------------
(***************************************************************************)
(* The Zigbee network and its join window: what the stack does on the air, *)
(* what the adapter (hal_zigbee.c) believes of it, and the policy that     *)
(* forms the network, opens the window and closes it again                 *)
(* (NetworkPolicyManager, ZigbeeLifecycleCoordinator, ConnectivityManager).*)
(*                                                                         *)
(* Two tasks run it.  The stack's task delivers the stack's signals and    *)
(* its alarm, holding the stack's lock; the runtime task calls the stack   *)
(* under that lock and notes the outcome after it has released it.  The    *)
(* policy's fields are written by both and guarded by nothing.             *)
(*                                                                         *)
(* Time is what remains of every deadline; a unit is of a minute's order.  *)
(***************************************************************************)
EXTENDS Naturals, Integers, Sequences, FiniteSets

CONSTANTS
    Durations,     \* what a user may ask for
    RejoinWindow,  \* kAutoRejoinWindowSeconds
    LongWindow,    \* the policy closes an implicit window longer than this
    StackWindow,   \* ESP_ZB_BDB_MIN_COMMISSIONING_TIME, the stack's own window
    RetryDelay,    \* kZigbeeFormationRetryMs
    Cooldown,      \* kAutoRejoinCooldownMs
    SignalBound,   \* bounds of the model: signals that wait,
    MaxInputs,     \* what users and devices do, and
    MaxFaults      \* the calls and starts that fail

ASSUME WindowDurations ==
    /\ Durations \subseteq Nat \ {0} /\ IsFiniteSet(Durations)
    /\ {RejoinWindow, StackWindow} \subseteq Nat \ {0}
    /\ {LongWindow, RetryDelay, Cooldown, MaxInputs, MaxFaults} \subseteq Nat
ASSUME WindowSignals == SignalBound \in Nat \ {0, 1}

VARIABLES
    net,         \* the stack: whether it has a network,
    air,         \* how long it still lets devices join,
    opener,      \* who has it do so, and what became of it,
    signals,     \* what it has still to tell, and
    alarms,      \* the close alarms in its scheduler
    stack,       \* the adapter's task, and s_stack_started
    formed,      \* s_network_formed
    permit,      \* s_permit_join_open with its deadline
    explicit,    \* s_explicit_permit_join_deadline_us
    scheduled,   \* s_implicit_permit_join_close_scheduled
    begun,       \* zigbee_started_ of the ConnectivityManager
    expected,    \* join_window_explicit_expected_
    pending,     \* pending_join_window_seconds_
    retry,       \* what remains to zigbee_next_formation_retry_ms_
    cooldown,    \* what remains to auto_rejoin_next_open_ms_
    cache,       \* the coordinator's join window cache
    task,        \* where the runtime task is
    closing,     \* the stack's task closes the window after a join
    inputs, faults \* what may still happen

stackVars == <<net, air, opener, signals, alarms>>
halVars == <<stack, formed, permit, explicit, scheduled>>
policyVars == <<begun, expected, pending, retry, cooldown, cache>>
budget == <<inputs, faults>>
vars == <<stackVars, halVars, policyVars, task, closing, budget>>

NoDeadline == -1
Shut == [open |-> FALSE, left |-> NoDeadline]
Open(left) == [open |-> TRUE, left |-> left]
Idle == [pc |-> "idle", for |-> "none", secs |-> 0]

Permit(secs) == [type |-> "permit", secs |-> secs]
Signal(type) == [type |-> type, secs |-> 0]

Init ==
    /\ net \in {"none", "formed"} /\ air = 0 /\ opener = "none"
    /\ signals = <<>> /\ alarms = 0
    /\ stack = "none" /\ formed = FALSE
    /\ permit = Shut /\ explicit = NoDeadline /\ scheduled = FALSE
    /\ begun = FALSE /\ expected = FALSE /\ pending = 0
    /\ retry = 0 /\ cooldown = 0 /\ cache = Shut
    /\ task = Idle /\ closing = FALSE
    /\ inputs = MaxInputs /\ faults = MaxFaults

\* Something that the bound counts happens
Spend  == inputs > 0 /\ inputs' = inputs - 1 /\ UNCHANGED faults
Failed == faults > 0 /\ faults' = faults - 1 /\ UNCHANGED inputs

Room == Len(signals) < SignalBound
Tell(s) == Room /\ signals' = Append(signals, s)

-----------------------------------------------------------------------------
(* The stack, as the adapter's use of it shows it *)

\* The request to form a network is answered
Forms(ok) ==
    /\ net = "forming"
    /\ net' = IF ok THEN "formed" ELSE "none"
    /\ Tell(Signal(IF ok THEN "formation" ELSE "formation_failed"))
    /\ IF ok THEN UNCHANGED budget ELSE Failed
    /\ UNCHANGED <<air, opener, alarms, halVars, policyVars, task, closing>>

\* A device is authorized: the stack opens its own window after it
Authorizes ==
    /\ Spend
    /\ stack = "running" /\ net = "formed"
    /\ air' = StackWindow
    /\ opener' = IF task.pc = "opened" THEN "crossed" ELSE "stack"
    /\ Tell(Permit(StackWindow))
    /\ UNCHANGED <<net, alarms, halVars, policyVars, task, closing>>

\* A device joins while it may
Joins ==
    /\ Spend
    /\ air > 0
    /\ Tell(Signal("join"))
    /\ UNCHANGED <<net, air, opener, alarms, halVars, policyVars, task, closing>>

Less(d) == IF d > 0 THEN d - 1 ELSE d

\* Time passes, too slowly to be seen inside of a call or by a signal that waits:
\* the stack tells when its window has run out
Tick ==
    /\ task = Idle /\ ~ closing /\ signals = <<>>
    /\ air > 0 \/ permit.left > 0 \/ explicit > 0 \/ retry > 0 \/ cooldown > 0
    /\ air' = Less(air)
    /\ opener' = IF air = 1 THEN "none" ELSE opener
    /\ IF air = 1 THEN Tell(Permit(0)) ELSE UNCHANGED signals
    /\ permit' = [permit EXCEPT !.left = Less(@)]
    /\ explicit' = Less(explicit)
    /\ retry' = Less(retry) /\ cooldown' = Less(cooldown)
    /\ UNCHANGED <<net, alarms, stack, formed, scheduled, begun, expected, pending,
                   cache, task, closing, budget>>

\* esp_zb_bdb_open_network
AirOpen(secs) ==
    /\ air' = secs /\ opener' = "user"
    /\ Tell(Permit(secs))
    /\ UNCHANGED <<net, alarms>>

\* esp_zb_bdb_close_network
AirClose ==
    /\ air' = 0 /\ opener' = "none"
    /\ Tell(Permit(0))
    /\ UNCHANGED net

-----------------------------------------------------------------------------
(* The stack's task: its start and the signals it handles *)

\* zigbee_stack_task, start_zigbee_stack_if_needed: when the start fails, the
\* task ends and nobody starts it again
StackStarts(ok) ==
    /\ stack = "starting"
    /\ stack' = IF ok THEN "running" ELSE "dead"
    /\ IF ok THEN Tell(Signal("skip_startup")) /\ UNCHANGED budget
             ELSE UNCHANGED signals /\ Failed
    /\ UNCHANGED <<net, air, opener, alarms, formed, permit, explicit, scheduled,
                   policyVars, task, closing>>

Handles(type) ==
    /\ stack = "running" /\ ~ closing
    /\ signals # <<>> /\ Head(signals).type = type

Handled == signals' = Tail(signals)

\* SKIP_STARTUP: the stack initializes itself, and tells when it has
HandleSkipStartup(ok) ==
    /\ Handles("skip_startup")
    /\ signals' = IF ok THEN Append(Tail(signals), Signal("up")) ELSE Tail(signals)
    /\ IF ok THEN UNCHANGED budget ELSE Failed
    /\ UNCHANGED <<net, air, opener, alarms, halVars, policyVars, task, closing>>

\* DEVICE_FIRST_START, DEVICE_REBOOT: a stack that is not factory-new has its
\* network back
HandleUp ==
    /\ Handles("up")
    /\ Handled
    /\ formed' = (net = "formed")
    /\ UNCHANGED <<net, air, opener, alarms, stack, permit, explicit, scheduled,
                   policyVars, task, closing, budget>>

\* FORMATION; that it crosses the runtime's next request, which takes the stack
\* seconds, counts as a fault
HandleFormation ==
    /\ \/ Handles("formation") /\ formed' = TRUE
       \/ Handles("formation_failed") /\ formed' = FALSE
    /\ Handled
    /\ IF task.pc \in {"form", "formed"} THEN Failed ELSE UNCHANGED budget
    /\ UNCHANGED <<net, air, opener, alarms, stack, permit, explicit, scheduled,
                   policyVars, task, closing>>

\* should_suppress_implicit_permit_join: what nobody has asked for
Implicit(secs) == secs >= StackWindow /\ explicit \in {NoDeadline, 0}

\* set_join_window_state
WindowState(open, secs) ==
    permit' = IF open /\ secs > 0 THEN Open(secs)
              ELSE IF open THEN Open(NoDeadline) ELSE Shut

\* set_explicit_join_window_expectation
Expectation(open, secs) ==
    /\ explicit' = IF open /\ secs > 0 THEN secs ELSE NoDeadline
    /\ scheduled' = (scheduled /\ open /\ secs > 0)

\* schedule_implicit_permit_join_close
ScheduleClose ==
    /\ scheduled' = TRUE
    /\ alarms' = IF scheduled THEN alarms ELSE alarms + 1

\* NWK_SIGNAL_PERMIT_JOIN_STATUS
HandlePermit ==
    /\ Handles("permit")
    /\ Handled
    /\ LET secs == Head(signals).secs IN
       IF secs = 0
       THEN WindowState(FALSE, 0) /\ Expectation(FALSE, 0) /\ UNCHANGED alarms
       ELSE IF Implicit(secs)
       THEN /\ WindowState(FALSE, 0)
            /\ explicit' = NoDeadline
            /\ ScheduleClose
       ELSE /\ WindowState(TRUE, secs)
            /\ UNCHANGED <<explicit, scheduled, alarms>>
    /\ UNCHANGED <<net, air, opener, stack, formed, policyVars, task, closing, budget>>

\* Variant for the runs' mutants: the alarm leaves its mark
AlarmRingsMarked(ok) ==
    /\ stack = "running" /\ ~ closing /\ alarms > 0
    /\ alarms' = alarms - 1
    /\ IF ok THEN AirClose /\ WindowState(FALSE, 0) /\ UNCHANGED budget
             ELSE opener' = "missed" /\ Failed /\ UNCHANGED <<net, air, signals, permit>>
    /\ UNCHANGED <<stack, formed, explicit, scheduled, policyVars, task, closing>>

\* close_implicit_permit_join_alarm
AlarmRings(ok) ==
    /\ stack = "running" /\ ~ closing /\ alarms > 0
    /\ alarms' = alarms - 1
    /\ scheduled' = FALSE
    /\ IF ok THEN AirClose /\ WindowState(FALSE, 0) /\ UNCHANGED budget
             ELSE opener' = "missed" /\ Failed /\ UNCHANGED <<net, air, signals, permit>>
    /\ UNCHANGED <<stack, formed, explicit, policyVars, task, closing>>

\* DEVICE_ANNCE and its like, handle_join_candidate: the first join closes the
\* window that the cache shows
HandleJoin(ok) ==
    /\ Handles("join")
    /\ IF ~ cache.open
       THEN /\ Handled /\ ok
            /\ UNCHANGED <<net, air, opener, alarms, permit, explicit, scheduled,
                           closing, budget>>
       ELSE IF ~ ok
       THEN /\ Handled /\ Failed
            /\ UNCHANGED <<net, air, opener, alarms, permit, explicit, scheduled, closing>>
       ELSE /\ air' = 0 /\ opener' = "none"
            /\ signals' = Append(Tail(signals), Permit(0))
            /\ WindowState(FALSE, 0) /\ Expectation(FALSE, 0)
            /\ closing' = TRUE
            /\ UNCHANGED <<net, alarms, budget>>
    /\ UNCHANGED <<stack, formed, policyVars, task>>

\* on_join_window_force_closed, called after the window has been closed
ForceClosed ==
    /\ closing
    /\ closing' = FALSE
    /\ expected' = FALSE /\ pending' = 0 /\ cache' = Shut
    /\ UNCHANGED <<stackVars, halVars, begun, retry, cooldown, task, budget>>

StackTask ==
    \/ \E ok \in BOOLEAN : StackStarts(ok) \/ HandleSkipStartup(ok) \/ AlarmRings(ok)
                           \/ HandleJoin(ok)
    \/ HandleUp \/ HandleFormation \/ HandlePermit \/ ForceClosed

-----------------------------------------------------------------------------
(* The runtime task: the start, requests and the policy of a tick *)

At(pc) == task.pc = pc
Go(pc) == task' = [task EXCEPT !.pc = pc]
Call(pc, for, secs) == task' = [pc |-> pc, for |-> for, secs |-> secs]

\* ensure_zigbee_started, hal_zigbee_init and the start of on_zigbee_started
EnsureStarted ==
    /\ At("idle") /\ ~ begun
    /\ begun' = TRUE
    /\ stack' = "starting" /\ formed' = FALSE /\ WindowState(FALSE, 0)
    /\ cache' = Shut
    /\ Call("started", "start", 0)
    /\ UNCHANGED <<stackVars, explicit, scheduled, expected, pending, retry, cooldown,
                   closing, budget>>

\* handle_open_join_window: the user asks for a window
Ask(secs) ==
    /\ At("idle") /\ begun
    /\ Spend
    /\ expected' = TRUE
    /\ Call("open", "request", secs)
    /\ UNCHANGED <<stackVars, halVars, begun, pending, retry, cooldown, cache, closing>>

\* maybe_request_auto_rejoin_window, after a command has failed
AutoRejoin ==
    /\ At("idle") /\ begun
    /\ Spend
    /\ cooldown = 0
    /\ IF cache.open /\ cache.left > 0
       THEN cooldown' = Cooldown /\ UNCHANGED <<expected, task>>
       ELSE /\ expected' = TRUE
            /\ Call("open", "rejoin", RejoinWindow)
            /\ UNCHANGED cooldown
    /\ UNCHANGED <<stackVars, halVars, begun, pending, retry, cache, closing>>

\* What a request that has been dealt with leaves of the cooldown
CooldownAfter(accepted) ==
    cooldown' = IF task.for = "rejoin" /\ accepted THEN Cooldown ELSE cooldown

\* hal_zigbee_open_network fails: the request is refused, the policy tries later
OpenFails ==
    IF task.for = "policy"
    THEN /\ retry' = RetryDelay
         /\ Go("status")
         /\ UNCHANGED <<expected, pending, cooldown>>
    ELSE /\ expected' = FALSE
         /\ task' = Idle
         /\ CooldownAfter(FALSE)
         /\ UNCHANGED <<pending, retry>>

OpenRefused ==
    /\ At("open")
    /\ \/ stack # "running" /\ UNCHANGED budget
       \/ stack = "running" /\ formed /\ Failed
    /\ OpenFails
    /\ UNCHANGED <<stackVars, halVars, begun, cache, closing>>

\* NETWORK_NOT_FORMED: the request waits for the network, and has it formed
OpenPostponed ==
    /\ At("open") /\ stack = "running" /\ ~ formed
    /\ IF task.for = "policy"
       THEN OpenFails
       ELSE /\ pending' = task.secs
            /\ Go("form")
            /\ UNCHANGED <<expected, retry, cooldown>>
    /\ UNCHANGED <<stackVars, halVars, begun, cache, closing, budget>>

OpenCalls ==
    /\ At("open") /\ stack = "running" /\ formed
    /\ AirOpen(task.secs)
    /\ Go("opened")
    /\ UNCHANGED <<halVars, policyVars, closing, budget>>

OpenSetsWindow ==
    /\ At("opened")
    /\ WindowState(TRUE, task.secs)
    /\ Go("expect")
    /\ UNCHANGED <<stackVars, stack, formed, explicit, scheduled, policyVars, closing, budget>>

OpenSetsExpectation ==
    /\ At("expect")
    /\ Expectation(TRUE, task.secs)
    /\ pending' = 0
    /\ IF task.for = "policy"
       THEN /\ expected' = TRUE /\ retry' = 0
            /\ Go("status")
            /\ UNCHANGED <<cache, cooldown>>
       ELSE /\ cache' = Open(task.secs)
            /\ CooldownAfter(TRUE)
            /\ task' = Idle
            /\ UNCHANGED <<expected, retry>>
    /\ UNCHANGED <<stackVars, stack, formed, permit, begun, closing, budget>>

\* Where a caller of hal_zigbee_start_network_formation goes on
AfterForm ==
    /\ retry' = RetryDelay
    /\ CooldownAfter(TRUE)
    /\ IF task.for = "policy" THEN Go("pending") ELSE task' = Idle

FormFails ==
    /\ At("form")
    /\ \/ stack # "running" /\ UNCHANGED budget
       \/ stack = "running" /\ Failed
    /\ AfterForm
    /\ UNCHANGED <<stackVars, halVars, begun, expected, pending, cache, closing>>

FormCalls ==
    /\ At("form") /\ stack = "running"
    /\ net' = "forming"
    /\ Go("formed")
    /\ UNCHANGED <<air, opener, signals, alarms, halVars, policyVars, closing, budget>>

\* The network counts as not formed only after the lock has been released
FormClears ==
    /\ At("formed")
    /\ formed' = FALSE
    /\ AfterForm
    /\ UNCHANGED <<stackVars, stack, permit, explicit, scheduled, begun, expected, pending,
                   cache, closing, budget>>

\* on_zigbee_started: a network that is not there yet is formed
StartLooks ==
    /\ At("started")
    /\ IF formed THEN retry' = 0 /\ task' = Idle ELSE Go("form") /\ UNCHANGED retry
    /\ UNCHANGED <<stackVars, halVars, begun, expected, pending, cooldown, cache, closing,
                   budget>>

\* Variant for the runs' mutants: formation is tried again only for a window
FormationDueForWindow == ~ formed /\ retry = 0 /\ pending > 0

FormationDue == ~ formed /\ retry = 0

\* process_zigbee_join_window_policy: formation first
PolicyForms ==
    /\ At("idle") /\ begun
    /\ IF FormationDue THEN Call("form", "policy", 0) ELSE Call("pending", "policy", 0)
    /\ UNCHANGED <<stackVars, halVars, policyVars, closing, budget>>

\* then the window that has been waiting for it
PolicyOpens ==
    /\ At("pending")
    /\ IF pending > 0 /\ formed THEN Call("open", "policy", pending) ELSE Go("status")
    /\ UNCHANGED <<stackVars, halVars, policyVars, closing, budget>>

\* What the policy makes of a window that is closed
SeesShut ==
    /\ cache' = Shut
    /\ expected' = (expected /\ pending > 0)
    /\ task' = Idle

Expired == permit.open /\ permit.left = 0

\* Variant for the runs' mutants: the policy does not show what it sees
PolicyLooksBlindly ==
    /\ At("status") /\ ~ Expired
    /\ expected' = IF permit.open THEN expected ELSE expected /\ pending > 0
    /\ IF /\ permit.open /\ ~ expected /\ pending = 0
          /\ permit.left > LongWindow
       THEN Go("close") ELSE task' = Idle
    /\ UNCHANGED <<stackVars, halVars, begun, pending, retry, cooldown, cache, closing, budget>>

\* then what has become of the window: hal_zigbee_get_join_window_status
PolicyLooks ==
    /\ At("status") /\ ~ Expired
    /\ IF ~ permit.open THEN SeesShut
       ELSE /\ cache' = permit
            /\ IF ~ expected /\ pending = 0 /\ permit.left > LongWindow
               THEN Go("close") ELSE task' = Idle
            /\ UNCHANGED expected
    /\ UNCHANGED <<stackVars, halVars, begun, pending, retry, cooldown, closing, budget>>

PolicyFindsExpired ==
    /\ At("status") /\ Expired
    /\ Go("expired")
    /\ UNCHANGED <<stackVars, halVars, policyVars, closing, budget>>

PolicyExpires ==
    /\ At("expired")
    /\ WindowState(FALSE, 0)
    /\ SeesShut
    /\ UNCHANGED <<stackVars, stack, formed, explicit, scheduled, begun, pending, retry,
                   cooldown, closing, budget>>

\* hal_zigbee_close_network, of a long window that nobody expects
PolicyCloses(ok) ==
    /\ At("close")
    /\ IF ok THEN AirClose /\ Go("closed") /\ UNCHANGED <<alarms, budget>>
             ELSE UNCHANGED stackVars /\ task' = Idle /\ Failed
    /\ UNCHANGED <<halVars, policyVars, closing>>

PolicyClosed ==
    /\ At("closed")
    /\ WindowState(FALSE, 0) /\ Expectation(FALSE, 0)
    /\ cache' = Shut
    /\ task' = Idle
    /\ UNCHANGED <<stackVars, stack, formed, begun, expected, pending, retry, cooldown,
                   closing, budget>>

RuntimeTask ==
    \/ EnsureStarted \/ StartLooks
    \/ OpenRefused \/ OpenPostponed \/ OpenCalls \/ OpenSetsWindow \/ OpenSetsExpectation
    \/ FormFails \/ FormCalls \/ FormClears
    \/ PolicyForms \/ PolicyOpens \/ PolicyLooks \/ PolicyFindsExpired \/ PolicyExpires
    \/ (\E ok \in BOOLEAN : PolicyCloses(ok)) \/ PolicyClosed

Inputs == AutoRejoin \/ Authorizes \/ Joins \/ (\E secs \in Durations : Ask(secs))
Stack == \E ok \in BOOLEAN : Forms(ok)

Next == StackTask \/ RuntimeTask \/ Inputs \/ Stack \/ Tick

\* The tasks run, the stack answers and time passes
Fairness ==
    /\ WF_vars(RuntimeTask)
    /\ WF_vars(\E ok \in BOOLEAN : StackStarts(ok))
    /\ WF_vars(\E ok \in BOOLEAN : AlarmRings(ok))
    /\ WF_vars(\E ok \in BOOLEAN : HandleSkipStartup(ok) \/ HandleJoin(ok))
    /\ WF_vars(HandleUp \/ HandleFormation \/ HandlePermit \/ ForceClosed)
    /\ SF_vars(Stack) /\ SF_vars(Tick)

Spec == Init /\ [][Next]_vars
FairSpec == Spec /\ Fairness

-----------------------------------------------------------------------------
(* Properties *)

MaxLeft == CHOOSE m \in Durations \cup {RejoinWindow, StackWindow} :
               \A d \in Durations \cup {RejoinWindow, StackWindow} : d <= m
Left == NoDeadline .. MaxLeft
Windows == [open : BOOLEAN, left : Left]

\* Every part of the state stays what the code's types and enums allow.
TypeOK ==
    /\ net \in {"none", "forming", "formed"} /\ air \in 0 .. MaxLeft
    /\ opener \in {"none", "user", "stack", "crossed", "missed"}
    /\ signals \in Seq([type : {"permit", "formation", "formation_failed", "join",
                                "skip_startup", "up"}, secs : 0 .. MaxLeft])
    /\ Len(signals) <= SignalBound /\ alarms \in Nat
    /\ stack \in {"none", "starting", "running", "dead"}
    /\ {formed, scheduled, begun, expected, closing} \subseteq BOOLEAN
    /\ permit \in Windows /\ cache \in Windows /\ explicit \in Left
    /\ pending \in 0 .. MaxLeft /\ retry \in 0 .. RetryDelay /\ cooldown \in 0 .. Cooldown
    /\ task \in [pc : {"idle", "started", "open", "opened", "expect", "form", "formed",
                       "pending", "status", "expired", "close", "closed"},
                 for : {"none", "start", "request", "rejoin", "policy"}, secs : 0 .. MaxLeft]
    /\ inputs \in 0 .. MaxInputs /\ faults \in 0 .. MaxFaults

\* While devices may join, the adapter says so, or is about to learn of it, or
\* has the window closed by an alarm that is still to ring: a window that the
\* gateway denies does not stay open.  Two cases escape: the alarm's close has
\* failed, and nobody tries again; or the stack has opened its window between a
\* request's call and the note of it, which puts the shorter deadline over it.
\* (HandlePermit, AlarmRings, hal_zigbee_open_network against the signals.)
ClosedMeansClosed ==
    air > 0 /\ ~ permit.open /\ opener \notin {"missed", "crossed"} =>
        \/ alarms > 0
        \/ \E i \in DOMAIN signals : signals[i].type = "permit"
        \/ task.pc = "opened"

\* The mark that keeps a second alarm away means that one is still to ring;
\* were it to outlive the alarm, no window would be suppressed again.
MarkHasAlarm == scheduled => alarms > 0

\* What the adapter, its mark and its alarms say of the window covers the air.
WindowIsKnown == TypeOK /\ ClosedMeansClosed /\ MarkHasAlarm

\* A network is formed, or found, once Zigbee has been started, however often
\* formation fails, unless the stack's task itself did not start.
NetworkForms == begun ~> formed \/ stack = "dead"

\* A window that was asked for before there was a network is opened when
\* there is one, or given up for a join; it does not wait for ever.
PendingEnds == pending > 0 ~> pending = 0 \/ stack = "dead"

\* What was begun before there was a network comes to its end.
StartCompletes == NetworkForms /\ PendingEnds

\* When nobody does anything more, the window closes on the air, in the
\* adapter and in the cache that the service shows.
AllCloses == inputs = 0 ~> air = 0 /\ permit = Shut /\ cache = Shut

\* The alarm closes the window that the stack has opened by itself, as its log
\* line says, and no window that a user has asked for.
OnlyImplicitIsSuppressed ==
    [][alarms' < alarms /\ air' = 0 => opener # "user"]_vars
=============================================================================
