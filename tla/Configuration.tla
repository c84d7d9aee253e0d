---------------------------- MODULE Configuration ----------------------------
(***************************************************************************)
(* The settings of the gateway: the ConfigManager, which keeps them in     *)
(* memory and in flash, and the queues of the PersistenceManager through   *)
(* which the web server and the MQTT bridge ask the runtime task to change *)
(* them.                                                                   *)
(*                                                                         *)
(* Flash holds one word under each key and writes one key at a time.  A    *)
(* save writes all keys one after the other, and so does the migration of  *)
(* what older versions left: power may fail, or a write, between any two.  *)
(*                                                                         *)
(* A reporting profile is the four words that it fills in flash: device    *)
(* (short address and endpoint), cluster, interval, reportable change.     *)
(* Not modelled: the defaults of reporting policies, which are not kept,   *)
(* and the statistics of the NVS notifications.                            *)
(***************************************************************************)
EXTENDS Integers, Sequences, FiniteSets

CONSTANTS
    Slots,           \* kMaxReportingProfiles
    QueueBound,      \* kConfigWriteQueueCapacity
    MaxRetries,      \* kMaxCommandRetries
    DefaultTimeout,  \* kDefaultCommandTimeoutMs
    DefaultRetries,  \* kDefaultMaxCommandRetries
    Olds,            \* flashes the program may find, and the settings they mean
    Changes,         \* the changes of settings that clients ask for:
                     \*   [timeout, retries], each Absent or a value
    Profiles,        \* the reporting profiles that they ask for
    MaxRequests,     \* bounds of the model: what is asked for, and
    MaxFaults        \* the writes and the power that fail

Absent == -1
CurrentSchema == 3

Word == <<"k", "c", "i", "r">>
Legacy == <<"legacy k", "legacy c", "legacy i", "legacy r">>
Key(name) == <<name, 0>>
Keys == ({"schema", "timeout", "retries", "count",
          "legacy timeout", "legacy retries", "legacy count"} \X {0})
        \cup (({Word[w] : w \in 1..4} \cup {Legacy[w] : w \in 1..4}) \X (1..Slots))

ValidTimeout(timeout) == timeout \in Nat \ {0}
ValidRetries(retries) == retries \in 0..MaxRetries

VARIABLES
    flash,     \* the word under each key
    config,    \* what the ConfigManager holds: [timeout, retries, profiles]
    dirty,     \* dirty_
    doing,     \* what the gateway does,
    todo,      \* and what it still writes for it: a sequence of [key, value]
    changes,   \* config_write_queue_
    profiles,  \* reporting_profile_write_queue_
    requests,  \* what may still be asked for,
    faults,    \* and what may still fail
    since,     \* history: the settings held since the last complete save or load,
    failed,    \* whether a save has failed since then,
    accepted   \* and what clients were last promised: [timeout, retries, profiles]

memoryVars == <<config, dirty, doing, todo>>
queueVars == <<changes, profiles>>
historyVars == <<since, failed, accepted>>
vars == <<flash, memoryVars, queueVars, requests, faults, historyVars>>

Unused == <<>>
NoProfiles == [i \in 1..Slots |-> Unused]
Id(profile) == <<profile[1], profile[2]>>
Lesser(a, b) == IF a < b THEN a ELSE b

-----------------------------------------------------------------------------
(* Loading *)

Has(f, key) == f[key] # Absent

\* has_current_schema_keys
HasCurrentKeys(f) ==
    \/ Has(f, Key("timeout")) \/ Has(f, Key("retries"))
    \/ Has(f, Key("count")) \/ Has(f, <<"k", 1>>)

\* has_legacy_v2_keys, of a flash without current keys
HasLegacyV2Keys(f) == Has(f, Key("legacy count")) \/ Has(f, <<Legacy[1], 1>>)

\* has_legacy_v1_keys
HasLegacyV1Keys(f) == Has(f, Key("legacy timeout")) \/ Has(f, Key("legacy retries"))

NeedsRepair(f) == f[Key("schema")] \in {Absent, 0}

\* The schema that load works from; 0 is a fresh install
Schema(f) ==
    IF ~ NeedsRepair(f) THEN f[Key("schema")]
    ELSE IF HasCurrentKeys(f) THEN CurrentSchema
    ELSE IF HasLegacyV2Keys(f) THEN 2
    ELSE IF HasLegacyV1Keys(f) THEN 1
    ELSE 0

\* The profile whose words are f[prefix[1], i], ..., f[prefix[4], i]
ReadSlot(f, prefix, i) ==
    LET word(w) == f[<<prefix[w], i>>]
        orZero(w) == IF word(w) = Absent THEN 0 ELSE word(w)
    IN IF {word(1), word(2)} \cap {Absent, 0} # {} THEN Unused
       ELSE <<word(1), word(2), orZero(3), orZero(4)>>

\* load_reporting_profiles
LoadProfiles(f) ==
    LET count == Lesser(f[Key("count")], Slots) IN
    [i \in 1..Slots |-> IF i <= count THEN ReadSlot(f, Word, i) ELSE Unused]

TimeoutOr(timeout) == IF ValidTimeout(timeout) THEN timeout ELSE DefaultTimeout
RetriesOr(retries) == IF ValidRetries(retries) THEN retries ELSE DefaultRetries

\* load_current_values and load_reporting_profiles
LoadedFrom(f) ==
    [timeout |-> TimeoutOr(f[Key("timeout")]), retries |-> RetriesOr(f[Key("retries")]),
     profiles |-> LoadProfiles(f)]

IsConfig(c) ==
    /\ ValidTimeout(c.timeout) /\ ValidRetries(c.retries)
    /\ DOMAIN c.profiles = 1..Slots

\* The profiles that are counted are there: a save writes them before their number
CountsWholeProfiles(f) ==
    \A i \in 1..Slots : i <= f[Key("count")] => ReadSlot(f, Word, i) # Unused

-----------------------------------------------------------------------------
(* What is written *)

Put(name, value) == <<[key |-> Key(name), value |-> value]>>

IsUsed(profile) == profile # Unused

\* The profiles of a table that are used, without gaps
UsedOf(table) ==
    LET used[n \in 0..Len(table)] ==
            IF n = 0 THEN <<>>
            ELSE IF IsUsed(table[n]) THEN Append(used[n - 1], table[n])
            ELSE used[n - 1]
    IN used[Len(table)]

\* The words of some profiles, one slot after the other
SlotWrites(used) ==
    [m \in 1..(4 * Len(used)) |->
        LET slot == ((m - 1) \div 4) + 1
            w == ((m - 1) % 4) + 1
        IN [key |-> <<Word[w], slot>>, value |-> used[slot][w]]]

\* Variant for the runs' mutants: the number of profiles is written before them
WriteProfilesCountFirst(used) == Put("count", Len(used)) \o SlotWrites(used)

\* save_reporting_profiles, and the copying of migrate_to_current
WriteProfiles(used) == SlotWrites(used) \o Put("count", Len(used))

\* save
SaveWrites(c) ==
    Put("timeout", c.timeout) \o Put("retries", c.retries)
    \o Put("schema", CurrentSchema)
    \o WriteProfiles(UsedOf(c.profiles))

FirstOf(f, legacy, current) == IF Has(f, Key(legacy)) THEN f[Key(legacy)] ELSE f[Key(current)]

\* migrate_to_current, from version 1 to 2
MigrateV1(f) ==
    Put("timeout", TimeoutOr(FirstOf(f, "legacy timeout", "timeout")))
    \o Put("retries", RetriesOr(FirstOf(f, "legacy retries", "retries")))
    \o Put("schema", 2)

\* migrate_to_current, from version 2 to 3
MigrateV2(f) ==
    LET count == Lesser(f[Key("legacy count")], Slots)
        legacy == [i \in 1..(IF count = Absent THEN 0 ELSE count) |-> ReadSlot(f, Legacy, i)]
    IN IF f[Key("count")] > 0 THEN Put("schema", CurrentSchema)
       ELSE WriteProfiles(UsedOf(legacy)) \o Put("schema", CurrentSchema)

\* What load writes: repairs of the schema's key, or a migration
LoadWrites(f) ==
    CASE Schema(f) = 1 -> MigrateV1(f) \o MigrateV2(f)
      [] Schema(f) = 2 -> MigrateV2(f)
      [] OTHER -> IF NeedsRepair(f) THEN Put("schema", CurrentSchema) ELSE <<>>

\* A flash after some writes
After(f, writes) ==
    [key \in Keys |->
        LET those == {m \in DOMAIN writes : writes[m].key = key} IN
        IF those = {} THEN f[key]
        ELSE writes[CHOOSE m \in those : \A n \in those : n <= m].value]

\* The settings that a load which nothing interrupts gives
RecoveredFrom(f) == LoadedFrom(After(f, LoadWrites(f)))

\* Flashes found at the start count whole profiles, come with the settings that a load
\* makes of them, and have the key of the schema if there is something to migrate
Bounds ==
    /\ {Slots, QueueBound} \subseteq Nat \ {0}
    /\ {MaxRetries, MaxRequests, MaxFaults} \subseteq Nat
    /\ ValidTimeout(DefaultTimeout) /\ ValidRetries(DefaultRetries)
    /\ \A old \in Olds :
          /\ old.flash \in [Keys -> Nat \cup {Absent}] /\ CountsWholeProfiles(old.flash)
          /\ Schema(old.flash) <= CurrentSchema => old.config = RecoveredFrom(old.flash)
          /\ Schema(old.flash) \in {1, 2} => ~ NeedsRepair(old.flash)
          /\ IsConfig(old.config)
    /\ \A change \in Changes :
          /\ change.timeout = Absent \/ ValidTimeout(change.timeout)
          /\ change.retries = Absent \/ ValidRetries(change.retries)
          /\ {change.timeout, change.retries} # {Absent}
    /\ Profiles \subseteq [1..4 -> Nat]
    /\ \A profile \in Profiles : profile[1] > 0 /\ profile[2] > 0

ASSUME ConfigurationBounds == Bounds

-----------------------------------------------------------------------------
(* The gateway *)

NoConfig == [timeout |-> DefaultTimeout, retries |-> DefaultRetries, profiles |-> NoProfiles]
Nothing == [timeout |-> Absent, retries |-> Absent, profiles |-> {}]

\* Power comes up over what an older version, or this one, left
Init ==
    /\ \E old \in Olds : flash = old.flash /\ since = {old.config}
    /\ config = NoConfig /\ dirty = FALSE /\ doing = "off" /\ todo = <<>>
    /\ changes = <<>> /\ profiles = <<>>
    /\ requests = MaxRequests /\ faults = MaxFaults
    /\ failed = FALSE /\ accepted = Nothing

\* load has written all that it had to
Loaded(f) ==
    /\ doing' = "idle" /\ todo' = <<>>
    /\ config' = LoadedFrom(f) /\ dirty' = FALSE
    /\ since' = {LoadedFrom(f)} /\ failed' = FALSE

\* load; a schema of the future stops the gateway
Load ==
    /\ doing = "off"
    /\ IF Schema(flash) > CurrentSchema
       THEN doing' = "halted" /\ UNCHANGED <<config, dirty, todo, since, failed>>
       ELSE IF LoadWrites(flash) = <<>> THEN Loaded(flash)
       ELSE /\ todo' = LoadWrites(flash)
            /\ doing' = IF Schema(flash) \in {1, 2} THEN "migrating" ELSE "repairing"
            /\ UNCHANGED <<config, dirty, since, failed>>
    /\ UNCHANGED <<flash, queueVars, requests, faults, accepted>>

\* hal_nvs_set_u32, and what follows the last of a list of writes
Write ==
    /\ todo # <<>>
    /\ flash' = [flash EXCEPT ![Head(todo).key] = Head(todo).value]
    /\ IF Len(todo) > 1
       THEN todo' = Tail(todo) /\ UNCHANGED <<config, dirty, doing, since, failed>>
       ELSE IF doing = "saving"
       THEN /\ doing' = "idle" /\ todo' = <<>> /\ dirty' = FALSE
            /\ since' = {config} /\ failed' = FALSE
            /\ UNCHANGED config
       ELSE Loaded(flash')
    /\ UNCHANGED <<queueVars, requests, faults, accepted>>

\* Variant for the runs' mutants: a save that fails stops the gateway
WriteFailsForGood ==
    /\ todo # <<>> /\ faults > 0 /\ faults' = faults - 1
    /\ doing' = "halted" /\ todo' = <<>> /\ failed' = TRUE
    /\ UNCHANGED <<flash, config, dirty, since, queueVars, requests, accepted>>

\* The same when the key cannot be written: a migration stops the gateway, a repair
\* is done without, a save is given up and said to have succeeded
WriteFails ==
    /\ todo # <<>> /\ faults > 0 /\ faults' = faults - 1
    /\ CASE doing = "migrating" ->
              doing' = "halted" /\ todo' = <<>> /\ UNCHANGED <<config, dirty, since, failed>>
         [] doing = "repairing" -> Loaded(flash)
         [] OTHER -> /\ doing' = "idle" /\ todo' = <<>> /\ failed' = TRUE
                     /\ UNCHANGED <<config, dirty, since>>
    /\ UNCHANGED <<flash, queueVars, requests, accepted>>

\* Power fails and comes back
Restart ==
    /\ doing # "off" /\ faults > 0 /\ faults' = faults - 1
    /\ doing' = "off" /\ todo' = <<>> /\ config' = NoConfig /\ dirty' = FALSE
    /\ changes' = <<>> /\ profiles' = <<>> /\ accepted' = Nothing
    /\ UNCHANGED <<flash, requests, since, failed>>

\* The clients' tasks run
Running == doing \in {"idle", "saving"}
Asks == Running /\ requests > 0 /\ requests' = requests - 1

Newer(old, new) == IF new = Absent THEN old ELSE new

Room(queue) == Len(queue) < QueueBound

\* config_post_handler: post_config_write, when there is room
PostConfigWrite(change) ==
    /\ Asks /\ Room(changes)
    /\ changes' = Append(changes, change)
    /\ accepted' = [accepted EXCEPT !.timeout = Newer(@, change.timeout),
                                    !.retries = Newer(@, change.retries)]
    /\ UNCHANGED <<flash, memoryVars, profiles, faults, since, failed>>

\* post_reporting_profile_write, when there is room
PostReportingProfileWrite(profile) ==
    /\ Asks /\ Room(profiles)
    /\ profiles' = Append(profiles, profile)
    /\ accepted' = [accepted EXCEPT
                      !.profiles = {p \in @ : Id(p) # Id(profile)} \cup {profile}]
    /\ UNCHANGED <<flash, memoryVars, changes, faults, since, failed>>

\* A manager that holds these settings saves them
Saves(c, isDirty) ==
    /\ config' = c /\ dirty' = isDirty
    /\ doing' = "saving" /\ todo' = SaveWrites(c)
    /\ since' = since \cup {c}

\* The runtime has nothing to write; which queue it looks at first is left open
Idle == doing = "idle"

\* drain_config_writes: setting what is already set also saves
DrainConfigWrite ==
    /\ Idle /\ changes # <<>> /\ changes' = Tail(changes)
    /\ LET c == [config EXCEPT !.timeout = Newer(@, Head(changes).timeout),
                               !.retries = Newer(@, Head(changes).retries)]
       IN Saves(c, dirty \/ c # config)
    /\ UNCHANGED <<flash, profiles, requests, faults, failed, accepted>>

PlacesOf(id) == {i \in 1..Slots : IsUsed(config.profiles[i]) /\ Id(config.profiles[i]) = id}
FreePlaces == {i \in 1..Slots : ~ IsUsed(config.profiles[i])}
Least(places) == CHOOSE i \in places : \A j \in places : i <= j

\* Variant for the runs' mutants: a profile never takes the place of the one before it
PlacesForNew(profile) == FreePlaces

\* find_profile_index, and else find_free_profile_index
PlacesFor(profile) ==
    IF PlacesOf(Id(profile)) # {} THEN PlacesOf(Id(profile)) ELSE FreePlaces

\* drain_reporting_profile_writes, set_reporting_profile; without a place for it the
\* profile is dropped
DrainProfileWrite ==
    /\ Idle /\ profiles # <<>> /\ profiles' = Tail(profiles)
    /\ LET places == PlacesFor(Head(profiles)) IN
       IF places = {} THEN UNCHANGED <<memoryVars, since>>
       ELSE Saves([config EXCEPT !.profiles[Least(places)] = Head(profiles)], TRUE)
    /\ UNCHANGED <<flash, changes, requests, faults, failed, accepted>>

\* execute_effects: whenever the core asks for its state to be kept
PersistState ==
    /\ Idle /\ Asks
    /\ Saves(config, dirty)
    /\ UNCHANGED <<flash, queueVars, faults, failed, accepted>>

Next ==
    \/ Load \/ Write \/ WriteFails \/ Restart
    \/ \E change \in Changes : PostConfigWrite(change)
    \/ \E profile \in Profiles : PostReportingProfileWrite(profile)
    \/ DrainConfigWrite \/ DrainProfileWrite \/ PersistState

Spec == Init /\ [][Next]_vars

\* The gateway runs, and its runtime task comes to every queue
Fairness ==
    /\ WF_vars(Load) /\ WF_vars(Write)
    /\ SF_vars(DrainConfigWrite) /\ SF_vars(DrainProfileWrite)

FairSpec == Spec /\ Fairness

-----------------------------------------------------------------------------
(* Properties *)

Set(c) == {c.profiles[i] : i \in 1..Slots} \ {Unused}

Recovered == RecoveredFrom(flash)

\* Types and bounds; what is held is valid whatever was found in flash
TypeOK ==
    /\ DOMAIN flash = Keys /\ \A key \in Keys : flash[key] \in Int
    /\ IsConfig(config) /\ \A c \in since : IsConfig(c)
    /\ dirty \in BOOLEAN /\ failed \in BOOLEAN
    /\ doing \in {"off", "migrating", "repairing", "idle", "saving", "halted"}
    /\ \A m \in DOMAIN todo : todo[m].key \in Keys /\ todo[m].value \in Nat
    /\ Len(changes) <= QueueBound /\ Len(profiles) <= QueueBound
    /\ requests \in 0..MaxRequests /\ faults \in 0..MaxFaults

\* Whenever power fails, in a save or in a migration, once or again, the settings that
\* come back are ones held since the last complete save: each value is one that was
\* held, each profile's identity and each of its words too, and no profile is lost
\* that was there all the time (ConfigManager: load, save, migrate_to_current).
RestartIsNoSurprise ==
    Schema(flash) <= CurrentSchema =>
        /\ \E c \in since : c.timeout = Recovered.timeout
        /\ \E c \in since : c.retries = Recovered.retries
        /\ \A p \in Set(Recovered) : \A w \in 3..4 :
              \E c \in since : \E q \in Set(c) : Id(q) = Id(p) /\ q[w] = p[w]
        /\ \A id \in {Id(p) : p \in UNION {Set(c) : c \in since}} :
              (\A c \in since : \E q \in Set(c) : Id(q) = id)
                  => \E p \in Set(Recovered) : Id(p) = id

\* Settings that are not dirty are in flash: a restart gives them back as they are
\* (dirty_ is reset by a complete save or load only).
CleanIsStored ==
    doing = "idle" /\ ~ dirty =>
        /\ Recovered.timeout = config.timeout /\ Recovered.retries = config.retries
        /\ Set(Recovered) = Set(config)

\* Settings stay dirty only after a save that failed: no accepted change waits in
\* memory without an attempt to keep it.
DirtyHasFailed == doing = "idle" /\ dirty => failed

\* The first profile with this identity, as get_reporting_profile finds it
Found(id) == IF PlacesOf(id) = {} THEN Unused ELSE config.profiles[Least(PlacesOf(id))]

\* What clients were promised last is what holds when nothing waits: changes are
\* neither lost, nor reordered, nor shadowed by older ones; a profile is missing only
\* when the table is full of others.
LastAcceptedWins ==
    /\ Running /\ changes = <<>> =>
          /\ accepted.timeout \in {Absent, config.timeout}
          /\ accepted.retries \in {Absent, config.retries}
    /\ Running /\ profiles = <<>> =>
          \A p \in accepted.profiles :
              Found(Id(p)) = p \/ (Found(Id(p)) = Unused /\ FreePlaces = {})

\* What was accepted is held, and what is held is in flash unless a save has failed
AcceptedIsKept == TypeOK /\ LastAcceptedWins /\ CleanIsStored /\ DirtyHasFailed

\* Every accepted change is taken up, whatever writes fail meanwhile.
AcceptedIsApplied ==
    /\ (changes # <<>>) ~> (changes = <<>>)
    /\ (profiles # <<>>) ~> (profiles = <<>>)

=============================================================================
