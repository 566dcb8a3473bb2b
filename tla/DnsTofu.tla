------------------------------- MODULE DnsTofu -------------------------------
(***************************************************************************)
(* DNS publisher names: DnsService resolves a zone to the publisher key in *)
(* its signed TXT record and pins the key on first sight (TOFU).           *)
(*                                                                         *)
(* Requests run concurrently.  The pin store is behind a lock, held while  *)
(* a record is validated and pinned; the cache has a lock of its own.  The *)
(* zone's record changes at any time, lookups fail, the daemon restarts.   *)
(***************************************************************************)

CONSTANTS
  Domain, Publisher,
  Task,
  Negative,   \* a cached miss
  Unusable,   \* a record with a bad signature, or one that is stale
  Nothing

ASSUME DnsAssumption ==
  /\ {Negative, Unusable, Nothing} \cap (Publisher \cup Domain) = {}
  /\ Negative # Unusable /\ Negative # Nothing /\ Unusable # Nothing
  /\ Nothing \notin Task

VARIABLES
  record,     \* what DNS publishes for a zone
  cache,      \* DnsService.cache, without what has expired
  pins,       \* DnsService.pins
  disk,       \* dns-pins.json
  lock,       \* the task that holds the lock of pins
  pc, zone,   \* a request: its step and its zone
  found,      \* the key of the record it looked up
  validated,  \* history: keys accepted for a zone since its last unpin
  unsaved,    \* history: zones whose change of pin is in memory only
  lapsed      \* history: zones that a restart found so, until they are unpinned

stores == <<cache, pins, disk>>
history == <<validated, unsaved, lapsed>>
dnsVars == <<record, stores, lock, pc, zone, found, history>>

DnsTypeOK ==
  /\ record \in [Domain -> Publisher \cup {Unusable, Nothing}]
  /\ cache \in [Domain -> Publisher \cup {Negative, Nothing}]
  /\ pins \in [Domain -> Publisher \cup {Nothing}]
  /\ disk \in [Domain -> Publisher \cup {Nothing}]
  /\ lock \in Task \cup {Nothing}
  /\ pc \in [Task -> {"idle", "lookup", "validate", "save", "insert", "forget"}]
  /\ zone \in [Task -> Domain \cup {Nothing}]
  /\ found \in [Task -> Publisher \cup {Unusable, Nothing}]
  /\ validated \in [Domain -> SUBSET Publisher]
  /\ unsaved \subseteq Domain
  /\ lapsed \subseteq Domain

-----------------------------------------------------------------------------
\* A request returns.
Return(t) ==
  /\ pc' = [pc EXCEPT ![t] = "idle"]
  /\ zone' = [zone EXCEPT ![t] = Nothing]
  /\ found' = [found EXCEPT ![t] = Nothing]

\* resolve_zone: the cache answers, which changes nothing, or the zone is looked up.
CacheMiss(t, z) ==
  /\ pc[t] = "idle"
  /\ cache[z] = Nothing
  /\ pc' = [pc EXCEPT ![t] = "lookup"]
  /\ zone' = [zone EXCEPT ![t] = z]
  /\ UNCHANGED <<record, stores, lock, found, history>>

\* The answer carries a record.
Lookup(t) ==
  /\ pc[t] = "lookup"
  /\ record[zone[t]] # Nothing
  /\ found' = [found EXCEPT ![t] = record[zone[t]]]
  /\ pc' = [pc EXCEPT ![t] = "validate"]
  /\ UNCHANGED <<record, stores, lock, zone, history>>

\* There is no record, or the lookup fails: NoRecord, and the miss is cached.
LookupNothing(t) ==
  /\ pc[t] = "lookup"
  /\ cache' = [cache EXCEPT ![zone[t]] = Negative]
  /\ Return(t)
  /\ UNCHANGED <<record, pins, disk, lock, history>>

\* Mutant of Refuse: the refusal is cached like an answer.
RefuseCached(t) ==
  /\ pc[t] = "validate"
  /\ lock = Nothing
  /\ found[t] = Unusable \/ pins[zone[t]] \notin {Nothing, found[t]}
  /\ cache' = [cache EXCEPT ![zone[t]] = found[t]]
  /\ Return(t)
  /\ UNCHANGED <<record, pins, disk, lock, history>>

\* validate_record refuses: bad signature, stale, or not the pinned key.
Refuse(t) ==
  /\ pc[t] = "validate"
  /\ lock = Nothing
  /\ found[t] = Unusable \/ pins[zone[t]] \notin {Nothing, found[t]}
  /\ Return(t)
  /\ UNCHANGED <<record, stores, lock, history>>

\* Mutant of Confirm: the record is not compared with the pin.
ConfirmAny(t) ==
  /\ pc[t] = "validate"
  /\ lock = Nothing
  /\ found[t] \in Publisher
  /\ pins[zone[t]] # Nothing
  /\ validated' = [validated EXCEPT ![zone[t]] = @ \cup {found[t]}]
  /\ pc' = [pc EXCEPT ![t] = "insert"]
  /\ UNCHANGED <<record, stores, lock, zone, found, unsaved, lapsed>>

\* It accepts the pinned key.
Confirm(t) ==
  /\ pc[t] = "validate"
  /\ lock = Nothing
  /\ found[t] \in Publisher
  /\ pins[zone[t]] = found[t]
  /\ validated' = [validated EXCEPT ![zone[t]] = @ \cup {found[t]}]
  /\ pc' = [pc EXCEPT ![t] = "insert"]
  /\ UNCHANGED <<record, stores, lock, zone, found, unsaved, lapsed>>

\* Mutant of PinKey: the key is answered without being written.
PinInMemory(t) ==
  /\ pc[t] = "validate"
  /\ lock = Nothing
  /\ found[t] \in Publisher
  /\ pins[zone[t]] = Nothing
  /\ pins' = [pins EXCEPT ![zone[t]] = found[t]]
  /\ validated' = [validated EXCEPT ![zone[t]] = @ \cup {found[t]}]
  /\ pc' = [pc EXCEPT ![t] = "insert"]
  /\ UNCHANGED <<record, cache, disk, lock, zone, found, unsaved, lapsed>>

\* It accepts a first key: pin it, with the lock held ...
PinKey(t) ==
  /\ pc[t] = "validate"
  /\ lock = Nothing
  /\ found[t] \in Publisher
  /\ pins[zone[t]] = Nothing
  /\ pins' = [pins EXCEPT ![zone[t]] = found[t]]
  /\ lock' = t
  /\ pc' = [pc EXCEPT ![t] = "save"]
  /\ UNCHANGED <<record, cache, disk, zone, found, history>>

\* ... and write the store.
SavePins(t) ==
  /\ pc[t] = "save"
  /\ disk' = pins
  /\ lock' = Nothing
  /\ validated' = [validated EXCEPT ![zone[t]] = @ \cup {found[t]}]
  /\ unsaved' = {}
  /\ pc' = [pc EXCEPT ![t] = "insert"]
  /\ UNCHANGED <<record, cache, pins, zone, found, lapsed>>

\* The write fails: the request does, and the pin stays in memory.
SaveFail(t) ==
  /\ pc[t] = "save"
  /\ lock' = Nothing
  /\ unsaved' = unsaved \cup {zone[t]}
  /\ Return(t)
  /\ UNCHANGED <<record, stores, validated, lapsed>>

\* With the lock released, cache the key and return it.
CacheKey(t) ==
  /\ pc[t] = "insert"
  /\ cache' = [cache EXCEPT ![zone[t]] = found[t]]
  /\ Return(t)
  /\ UNCHANGED <<record, pins, disk, lock, history>>

\* unpin: memory and file, whether or not the zone is pinned ...
UnpinZone(t, z) ==
  /\ pc[t] = "idle"
  /\ lock = Nothing
  /\ pins' = [pins EXCEPT ![z] = Nothing]
  /\ disk' = pins'
  /\ validated' = [validated EXCEPT ![z] = {}]
  /\ unsaved' = {}
  /\ lapsed' = lapsed \ {z}
  /\ lock' = t
  /\ pc' = [pc EXCEPT ![t] = "forget"]
  /\ zone' = [zone EXCEPT ![t] = z]
  /\ UNCHANGED <<record, cache, found>>

\* ... then the cache.
Forget(t) ==
  /\ pc[t] = "forget"
  /\ cache' = [cache EXCEPT ![zone[t]] = Nothing]
  /\ lock' = Nothing
  /\ Return(t)
  /\ UNCHANGED <<record, pins, disk, history>>

\* unpin, when the file cannot be written: an error, the cache is not touched.
UnpinFail(t, z) ==
  /\ pc[t] = "idle"
  /\ lock = Nothing
  /\ pins[z] # Nothing
  /\ pins' = [pins EXCEPT ![z] = Nothing]
  /\ validated' = [validated EXCEPT ![z] = {}]
  /\ unsaved' = unsaved \cup {z}
  /\ UNCHANGED <<record, cache, disk, lock, pc, zone, found, lapsed>>

-----------------------------------------------------------------------------
\* The environment (external): the zone's administrator publishes another
\* record, a cache entry runs out, the daemon is restarted.

Publish(z) ==
  /\ \E r \in Publisher \cup {Unusable, Nothing} :
       r # record[z] /\ record' = [record EXCEPT ![z] = r]
  /\ UNCHANGED <<stores, lock, pc, zone, found, history>>

Expire(z) ==
  /\ cache[z] # Nothing
  /\ cache' = [cache EXCEPT ![z] = Nothing]
  /\ UNCHANGED <<record, pins, disk, lock, pc, zone, found, history>>

Restart ==
  /\ cache' = [z \in Domain |-> Nothing]
  /\ pins' = disk
  /\ lock' = Nothing
  /\ pc' = [t \in Task |-> "idle"]
  /\ zone' = [t \in Task |-> Nothing]
  /\ found' = [t \in Task |-> Nothing]
  /\ unsaved' = {}
  /\ lapsed' = lapsed \cup unsaved
  /\ UNCHANGED <<record, disk, validated>>

DnsInit ==
  /\ record \in [Domain -> Publisher \cup {Unusable, Nothing}]
  /\ cache = [z \in Domain |-> Nothing]
  /\ pins = [z \in Domain |-> Nothing]
  /\ disk = [z \in Domain |-> Nothing]
  /\ lock = Nothing
  /\ pc = [t \in Task |-> "idle"]
  /\ zone = [t \in Task |-> Nothing]
  /\ found = [t \in Task |-> Nothing]
  /\ validated = [z \in Domain |-> {}]
  /\ unsaved = {}
  /\ lapsed = {}

DnsNext ==
  \/ \E t \in Task :
       \/ \E z \in Domain : CacheMiss(t, z) \/ UnpinZone(t, z) \/ UnpinFail(t, z)
       \/ Lookup(t) \/ LookupNothing(t) \/ Refuse(t) \/ Confirm(t)
       \/ PinKey(t) \/ SavePins(t) \/ SaveFail(t) \/ CacheKey(t) \/ Forget(t)
  \/ \E z \in Domain : Publish(z) \/ Expire(z)
  \/ Restart

DnsSpec == DnsInit /\ [][DnsNext]_dnsVars

-----------------------------------------------------------------------------
\* Properties.

\* "A later record for the same zone with a different key is rejected": from
\* one unpin of a zone to the next a single key is ever accepted for it,
\* although requests race each other, the record changes between them and the
\* daemon restarts.  (A pin whose write failed is forgotten by a restart.)
OneKeyPerPin == \A z \in Domain \ lapsed : \A j, k \in validated[z] : j = k

\* A key that was accepted is on disk until it is unpinned: the store is saved
\* before the answer, and no restart forgets it.
AnswersDurable ==
  \A z \in Domain \ (unsaved \cup lapsed) : \A k \in validated[z] : disk[z] = k

\* "The next resolution re-pins whatever the zone then publishes": what the
\* cache answers is pinned, also while requests and unpins overlap.
CachedIsPinned ==
  \A z \in Domain : (lock = Nothing /\ cache[z] \in Publisher) => pins[z] = cache[z]

\* "Once pinned, the name resolves from the pin store": no lookup of a pinned
\* zone ends in NoRecord.
PinnedResolves ==
  [][\A t \in Task :
       (pc[t] = "lookup" /\ pc'[t] = "idle" /\ cache'[zone[t]] = Negative)
         => pins[zone[t]] = Nothing]_dnsVars

-----------------------------------------------------------------------------
\* The parts of the inductive invariant behind OneKeyPerPin and AnswersDurable.

\* The holder of the lock, and what a request knows at each step.
StepInv ==
  \A t \in Task :
    /\ lock = t <=> pc[t] \in {"save", "forget"}
    /\ pc[t] # "idle" => zone[t] \in Domain
    /\ pc[t] \in {"save", "insert"} => found[t] \in Publisher

\* A key that was accepted is the pinned one, and a first key is pinned before it
\* is accepted.
PinnedInv ==
  /\ \A z \in Domain \ lapsed : \A k \in validated[z] : pins[z] = k
  /\ \A t \in Task : pc[t] = "save" =>
       /\ pins[zone[t]] = found[t]
       /\ zone[t] \notin lapsed => validated[zone[t]] = {}

\* The file agrees with the memory, except for the zone that is being saved.
SavedInv ==
  \A z \in Domain \ unsaved :
    disk[z] = pins[z] \/ \E t \in Task : pc[t] = "save" /\ zone[t] = z
=============================================================================
