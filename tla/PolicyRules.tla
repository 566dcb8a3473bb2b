----------------------------- MODULE PolicyRules -----------------------------
(***************************************************************************)
(* What the rules of policy.toml mean and how requests edit them           *)
(* (config.rs, the policy operations of node.rs, oci.rs, ocictl).  The     *)
(* policy changes one request at a time here; PolicyStore has the races.   *)
(*                                                                         *)
(* A rule is kept the way the user wrote its publisher: as hex or did:key, *)
(* or as a DNS zone, which the table `dns` of the policy maps to a key.    *)
(* An alias may stand for a publisher or for an image in a reference, and  *)
(* may have the shape of a zone.                                           *)
(***************************************************************************)
EXTENDS Window, Sequences

CONSTANTS
  Key,        \* publisher keys
  Self,       \* the key of this node
  KeyForm,    \* how a key is written: "hex", "did"
  Zone,       \* words with the shape of a domain name
  Word,       \* other words
  Published,  \* Published[z]: the keys a verified lookup of z may answer
  Name,       \* image names without a slash, each <<word>>
  ModeText,   \* the modes of requests: <<"full", 0>>, <<"last", n>>, ...
  Alias,      \* the words `track` is asked to make an alias
  Tracked,    \* the publishers, ourselves too, that it is given for them
  MaxRules,   \* bound: entries of the policy
  None

\* The names of images: as they are published, and those of our own images
\* that a first segment which is no publisher makes.
AnyName == Name \cup {<<w>> : w \in Alias} \cup {<<w>> \o n : w \in Word, n \in Name}
Image == [publisher : Key, name : AnyName, tag : Tag \cup {None}]

ASSUME PolicyRulesAssumption ==
  /\ Self \in Key
  /\ "hex" \in KeyForm /\ KeyForm \subseteq {"hex", "did"}
  /\ Published \in [Zone -> SUBSET Key]
  /\ ModeText \subseteq {"full", "all", "latest", "last"} \X Nat
  /\ Alias \subseteq Zone \cup Word /\ Tracked \subseteq Key
  /\ Tag \subseteq Nat /\ MaxRules \in Nat
  /\ None \notin Key /\ None \notin Image
  /\ None \notin Nat /\ None \notin {"full", "last"} \X Nat

VARIABLE file  \* the content of policy.toml

-----------------------------------------------------------------------------
\* Modes, and policy.toml.

\* Mode::from_str.  last:0 is refused, last:1 is latest.
ParseMode(text) ==
  CASE text[1] \in {"full", "all"} -> Full
    [] text[1] = "latest" -> 1
    [] text[1] = "last" -> IF text[2] = 0 THEN None ELSE text[2]

Mode == {ParseMode(t) : t \in ModeText} \ {None}

\* Entries are written without a mode when it is the default one, latest.
ModeToText(mode) ==
  CASE mode = Full -> <<"full", 0>>
    [] mode = 1 -> None
    [] OTHER -> <<"last", mode>>

\* A table without a mode, or a bare string, has the default mode.
ModeFromText(text) == IF text = None THEN 1 ELSE ParseMode(text)

\* Policy::save: the text of an in-memory policy.
Save(p) ==
  [p EXCEPT !.seed = {[e EXCEPT !.mode = ModeToText(@)] : e \in p.seed},
            !.follow = [i \in DOMAIN p.follow |->
                          [p.follow[i] EXCEPT !.mode = ModeToText(@)]]]

\* Policy::load.
Load(f) ==
  [f EXCEPT !.seed = {[e EXCEPT !.mode = ModeFromText(@)] : e \in f.seed},
            !.follow = [i \in DOMAIN f.follow |->
                          [f.follow[i] EXCEPT !.mode = ModeFromText(@)]]]

policy == Load(file)

\* Policy::default, written by `ocictl init`.  `seed` and `pin` are sets: the
\* editors below keep them free of duplicates and nothing reads their order.
NoRules ==
  [seed |-> {}, follow |-> <<>>, pin |-> {}, alias |-> <<>>, dns |-> <<>>]

\* insert into, and removal from, a map of the policy.
Insert(map, k, v) == [x \in DOMAIN map \cup {k} |-> IF x = k THEN v ELSE map[x]]
Remove(map, k) == [x \in DOMAIN map \ {k} |-> map[x]]

-----------------------------------------------------------------------------
\* References as they are written: a first segment (NoSlot without one), a
\* name, a tag or None.

NoSlot == [form |-> "none", of |-> None]
Slot ==
  [form : KeyForm, of : Key] \cup [form : {"zone"}, of : Zone]
    \cup [form : {"word"}, of : Word]
Hex(k) == [form |-> "hex", of |-> k]
Ref == [slot : Slot, name : AnyName, tag : Tag \cup {None}]
Written ==
  [slot : Slot, name : Name, tag : Tag \cup {None}]
    \cup [slot : {NoSlot}, name : Name \cup {<<w>> : w \in Alias},
          tag : Tag \cup {None}]

IsKey(s) == s.form \in {"hex", "did"}
IsDomainName(s) == s.form = "zone"

\* Policy::parse_publisher_arg: a key, or a zone with a recorded mapping.
ParsePublisherArg(p, s) ==
  CASE IsKey(s) -> s.of
    [] IsDomainName(s) /\ s.of \in DOMAIN p.dns -> p.dns[s.of]
    [] OTHER -> None

\* Policy::parse_seed_rule, as the image it means; None for an invalid rule.
ParseSeedRule(p, r) ==
  LET k == ParsePublisherArg(p, r.slot)
  IN  IF k = None THEN None
      ELSE [publisher |-> k, name |-> r.name, tag |-> r.tag]

\* Policy::follows, and follow_mode: of the entries for a publisher the first.
FollowMode(p, k) ==
  LET at == {i \in DOMAIN p.follow :
               ParsePublisherArg(p, p.follow[i].publisher) = k}
  IN  IF at = {} THEN None
      ELSE p.follow[CHOOSE i \in at : \A j \in at : i <= j].mode

\* Policy::seed_rules and pins: invalid entries are ignored.
SeedRules(p) == {e \in p.seed : ParseSeedRule(p, e.ref) # None}
Pins(p) == {ParseSeedRule(p, r) : r \in p.pin} \ {None}

\* Policy::publishers: whose topics the node is on.
Publishers(p) ==
  {ParsePublisherArg(p, p.follow[i].publisher) : i \in DOMAIN p.follow}
    \cup {ParsePublisherArg(p, e.ref.slot) : e \in p.seed}
    \cup {ParsePublisherArg(p, r.slot) : r \in p.pin}

\* Policy::is_pinned.
IsPinned(p, k, n, t) == [publisher |-> k, name |-> n, tag |-> t] \in Pins(p)

\* Policy::window.
PolicyWindow(p, k, n) ==
  LET of == {e \in SeedRules(p) :
               LET r == ParseSeedRule(p, e.ref)
               IN  r.publisher = k /\ r.name = n}
  IN  WindowOf(({FollowMode(p, k)} \ {None})
                 \cup {e.mode : e \in {e \in of : e.ref.tag = None}},
               {e.ref.tag : e \in {e \in of : e.ref.tag # None}}
                 \cup {t \in Tag : IsPinned(p, k, n, t)})

-----------------------------------------------------------------------------
\* From a reference to the image it names.

\* oci::resolve_repo and ImageRef::parse: a key, a recorded zone, an alias of
\* an image, an alias of a publisher, a name of our own.
ParseImageRef(p, r) ==
  LET image(k, n) == [publisher |-> k, name |-> n, tag |-> r.tag]
      key == ParsePublisherArg(p, r.slot)
      alias == IF r.slot = NoSlot THEN r.name[1] ELSE r.slot.of
      target == IF alias \in DOMAIN p.alias THEN p.alias[alias] ELSE None
  IN  IF key # None THEN image(key, r.name)
      ELSE CASE target # None /\ r.slot = NoSlot /\ target.name # None ->
                  image(target.publisher, target.name)
             [] target # None /\ target.name = None ->
                  IF r.slot = NoSlot THEN None ELSE image(target.publisher, r.name)
             [] OTHER ->
                  image(Self, IF r.slot = NoSlot THEN r.name
                              ELSE <<r.slot.of>> \o r.name)

\* Node::resolve_rule with the lookup of a zone answering `answer`, a key or
\* None (no record, DNS off, an error).  The rule is persisted as written.
ResolveRule(p, r, answer) ==
  LET image == IF IsDomainName(r.slot)
               THEN IF answer = None THEN None
                    ELSE [publisher |-> answer, name |-> r.name, tag |-> r.tag]
               ELSE ParseImageRef(p, r)
  IN  [rule |-> r, image |-> image]

\* ocictl without a daemon: no domain names (offline_domain_check; a tag hides
\* the shape of a name without a slash), and the rule is persisted in its
\* canonical form, with the key in hex.
ResolveOffline(p, r) ==
  LET refused == \/ IsDomainName(r.slot)
                 \/ r.slot = NoSlot /\ r.tag = None /\ r.name[1] \in Zone
      image == IF refused THEN None ELSE ParseImageRef(p, r)
  IN  [rule |-> IF image = None THEN r
                ELSE [slot |-> Hex(image.publisher), name |-> image.name,
                      tag |-> image.tag],
       image |-> image]

\* Node::resolve_publisher_rule: a key, an alias, a zone, in this order.
ResolvePublisherRule(p, s, answer) ==
  IF IsKey(s) THEN s.of
  ELSE IF s.of \in DOMAIN p.alias /\ p.alias[s.of].name = None
       THEN p.alias[s.of].publisher
       ELSE IF IsDomainName(s) THEN answer ELSE None

\* Node::rewrite_dns_publisher and resolve_image_ref: the image of a pull or
\* of a control request.  `answer` is a key, None for a zone without a record.
ResolveImageRef(p, r, answer) ==
  ParseImageRef(p, IF IsDomainName(r.slot) /\ answer # None
                   THEN [r EXCEPT !.slot = Hex(answer)] ELSE r)

-----------------------------------------------------------------------------
\* The editors of config.rs: the edited policy, or None for an error.

\* Mutant of SetDnsMapping: the first segment of any rule is recorded.
SetDnsMappingAny(p, s, k) == [p EXCEPT !.dns = Insert(@, s.of, k)]

\* Mutant of SetDnsMapping: a zone keeps the key that it was recorded with.
SetDnsMappingOnce(p, s, k) ==
  IF IsDomainName(s) /\ s.of \notin DOMAIN p.dns
  THEN [p EXCEPT !.dns = Insert(@, s.of, k)] ELSE p

SetDnsMapping(p, s, k) ==
  IF IsDomainName(s) THEN [p EXCEPT !.dns = Insert(@, s.of, k)] ELSE p

\* Mutant of AddSeed: the publisher is not compared.
AddSeedAnyone(p, r, m) ==
  IF ParseSeedRule(p, r) = None THEN None
  ELSE [p EXCEPT !.seed = {e \in @ : e.ref.name # r.name \/ e.ref.tag # r.tag}
                            \cup {[ref |-> r, mode |-> m]}]

AddSeed(p, r, m) ==
  IF ParseSeedRule(p, r) = None THEN None
  ELSE [p EXCEPT !.seed = {e \in @ : e.ref # r} \cup {[ref |-> r, mode |-> m]}]

\* Mutant of RemoveSeed: rules are compared as they are written.
RemoveSeedWritten(p, r) ==
  IF ParseSeedRule(p, r) = None THEN None
  ELSE [p EXCEPT !.seed = {e \in @ : e.ref.slot # r.slot \/ e.ref.name # r.name
                                       \/ r.tag \notin {None, e.ref.tag}}]

\* Without a tag every rule of the image goes; rules are compared resolved.
RemoveSeed(p, r) ==
  LET image == ParseSeedRule(p, r)
      Goes(e) == LET q == ParseSeedRule(p, e.ref)
                 IN  /\ q # None
                     /\ q.publisher = image.publisher /\ q.name = image.name
                     /\ image.tag \in {None, q.tag}
  IN  IF image = None THEN None ELSE [p EXCEPT !.seed = {e \in @ : ~Goes(e)}]

\* The first entry for the publisher gets the mode, in whatever form it is.
AddFollow(p, s, m) ==
  LET k == ParsePublisherArg(p, s)
      at == {i \in DOMAIN p.follow :
               ParsePublisherArg(p, p.follow[i].publisher) = k}
  IN  CASE k = None -> None
        [] k # None /\ at # {} ->
             [p EXCEPT !.follow[CHOOSE i \in at : \A j \in at : i <= j].mode = m]
        [] OTHER ->
             [p EXCEPT !.follow = Append(@, [publisher |-> s, mode |-> m])]

\* retain: the entries at these positions.
Retain(entries, at) ==
  [i \in 1 .. Cardinality(at) |->
     entries[CHOOSE j \in at : Cardinality({h \in at : h <= j}) = i]]

RemoveFollow(p, s) ==
  LET k == ParsePublisherArg(p, s)
      stay == {i \in DOMAIN p.follow :
                 ParsePublisherArg(p, p.follow[i].publisher) # k}
  IN  IF k = None THEN None ELSE [p EXCEPT !.follow = Retain(@, stay)]

AddPin(p, r) ==
  IF ParseSeedRule(p, r) = None \/ r.tag = None THEN None
  ELSE [p EXCEPT !.pin = @ \cup {r}]

\* Only the form of the request and the canonical one are removed.
RemovePin(p, r) ==
  LET image == ParseSeedRule(p, r)
  IN  IF image = None THEN None
      ELSE [p EXCEPT !.pin = @ \ {r, [r EXCEPT !.slot = Hex(image.publisher)]}]

\* set_alias; the target is a publisher (name None) or an image of one.
SetAlias(p, a, target) == [p EXCEPT !.alias = Insert(@, a, target)]
RemoveAlias(p, a) == [p EXCEPT !.alias = Remove(@, a)]

-----------------------------------------------------------------------------
\* The requests: POST /_ocid/policy/... while the daemon runs, ocictl without.
\* Each is a function from the policy, what was asked and what the lookup of a
\* zone answers to the policy that is saved, None when the request fails.

DaemonSeed(p, r, m, answer) ==
  LET rr == ResolveRule(p, r, answer)
  IN  IF rr.image = None \/ rr.image.publisher = Self THEN None
      ELSE AddSeed(SetDnsMapping(p, r.slot, rr.image.publisher), r, m)

OfflineSeed(p, r, m) ==
  LET rr == ResolveOffline(p, r)
  IN  IF rr.image = None \/ rr.image.publisher = Self THEN None
      ELSE AddSeed(p, rr.rule, m)

\* Mutant of DaemonUnseed: the mapping of the zone goes with the rule.
DaemonUnseedForgets(p, r, answer) ==
  IF ResolveRule(p, r, answer).image = None \/ RemoveSeed(p, r) = None THEN None
  ELSE [RemoveSeed(p, r) EXCEPT !.dns = Remove(@, r.slot.of)]

\* The lookup has to succeed, but the rule is found by the recorded mapping.
DaemonUnseed(p, r, answer) ==
  IF ResolveRule(p, r, answer).image = None THEN None ELSE RemoveSeed(p, r)

OfflineUnseed(p, r) ==
  LET rr == ResolveOffline(p, r)
  IN  IF rr.image = None THEN None ELSE RemoveSeed(p, rr.rule)

\* Mutant of DaemonFollow: the mapping is not recorded again.
DaemonFollowKeeps(p, s, m, answer) ==
  LET k == ResolvePublisherRule(p, s, answer)
  IN  IF k = None THEN None
      ELSE AddFollow(IF s.of \in DOMAIN p.dns THEN p ELSE SetDnsMapping(p, s, k), s, m)

DaemonFollow(p, s, m, answer) ==
  LET k == ResolvePublisherRule(p, s, answer)
  IN  IF k = None THEN None ELSE AddFollow(SetDnsMapping(p, s, k), s, m)

\* Offline a follow takes a key only, no alias.
OfflineFollow(p, s, m) == IF IsKey(s) THEN AddFollow(p, Hex(s.of), m) ELSE None

DaemonUnfollow(p, s, answer) ==
  IF ResolvePublisherRule(p, s, answer) = None THEN None ELSE RemoveFollow(p, s)

OfflineUnfollow(p, s) == IF IsKey(s) THEN RemoveFollow(p, Hex(s.of)) ELSE None

DaemonPin(p, r, answer) ==
  LET rr == ResolveRule(p, r, answer)
  IN  IF rr.image = None \/ r.tag = None THEN None
      ELSE AddPin(SetDnsMapping(p, r.slot, rr.image.publisher), r)

OfflinePin(p, r) ==
  LET rr == ResolveOffline(p, r)
  IN  IF rr.image = None \/ r.tag = None THEN None ELSE AddPin(p, rr.rule)

DaemonUnpin(p, r, answer) ==
  IF ResolveRule(p, r, answer).image = None THEN None ELSE RemovePin(p, r)

OfflineUnpin(p, r) ==
  LET rr == ResolveOffline(p, r)
  IN  IF rr.image = None THEN None ELSE RemovePin(p, rr.rule)

-----------------------------------------------------------------------------
\* What a lookup of the zone of a slot may answer; other slots need none.
Answer(s) == IF IsDomainName(s) THEN Published[s.of] \cup {None} ELSE {None}

Entries(p) == Cardinality(p.seed) + Len(p.follow) + Cardinality(p.pin)

\* mutate_policy, and the offline commands: the file is written only when the
\* edit succeeds.
Saves(p) == p # None /\ Entries(p) <= MaxRules /\ file' = Save(p)

Seed ==
  \E r \in Written, t \in ModeText : \E a \in Answer(r.slot) :
    /\ ParseMode(t) # None
    /\ \/ Saves(DaemonSeed(policy, r, ParseMode(t), a))
       \/ Saves(OfflineSeed(policy, r, ParseMode(t)))

Unseed ==
  \E r \in Written : \E a \in Answer(r.slot) :
    Saves(DaemonUnseed(policy, r, a)) \/ Saves(OfflineUnseed(policy, r))

Follow ==
  \E s \in Slot, t \in ModeText : \E a \in Answer(s) :
    /\ ParseMode(t) # None
    /\ \/ Saves(DaemonFollow(policy, s, ParseMode(t), a))
       \/ Saves(OfflineFollow(policy, s, ParseMode(t)))

Unfollow ==
  \E s \in Slot : \E a \in Answer(s) :
    Saves(DaemonUnfollow(policy, s, a)) \/ Saves(OfflineUnfollow(policy, s))

Pin ==
  \E r \in Written : \E a \in Answer(r.slot) :
    Saves(DaemonPin(policy, r, a)) \/ Saves(OfflinePin(policy, r))

Unpin ==
  \E r \in Written : \E a \in Answer(r.slot) :
    Saves(DaemonUnpin(policy, r, a)) \/ Saves(OfflineUnpin(policy, r))

\* ocictl track and untrack edit the file themselves.
Target == [publisher : Tracked, name : Name \cup {None}]
Track == \E a \in Alias, t \in Target : Saves(SetAlias(policy, a, t))
Untrack == \E a \in Alias : Saves(RemoveAlias(policy, a))

Init == file = Save(NoRules)
Next ==
  Seed \/ Unseed \/ Follow \/ Unfollow \/ Pin \/ Unpin \/ Track \/ Untrack
Spec == Init /\ [][Next]_file

-----------------------------------------------------------------------------
\* The file is a policy: rules with a key or a zone, tagged pins, maps.
TypeOK ==
  LET Text == {ModeToText(m) : m \in Mode}
      Maps(f, D, R) == DOMAIN f \subseteq D /\ \A x \in DOMAIN f : f[x] \in R
  IN  /\ file.seed \subseteq [ref : Ref, mode : Text]
      /\ file.follow \in Seq([publisher : Slot, mode : Text])
      /\ file.pin \subseteq {r \in Ref : r.tag # None}
      /\ Maps(file.alias, Alias, Target) /\ Maps(file.dns, Zone, Key)

\* Every rule that was accepted means something: no sequence of edits leaves
\* an entry that seed_rules, follows or pins would drop with a warning.
NoRuleIgnored ==
  /\ \A e \in policy.seed : ParseSeedRule(policy, e.ref) # None
  /\ \A i \in DOMAIN policy.follow :
       ParsePublisherArg(policy, policy.follow[i].publisher) # None
  /\ \A r \in policy.pin : ParseSeedRule(policy, r) # None

Reloaded(p) == Load(Save(p))

AtLeast(w, mode) == w.full \/ (mode # Full /\ w.last >= mode)

\* What a request asks for is in force once it is accepted, and after a
\* restart: a followed publisher has the mode, though several entries may mean
\* it; a seeded image is in the window; a pinned release is pinned.
AskedIsInForce ==
  /\ \A s \in Slot, m \in Mode : \A a \in Answer(s) :
       LET q == DaemonFollow(policy, s, m, a)
       IN  q # None => FollowMode(Reloaded(q), ResolvePublisherRule(policy, s, a)) = m
  /\ \A r \in Written : \A a \in Answer(r.slot) :
       LET i == ResolveRule(policy, r, a).image
           p == DaemonPin(policy, r, a)
       IN  /\ p # None => IsPinned(Reloaded(p), i.publisher, i.name, i.tag)
           /\ \A m \in Mode :
                LET q == DaemonSeed(policy, r, m, a)
                    w == PolicyWindow(Reloaded(q), i.publisher, i.name)
                IN  q # None => IF r.tag = None THEN AtLeast(w, m)
                                ELSE r.tag \in w.tags

\* After unseed or unfollow no rule for what was named is left, in whatever
\* form it was written, though the lookup may answer another key by now.
RemovedIsGone ==
  /\ \A s \in Slot : \A a \in Answer(s) :
       LET q == DaemonUnfollow(policy, s, a)
       IN  q # None => /\ FollowMode(q, ParsePublisherArg(policy, s)) = None
                       /\ \A i \in DOMAIN q.follow : q.follow[i].publisher # s
  /\ \A r \in Written : \A a \in Answer(r.slot) :
       LET q == DaemonUnseed(policy, r, a)
           i == ParseSeedRule(policy, r)
       IN  q # None =>
             \A e \in SeedRules(q) :
               LET j == ParseSeedRule(q, e.ref)
               IN  j.publisher = i.publisher /\ j.name = i.name =>
                     i.tag \notin {None, j.tag}

\* An accepted seed or pin changes the window of the image it names only,
\* unless it records another key for its zone: then of images of the old and
\* of the new key.
OnlyWhatWasAsked ==
  \A r \in Written : \A a \in Answer(r.slot) :
    LET i == ResolveRule(policy, r, a).image
        Moved == IF IsDomainName(r.slot) /\ ParsePublisherArg(policy, r.slot) # a
                 THEN {a, ParsePublisherArg(policy, r.slot)} ELSE {}
    IN  \A q \in {DaemonSeed(policy, r, m, a) : m \in Mode}
                   \cup {DaemonPin(policy, r, a)} :
          q # None =>
            \A k \in Key \ Moved, n \in AnyName :
              PolicyWindow(q, k, n) # PolicyWindow(policy, k, n) =>
                k = i.publisher /\ n = i.name

\* The texts of the seed rules and pins.
RuleTexts(p) == {e.ref : e \in p.seed} \cup p.pin

IsPublisherAlias(p, s) == s.of \in DOMAIN p.alias /\ p.alias[s.of].name = None

\* The policies after a request that names the zone s and looked it up as k.  A
\* follow of an alias looks nothing up.
Recorded(p, s, k) ==
  {q \in {DaemonSeed(p, r, m, k) : r \in {w \in Written : w.slot = s}, m \in Mode}
           \cup {DaemonPin(p, r, k) : r \in {w \in Written : w.slot = s}}
           \cup {DaemonFollow(p, s, m, k) : m \in IF IsPublisherAlias(p, s) THEN {} ELSE Mode} :
     q # None}

\* A pull by the text of a rule reaches the image the rule replicates when its
\* zone has no record, or the record that was looked up for the rule, whatever
\* aliases were tracked; a record that names another key by now leads to that
\* publisher's image of the name and nowhere else.  From the next seed, pin or
\* follow that names the zone every rule of the zone is what its text pulls.
PullsFollowTheRecord ==
  /\ \A r \in RuleTexts(policy) : \A a \in Answer(r.slot) :
       ResolveImageRef(policy, r, a) =
         [ParseSeedRule(policy, r) EXCEPT !.publisher = IF a = None THEN @ ELSE a]
  /\ \A s \in {w \in Slot : IsDomainName(w)} : \A a \in Answer(s) \ {None} :
       \A q \in Recorded(policy, s, a) : \A r \in RuleTexts(q) :
         r.slot = s => ResolveImageRef(q, r, a) = ParseSeedRule(q, r)

\* A publisher may be given as an alias wherever it may be given as a key
\* (README.md: "`<publisher>` is hex, `did:key`, an alias, or a DNS publisher
\* name"; node.rs, resolve_publisher_rule: "hex, did:key, alias, or a DNS
\* publisher name").
AliasIsAccepted ==
  \A w \in DOMAIN policy.alias \cap Word, m \in Mode :
    policy.alias[w].name = None =>
      DaemonFollow(policy, [form |-> "word", of |-> w], m, None) # None

\* A mapping is a key that a verified lookup of the zone answered (config.rs:
\* "Record the publisher a domain resolved to").
MappingVerified ==
  \A z \in DOMAIN policy.dns : policy.dns[z] \in Published[z]

\* unpin leaves the release without a pin.
UnpinnedIsGone ==
  \A r \in Written : \A a \in Answer(r.slot) :
    LET q == DaemonUnpin(policy, r, a)
        i == ParseSeedRule(policy, r)
    IN  q # None => ~IsPinned(q, i.publisher, i.name, i.tag)
=============================================================================
