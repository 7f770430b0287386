-------------------------------- MODULE RuleBook --------------------------------
(***************************************************************************)
(* The rules of the database: RulesService, which operators call through   *)
(* api/routes/rules.py and the sender calls with the seed file when it     *)
(* starts, and RuleEngineProcessor, which applies the rules to messages    *)
(* and counts their hits.                                                  *)
(*                                                                         *)
(* An update reads a rule, validates the merged rule and writes the        *)
(* columns that differ from the ones read; nothing locks the row, and      *)
(* what others commit meanwhile stays.  The worker of the sender reads     *)
(* groups, rules and counters in statements of their own.                  *)
(*                                                                         *)
(* Names of groups are unique by a constraint; a call that breaks it       *)
(* raises and changes nothing, so groups go without names here.            *)
(***************************************************************************)
EXTENDS TextRules

CONSTANTS
  RuleId,          \* ids of rules, in the order they are assigned
  Group, NoGroup,
  Message, Content, \* messages, and what the processors receive of each
  Worker, Request, \* tasks that apply rules; slots of operators' calls
  Payload,         \* rules that operators write
  Import,          \* lists of rules that they import
  Patch,           \* partial rules that they patch with
  DefaultRow,      \* the columns of a rule that a payload leaves out
  SeedFile,        \* the items of config/rules.yaml
  InitialRules, InitialGroups, \* rows there are at the start
  MaxRequests, MaxPasses, MaxStarts  \* bounds

\* The columns of a rule, and what they hold.
Column ==
  [is |-> {"row"}, name |-> STRING, enabled |-> BOOLEAN, priority |-> Int, type |-> STRING,
   match |-> STRING, pattern |-> Seq(STRING), replacement |-> Seq(STRING),
   caseSensitive |-> BOOLEAN, wholeWord |-> BOOLEAN, useRegex |-> BOOLEAN,
   sources |-> SUBSET STRING, targets |-> SUBSET STRING, types |-> SUBSET STRING,
   action |-> STRING, stop |-> BOOLEAN, group |-> Group \cup {NoGroup}]

Columns(p) ==
  DOMAIN p \subseteq DOMAIN Column /\ \A c \in DOMAIN p : p[c] \in Column[c]

Row(row) == Columns(row) /\ DOMAIN row = DOMAIN Column

\* A rule with what a partial one says otherwise.
Over(patch, row) ==
  [c \in DOMAIN patch \cup DOMAIN row |-> IF c \in DOMAIN patch THEN patch[c] ELSE row[c]]

Items == Payload \cup Range(SeedFile) \cup UNION {Range(l) : l \in Import}

ASSUME RuleAssumption ==
  /\ RuleId \subseteq Nat /\ Request \subseteq Nat /\ Worker \subseteq Nat
  /\ IsFiniteSet(RuleId)
  /\ \A p \in Items : Row(Over(p, DefaultRow)) /\ Columns(p)
  /\ \A p \in Patch : Columns(p)
  /\ Columns(DefaultRow)
  /\ SeedFile \in Seq(Items) /\ Import \subseteq Seq(Items) \ {<<>>}
  /\ \A i \in DOMAIN InitialRules :
       /\ Row(InitialRules[i]) /\ ValidRule(InitialRules[i])
       /\ LET g == InitialRules[i].group IN g # NoGroup => InitialGroups[g].is = "row"
  /\ InitialGroups \in [Group -> {[is |-> "unused"]} \cup [is : {"row"}, enabled : BOOLEAN]]
  /\ \A m \in Message :
       LET c == Content[m] IN
       /\ {"id", "text", "entities", "api", "media"} \subseteq DOMAIN c
       /\ c.text \in Seq(STRING) /\ DOMAIN c.entities = DOMAIN c.text
       /\ \A i \in DOMAIN c.text : /\ c.entities[i] \in {NoEntity, "url", "mention"} \cup Link
                                  /\ c.entities[i] = "url" => c.text[i] \in Link
  /\ MaxRequests \in Nat /\ MaxPasses \in Nat /\ MaxStarts \in Nat
  /\ {"has", "none", "copy"} \subseteq STRING  \* so it is; the provers take it from here

VARIABLES
  rules,      \* keyword_rules
  counts,     \* hit_count of each rule
  logs,       \* rows of rule_execution_logs of each rule
  groups,     \* rule_groups
  sender,     \* the sender: seeding the rules, up, or failed
  worker,     \* the pass of each worker
  status,     \* processed_messages.status
  hash,       \* content_hash of each message that got through
  aged,       \* published messages that are older than the window of the deduplication
  request,
  begun, passes, starts,
  \* Observations.
  asked,      \* rules as operators and the seed file asked for them
  overlapped, \* rules an operation wrote that another had changed meanwhile
  contended,  \* rules whose counter another had changed meanwhile
  clean       \* messages that the check which let each one through could have met:
              \* published before it, and not older than the window

table == <<rules, counts, logs, groups>>
bounds == <<begun, passes, starts>>
seen == <<asked, overlapped, contended, clean>>
vars == <<table, sender, worker, status, hash, aged, request, bounds, seen>>

-----------------------------------------------------------------------------
Unused == [is |-> "unused"]
Gone == [is |-> "gone"]
Idle == [op |-> "idle"]
Resting == [at |-> "idle"]
NoHash == [id |-> "none", text |-> <<>>, media |-> {}]

Rows == {i \in RuleId : rules[i].is = "row"}

GroupIs(g, is) == g # NoGroup => groups[g].is = is

\* _definition_from_payload stores the mode of a rule on media, not its alias.
Defined(row) ==
  IF row.type = "has_media" THEN [row EXCEPT !.pattern = MediaMode(@)] ELSE row

\* Mutant: a flag that is not named is the default, not the one stored.
Merged_Default(row, patch) == Defined(Over(patch, [row EXCEPT !.enabled = TRUE]))

Merged(row, patch) == Defined(Over(patch, row))

\* An ORM session writes the columns whose values differ from those read.
Flushed(new, read, current) ==
  [c \in DOMAIN new |-> IF new[c] = read[c] THEN current[c] ELSE new[c]]

\* Slots are alike, and so are workers: the first free one is taken.
Free(r) ==
  /\ request[r] = Idle /\ \A q \in Request : q < r => request[q] # Idle
  /\ begun < MaxRequests

Begin(r, op) ==
  /\ Free(r)
  /\ begun' = begun + 1
  /\ request' = [request EXCEPT ![r] = op]
  /\ UNCHANGED <<table, sender, worker, status, hash, aged, passes, starts, seen>>

\* A call that is done in one transaction whose reads nothing can outdate.
AtOnce(r) ==
  /\ Free(r)
  /\ begun' = begun + 1
  /\ UNCHANGED <<sender, worker, status, hash, aged, request, passes, starts, contended, clean>>

Ends(r) ==
  /\ request' = [request EXCEPT ![r] = Idle]
  /\ UNCHANGED <<sender, worker, status, hash, aged, bounds, contended, clean>>

\* The call raises, or its process dies: the session is rolled back.
Raises(r) ==
  /\ request[r] # Idle
  /\ Ends(r)
  /\ UNCHANGED <<table, asked, overlapped>>

-----------------------------------------------------------------------------
(* Rules.                                                                  *)

Storable(row) == ValidRule(row)

New(payload) == Defined(Over(payload, DefaultRow))

\* create_rule: rows get ids in order; the group must exist when it commits.
Created(payload) ==
  /\ Storable(New(payload)) /\ GroupIs(New(payload).group, "row")
  /\ \E i \in RuleId :
       /\ rules[i] = Unused
       /\ \A j \in RuleId : j < i => rules[j] # Unused
       /\ rules' = [rules EXCEPT ![i] = New(payload)]
       /\ asked' = [asked EXCEPT ![i] = New(payload)]
  /\ UNCHANGED <<counts, logs, groups, overlapped>>

CreateRule(r, payload) == Created(payload) /\ AtOnce(r)

\* import_rules creates one item after the other and stops at one that raises.
ImportRules(r, items) == Begin(r, [op |-> "import", left |-> items])

ImportItem(r) ==
  LET q == request[r] IN
  /\ q.op = "import"
  /\ Created(Head(q.left))
  /\ request' = [request EXCEPT ![r] =
                   IF Len(q.left) = 1 THEN Idle ELSE [q EXCEPT !.left = Tail(@)]]
  /\ UNCHANGED <<sender, worker, status, hash, aged, bounds, contended, clean>>

\* update_rule up to its commit: the merged rule is validated when it is read.
PatchRule(r, i, patch) ==
  /\ i \in Rows
  /\ Storable(Merged(rules[i], patch))
  /\ Begin(r, [op |-> "patch", rule |-> i, patch |-> patch, old |-> rules[i]])

\* The commit of an update of rule i read as old.
Updated(i, old, patch) ==
  LET new == Merged(old, patch) IN
  /\ i \in Rows
  /\ new.group # old.group => GroupIs(new.group, "row")
  /\ rules' = [rules EXCEPT ![i] = Flushed(new, old, @)]
  /\ asked' = [asked EXCEPT ![i] = Defined(Over(patch, @))]
  /\ overlapped' = IF rules[i] = old THEN overlapped ELSE overlapped \cup {i}
  /\ UNCHANGED <<counts, logs, groups>>

UpdateRule(r) ==
  /\ request[r].op = "patch"
  /\ Updated(request[r].rule, request[r].old, request[r].patch)
  /\ Ends(r)

\* Its logs stay and name no rule any more.
DeleteRule(r, i) ==
  /\ i \in Rows
  /\ AtOnce(r)
  /\ rules' = [rules EXCEPT ![i] = Gone]
  /\ UNCHANGED <<counts, logs, groups, asked, overlapped>>

DuplicateRead(r, i) ==
  i \in Rows /\ Begin(r, [op |-> "duplicate", old |-> rules[i]])

\* duplicate_rule: a copy is disabled and has a name of its own.
DuplicateRule(r) ==
  /\ request[r].op = "duplicate"
  /\ Created([request[r].old EXCEPT !.name = "copy", !.enabled = FALSE])
  /\ Ends(r)

-----------------------------------------------------------------------------
(* Groups.                                                                 *)

CreateGroup(r, g, enabled) ==
  /\ groups[g] = Unused
  /\ AtOnce(r)
  /\ groups' = [groups EXCEPT ![g] = [is |-> "row", enabled |-> enabled]]
  /\ UNCHANGED <<rules, counts, logs, asked, overlapped>>

PatchGroup(r, g, enabled) ==
  /\ groups[g].is = "row"
  /\ Begin(r, [op |-> "patchGroup", group |-> g, enabled |-> enabled, old |-> groups[g]])

UpdateGroup(r) ==
  LET q == request[r] IN
  /\ q.op = "patchGroup"
  /\ groups[q.group].is = "row"
  /\ groups' = [groups EXCEPT ![q.group].enabled =
                  IF q.enabled = q.old.enabled THEN @ ELSE q.enabled]
  /\ Ends(r)
  /\ UNCHANGED <<rules, counts, logs, asked, overlapped>>

DeleteGroupRead(r, g) ==
  /\ groups[g].is = "row"
  /\ Begin(r, [op |-> "deleteGroup", group |-> g,
               members |-> {i \in Rows : rules[i].group = g}, old |-> rules])

\* Mutant: the members stay, and no foreign key holds them back.
Leaving_Nobody(q) == {}

\* Rules read as members lose their group, whichever it is by now.
Leaving(q) == q.members \cap Rows

\* delete_group; a rule that has joined since keeps the group by its foreign key.
DeleteGroup(r) ==
  LET q == request[r]
      Off(f) == [i \in RuleId |-> IF i \in Leaving(q) THEN [f[i] EXCEPT !.group = NoGroup]
                                  ELSE f[i]]
  IN
  /\ q.op = "deleteGroup"
  /\ groups[q.group].is = "row"
  /\ q.members \subseteq Rows
  /\ \A i \in Rows \ q.members : rules[i].group # q.group
  /\ rules' = Off(rules)
  /\ asked' = Off(asked)
  /\ groups' = [groups EXCEPT ![q.group] = Gone]
  /\ overlapped' = overlapped \cup {i \in q.members : rules[i] # q.old[i]}
  /\ Ends(r)
  /\ UNCHANGED <<counts, logs>>

-----------------------------------------------------------------------------
(* The seed file.                                                          *)

Named(name) == {i \in Rows : rules[i].name = name}

Starting(s) ==
  /\ sender' = s
  /\ UNCHANGED <<worker, status, hash, aged, request, bounds, contended, clean>>

Ambiguous(found) == Cardinality(found) > 1

\* sync_from_file looks an item up by its name, and raises when two rules have it.
SeedLookup ==
  /\ sender.is = "seeding" /\ sender.left # <<>>
  /\ LET found == Named(Head(sender.left).name) IN
     Starting(IF Ambiguous(found) THEN [is |-> "failed"]
              ELSE IF found = {} THEN [is |-> "creating", left |-> sender.left]
              ELSE [is |-> "reading", left |-> sender.left, rule |-> CHOOSE i \in found : TRUE])
  /\ UNCHANGED <<table, asked, overlapped>>

SeedNext == [is |-> "seeding", left |-> Tail(sender.left)]

\* An item is a rule that can be created; it has no group.
SeedCreate ==
  /\ sender.is = "creating"
  /\ Created(Head(sender.left))
  /\ Starting(SeedNext)

\* Whether the merged rule is valid depends on what operators made of the columns
\* that the item leaves out.
SeedRead ==
  /\ sender.is = "reading"
  /\ Starting(IF sender.rule \in Rows /\ Storable(Merged(rules[sender.rule], Head(sender.left)))
              THEN [is |-> "updating", left |-> sender.left, rule |-> sender.rule,
                    old |-> rules[sender.rule]]
              ELSE [is |-> "failed"])
  /\ UNCHANGED <<table, asked, overlapped>>

SeedUpdate ==
  /\ sender.is = "updating"
  /\ IF sender.rule \in Rows
     THEN Updated(sender.rule, sender.old, Head(sender.left)) /\ Starting(SeedNext)
     ELSE Starting([is |-> "failed"]) /\ UNCHANGED <<table, asked, overlapped>>

Started ==
  /\ sender.is = "seeding" /\ sender.left = <<>>
  /\ Starting([is |-> "up"])
  /\ UNCHANGED <<table, asked, overlapped>>

\* The container starts again; recovery takes up what the sender was processing.
Restarts ==
  /\ sender' = [is |-> "seeding", left |-> SeedFile]
  /\ worker' = [w \in Worker |-> Resting]
  /\ status' = [m \in Message |-> IF status[m] = "processing" THEN "received" ELSE status[m]]
  /\ UNCHANGED <<table, hash, aged, request, begun, passes, seen>>

Restart == sender.is = "failed" /\ Restarts /\ UNCHANGED starts

Crash ==
  /\ sender.is # "failed" /\ starts < MaxStarts
  /\ starts' = starts + 1
  /\ Restarts

-----------------------------------------------------------------------------
(* Applying the rules.                                                     *)

Pass(w, p) == worker' = [worker EXCEPT ![w] = p]

\* The processors before the rules; the first SELECT of load_enabled_rules.
Filter(w, m) ==
  /\ sender.is = "up" /\ passes < MaxPasses
  /\ worker[w] = Resting /\ \A v \in Worker : v < w => worker[v] # Resting
  /\ status[m] = "received"
  /\ passes' = passes + 1
  /\ IF KeywordDrop(Content[m].text)
     THEN status' = [status EXCEPT ![m] = "filtered"] /\ UNCHANGED worker
     ELSE /\ status' = [status EXCEPT ![m] = "processing"]
          /\ Pass(w, [at |-> "groups", m |-> m, in |-> LinkFiltered(TextReplaced(Content[m])),
                      groups |-> {g \in Group : groups[g].is = "row" /\ groups[g].enabled}])
  /\ UNCHANGED <<table, sender, hash, aged, request, begun, starts, seen>>

\* Enabled rules without a group, or of a group that was enabled when groups were read.
Loaded(p) ==
  {i \in Rows : rules[i].enabled
                /\ (rules[i].group = NoGroup \/ rules[i].group \in p.groups)}

Definition(i) == Over([id |-> i], rules[i])

\* The second SELECT, and apply_rules; the clock decides which expressions are slow.
Apply(w) ==
  LET p == worker[w]
      loaded == {Definition(i) : i \in Loaded(p)}
  IN
  /\ p.at = "groups"
  /\ \E slow \in {{}, {d.id : d \in {e \in loaded : UsesRegex(e)}}} :
       Pass(w, [at |-> "applied", m |-> p.m, in |-> p.in, rules |-> loaded, slow |-> slow,
                out |-> ApplyRules(loaded, p.in, Content[p.m], slow)])
  /\ UNCHANGED <<table, sender, status, hash, aged, request, bounds, seen>>

HitBy(p) == {p.out.hits[k].rule : k \in DOMAIN p.out.hits}

\* The session that logs the hits reads each rule for its counter.
ReadCounts(w) ==
  LET p == worker[w] IN
  /\ p.at = "applied" /\ p.out.hits # <<>>
  /\ Pass(w, [at |-> "counting", m |-> p.m, out |-> p.out, read |-> counts])
  /\ UNCHANGED <<table, sender, status, hash, aged, request, bounds, seen>>

HitsOf(i, hits) ==
  LET sum[n \in 0..Len(hits)] ==
        IF n = 0 THEN 0
        ELSE sum[n - 1] + IF hits[n].rule = i THEN hits[n].count ELSE 0
  IN sum[Len(hits)]

\* Mutant: a rule counts once per message.
TimesHit_Once(p, i) == IF i \in HitBy(p) THEN 1 ELSE 0

TimesHit(p, i) == HitsOf(i, p.out.hits)

\* A log row for each hit, and hit_count += 1 on the value read.  A log cannot name a
\* rule that is deleted by then: the whole pass raises.
RecordHits(w) ==
  LET p == worker[w] IN
  /\ p.at = "counting"
  /\ IF HitBy(p) \subseteq Rows
     THEN /\ logs' = [i \in RuleId |-> logs[i] + HitsOf(i, p.out.hits)]
          /\ counts' = [i \in RuleId |->
                          IF i \in HitBy(p) THEN p.read[i] + TimesHit(p, i) ELSE counts[i]]
          /\ contended' = contended \cup {i \in HitBy(p) : counts[i] # p.read[i]}
          /\ Pass(w, [at |-> "recorded", m |-> p.m, out |-> p.out])
     ELSE Pass(w, Resting) /\ UNCHANGED <<counts, logs, contended>>
  /\ UNCHANGED <<rules, groups, sender, status, hash, aged, request, bounds, asked, overlapped, clean>>

Published == {m \in Message : status[m] = "published"}

\* The verdict of the rules; then footer and deduplication, which asks for published
\* content with the same hash in rows not older than the window.  Reviews and publishing
\* go on elsewhere.
Decide(w) ==
  LET p == worker[w]
      h == HashOf(Content[p.m], WithFooter(p.out.text, Content[p.m].type))
      recent == Published \ aged
      same == {m \in recent : hash[m] = h}
      verdict == IF p.out.reject THEN "filtered"
                 ELSE IF p.out.review THEN "review"
                 ELSE IF same # {} THEN "filtered" ELSE "passed"
  IN
  /\ p.at = "recorded" \/ (p.at = "applied" /\ p.out.hits = <<>>)
  /\ status' = [status EXCEPT ![p.m] = verdict]
  /\ hash' = [hash EXCEPT ![p.m] = h]
  /\ clean' = [clean EXCEPT ![p.m] = IF verdict = "passed" THEN recent ELSE {}]
  /\ Pass(w, Resting)
  /\ UNCHANGED <<table, sender, aged, request, bounds, asked, overlapped, contended>>

\* A message that got through, or whose review is approved, is published.
Publish(m) ==
  /\ sender.is = "up" /\ status[m] \in {"passed", "review"}
  /\ status' = [status EXCEPT ![m] = "published"]
  /\ UNCHANGED <<table, sender, worker, hash, aged, request, bounds, seen>>

\* duplicate_content_window_hours have passed since the row was created.  Nobody asks
\* for the age of a row before it is published.
Age(m) ==
  /\ m \in Published \ aged
  /\ aged' = aged \cup {m}
  /\ UNCHANGED <<table, sender, worker, status, hash, request, bounds, seen>>

-----------------------------------------------------------------------------
Init ==
  /\ rules = [i \in RuleId |-> IF i \in DOMAIN InitialRules THEN InitialRules[i] ELSE Unused]
  /\ asked = rules
  /\ groups = InitialGroups
  /\ counts = [i \in RuleId |-> 0] /\ logs = counts
  /\ sender = [is |-> "seeding", left |-> SeedFile]
  /\ worker = [w \in Worker |-> Resting]
  /\ status = [m \in Message |-> "received"]
  /\ hash = [m \in Message |-> NoHash] /\ aged = {}
  /\ request = [r \in Request |-> Idle]
  /\ begun = 0 /\ passes = 0 /\ starts = 0
  /\ overlapped = {} /\ contended = {}
  /\ clean = [m \in Message |-> {}]

\* The handlers of api/routes/rules.py, and what follows their first transaction.
CreateRoutes(r) ==
  \/ \E p \in Payload : CreateRule(r, p)
  \/ \E l \in Import : ImportRules(r, l)
  \/ ImportItem(r)

RuleRoutes(r) ==
  \/ \E i \in RuleId :
       \/ \E p \in Patch : PatchRule(r, i, p)
       \/ DeleteRule(r, i) \/ DuplicateRead(r, i)
  \/ UpdateRule(r) \/ DuplicateRule(r)

GroupRoutes(r) ==
  \/ \E g \in Group :
       \/ \E e \in BOOLEAN : CreateGroup(r, g, e) \/ PatchGroup(r, g, e)
       \/ DeleteGroupRead(r, g)
  \/ UpdateGroup(r) \/ DeleteGroup(r)

Operators(r) == CreateRoutes(r) \/ RuleRoutes(r) \/ GroupRoutes(r) \/ Raises(r)

Seeding == SeedLookup \/ SeedCreate \/ SeedRead \/ SeedUpdate \/ Started

Works(w) ==
  \/ \E m \in Message : Filter(w, m)
  \/ Apply(w) \/ ReadCounts(w) \/ RecordHits(w) \/ Decide(w)

Next ==
  \/ \E r \in Request : Operators(r)
  \/ Seeding \/ Restart \/ Crash
  \/ \E w \in Worker : Works(w)
  \/ \E m \in Message : Publish(m) \/ Age(m)

Spec == Init /\ [][Next]_vars

-----------------------------------------------------------------------------
(* What must hold.                                                         *)

\* Every row is complete, and every task is in one of its states.
TypeOK ==
  /\ \A i \in RuleId : rules[i] \in {Unused, Gone} \/ Row(rules[i])
  /\ counts \in [RuleId -> Nat] /\ logs \in [RuleId -> Nat]
  /\ \A g \in Group : groups[g] \in {Unused, Gone} \/ groups[g].enabled \in BOOLEAN
  /\ sender.is \in {"seeding", "creating", "reading", "updating", "up", "failed"}
  /\ \A w \in Worker : worker[w].at \in {"idle", "groups", "applied", "counting", "recorded"}
  /\ \A m \in Message :
       status[m] \in {"received", "processing", "filtered", "review", "passed", "published"}

\* A rule in the table is one that the validation accepts, although only the merge of
\* a patch with an earlier read of the rule was ever validated; two overlapping patches
\* that are valid each can leave one that is not.
StoredAreValid == \A i \in Rows : i \notin overlapped => ValidRule(rules[i])

\* No rule names a group that is deleted: it would never be loaded again.
NoLostGroup == \A i \in Rows : GroupIs(rules[i].group, "row")

\* The table can be loaded and applied, whatever overlaps: its rows are complete, valid
\* and in groups that exist.
WellFormed == TypeOK /\ StoredAreValid /\ NoLostGroup

\* An operator's change of a rule, or the seed file's, survives every other call unless
\* the two overlapped on that rule: a patch keeps the columns it does not name
\* (update_rule), and applying rules and deleting groups touches nothing else.
PatchesSurvive == \A i \in Rows : i \notin overlapped => rules[i] = asked[i]

\* hit_count is the number of log rows of the rule unless two sessions counted at once,
\* and never more: a counter may lose hits, an edit of the rule never does.
HitsAreCounted ==
  \A i \in Rows : counts[i] <= logs[i] /\ (i \notin contended => counts[i] = logs[i])

\* The engine follows the order of the rules: the first hit of a rule that rejects or
\* stops is the last hit, rejecting wins over review, and as long as nothing rewrote the
\* text every rule that did not hit before the end does not match it.
EngineKeepsOrder ==
  \A w \in Worker : worker[w].at = "applied" =>
    LET p == worker[w]
        m == Content[p.m]
        hits == p.out.hits
        D(i) == CHOOSE d \in p.rules : d.id = i
        Stops(d) == d.stop \/ d.action = "reject"
        Rewrites(d) == d.action \in {"replace", "remove"}
        Passed(d) == hits = <<>> \/ ~Stops(D(Last(hits).rule)) \/ Before(d, D(Last(hits).rule))
    IN /\ \A k \in 1..Len(hits) - 1 :
            /\ Before(D(hits[k].rule), D(hits[k + 1].rule))
            /\ ~Stops(D(hits[k].rule))
       /\ p.out.reject = (hits # <<>> /\ D(Last(hits).rule).action = "reject")
       /\ p.out.review = \E k \in DOMAIN hits : D(hits[k].rule).action = "require_review"
       /\ (\A k \in DOMAIN hits : ~Rewrites(D(hits[k].rule))) =>
            /\ p.out.text = p.in
            /\ \A d \in p.rules :
                 /\ RuleApplies(d, m) /\ ValidRule(d) /\ Passed(d) /\ d.id \notin HitBy(p)
                 => IF d.type = "has_media" THEN MediaHits(d, m.type, m.count) = <<>>
                    ELSE Matches(p.in, d, p.slow) = <<>>

\* A URL that the settings do not ask to remove.
Spared(u) ==
  IF Settings.removeAll THEN DomainOf[u] \in Settings.allowedDomains
  ELSE /\ u \in Invite => ~Settings.removeInvites
       /\ DomainOf[u] \notin Settings.blockedDomains
       /\ u \in OwnLink => ~Settings.removeSource
       /\ \/ Settings.blockedDomains # {} \/ Settings.removeInvites \/ Settings.allowedDomains = {}
          \/ DomainOf[u] \in Settings.allowedDomains \cup {""}

\* No entity of the links of content c is missing, and no replacement forgets them.
EntitiesTell(c) ==
  /\ AllReplaced(c.text) = c.text
  /\ \A i \in DOMAIN c.text : c.text[i] \in Link => c.entities[i] = "url"

\* What may be left of content c where x stands.
MayPass(x, c) ==
  /\ x \in Mention \cap OwnLink => ~Settings.removeSource
  /\ x \in Mention \ Short => ~Settings.removeAll \/ Settings.allowedDomains # {}
  /\ x \in Link => Spared(x) \/ (x \in Bare /\ ~EntitiesTell(c))

Plain(r, i) == r.text[i] \notin Link \cup Mention /\ r.entities[i] = NoEntity

Hides(r, i) == r.entities[i] \in Link /\ ~Spared(r.entities[i])

\* What the settings remove gets past the link filter in two ways only: a mention of
\* fewer than five characters when all links go, and a link that no regular expression
\* sees, if a replacement changed the text and forgot its entities or the link had none of
\* its own.  The symbol that a link hides behind goes with it unless the entities are
\* forgotten, and what neither is nor hides a link or mention is never lost.
LinksAreRemoved ==
  \A w \in Worker : worker[w].at = "groups" =>
    LET p == worker[w]
        c == Content[p.m]
        r == TextReplaced(c)
    IN
    /\ \A i \in DOMAIN p.in : MayPass(p.in[i], c)
    /\ Cardinality({i \in DOMAIN r.text : Plain(r, i)}) <= Len(p.in)
    /\ Len(p.in) <= Cardinality({i \in DOMAIN r.text : ~Hides(r, i)})

\* A message gets through the deduplication only when no message of the same content
\* was published before its check and within the window: two of them are both published
\* when their passes overlap, when a review lets one through, or when the first one's row
\* is older than duplicate_content_window_hours by then, and never otherwise.
DuplicatesOverlapped ==
  \A m, n \in Published :
    /\ [Content[m] EXCEPT !.id = n] = Content[n] /\ ~Content[n].api
    /\ hash[m].text = hash[n].text
    => m \notin clean[n]

=============================================================================
