--------------------------- MODULE ChannelRegistry ----------------------------
(***************************************************************************)
(* The registry of sources, targets and their bindings: ChannelService as  *)
(* the handlers of api/routes/channels.py, the sender's commands and its   *)
(* registration of SafeW conversations call it.                            *)
(*                                                                         *)
(* An operation reads rows, may await the messenger, and commits columns   *)
(* it has changed; several operations run at once and nothing locks a row  *)
(* between the read and the commit.  An operation that raises before its   *)
(* commit changes nothing: only those that get further are actions.        *)
(*                                                                         *)
(* A deleted row is not registered again here: the new row would have an   *)
(* id of its own.                                                          *)
(***************************************************************************)
EXTENDS Naturals, FiniteSets, Sequences, SequencesExt

CONSTANTS
  Source, Target, Api,        \* ids of rows; every endpoint of Api exists
  TgSource, TgTarget,         \* those that are chats of the Telegram account
  Request,                    \* slots of concurrent operations
  HasClient,                  \* TRUE: monolith, FALSE: web without a listener
  Registrations,              \* sets of rows there may be at the start
  NoTarget, NoApi,            \* no id; an id that names no endpoint
  MaxRequests, MaxMoves       \* bounds: operations, changes of the account

ASSUME RegistryAssumption ==
  /\ TgSource \subseteq Source /\ TgTarget \subseteq Target
  /\ Source \cap Target = {} /\ IsFiniteSet(Target)
  /\ NoTarget \notin Target /\ NoApi \notin Api
  /\ HasClient \in BOOLEAN
  /\ Registrations \subseteq SUBSET (Source \cup Target)
  /\ MaxRequests \in Nat /\ MaxMoves \in Nat

VARIABLES
  source,    \* rows of source_channels
  target,    \* rows of target_channels
  links,     \* source_target_links of each source in the order of their ids
  apiLinks,  \* source_api_endpoint_links
  dialogs,   \* chats the account can read
  cached,    \* sources the sender's ChannelService knows
  request,   \* the operation in each slot
  begun, moves,
  \* Observations.
  asked,     \* destinations the operators asked for, per source
  askedApis,
  overlapped, \* rows an operation wrote that another had changed meanwhile
  torn       \* new sources whose links are not committed

rows == <<source, target, links, apiLinks>>
seen == <<asked, askedApis, overlapped, torn>>
vars == <<rows, dialogs, cached, request, begun, moves, seen>>

-----------------------------------------------------------------------------
Access == {"unknown", "ok", "missing"}

SourceRow == [is : {"unused", "row", "gone"}, enabled : BOOLEAN,
              access : Access, legacy : Target \cup {NoTarget}]

TargetRow == [is : {"unused", "row", "gone"}, enabled : BOOLEAN,
              access : Access, permission : Access \cup {"error"}]

Chats == TgSource \cup TgTarget

\* Lists of targets without repetition.
Lists == UNION {{l \in [1..n -> Target] : \A i, j \in 1..n : l[i] = l[j] => i = j}
                : n \in 0..Cardinality(Target)}

FirstOf(l) == IF l = <<>> THEN NoTarget ELSE Head(l)

\* The members of S in a list, in its order.
Only(l, S) ==
  LET only[n \in 0..Len(l)] ==
        IF n = 0 THEN <<>>
        ELSE IF l[n] \in S THEN Append(only[n - 1], l[n]) ELSE only[n - 1]
  IN only[Len(l)]

Without(l, T) == Only(l, Target \ T)

Idle == [op |-> "idle"]

Configured == {s \in Source : source[s].is = "row"}

Registered == {t \in Target : target[t].is = "row"}

\* The rows as an operation reads them.
Snapshot == [source |-> source, target |-> target, links |-> links, apiLinks |-> apiLinks]

\* Rows that have changed since operation r read them.
Stale(r) ==
  LET old == request[r].old
  IN {s \in Source : \/ source[s] # old.source[s] \/ links[s] # old.links[s]
                     \/ apiLinks[s] # old.apiLinks[s]}
     \cup {t \in Target : target[t] # old.target[t]}

\* An ORM session writes a column only when its value differs from the one read.
Flush(new, read, current) == IF new = read THEN current ELSE new

Free(r) == request[r] = Idle /\ begun < MaxRequests

Begin(r, op) ==
  /\ Free(r)
  /\ begun' = begun + 1
  /\ request' = [request EXCEPT ![r] = op]
  /\ UNCHANGED <<rows, dialogs, cached, moves, seen>>

End(r) == request' = [request EXCEPT ![r] = Idle]

\* Operation r commits and wrote the rows of W.
Commit(r, W) ==
  /\ End(r)
  /\ overlapped' = overlapped \cup (W \cap Stale(r))
  /\ UNCHANGED <<dialogs, cached, begun, moves>>

\* The operation raises, its session is rolled back, or its process dies.
Fails(r) ==
  /\ End(r)
  /\ UNCHANGED <<rows, dialogs, cached, begun, moves, seen>>

\* What _resolve_access may find: without a client nothing, and a chat that the
\* account can read may fail to answer.
Found(x) ==
  IF ~HasClient THEN {"unknown"}
  ELSE {"missing"} \cup (IF x \in dialogs THEN {"ok"} ELSE {})

FoundSource(s) == IF s \in TgSource THEN Found(s) ELSE {"ok"}

FoundTarget(t) == IF t \in TgTarget THEN Found(t) ELSE {"unknown"}

-----------------------------------------------------------------------------
\* create_source commits the row first and the links in a second transaction.
CreateSource(r, s, want, refs) ==
  /\ Free(r)
  /\ source[s].is = "unused"
  /\ \E access \in FoundSource(s) :
       source' = [source EXCEPT ![s] =
         [is |-> "row", enabled |-> want /\ access # "missing", access |-> access,
          legacy |-> FirstOf(Only(refs, Registered))]]
  /\ begun' = begun + 1
  /\ request' = IF refs = <<>> THEN request
                ELSE [request EXCEPT ![r] = [op |-> "link", s |-> s, refs |-> refs]]
  /\ torn' = IF refs = <<>> THEN torn ELSE torn \cup {s}
  /\ UNCHANGED <<target, links, apiLinks, dialogs, cached, moves, asked, askedApis, overlapped>>

\* _replace_source_links reads the targets named, the links of the source and the
\* source; set_source_endpoints and set_source_destinations also the endpoints.
ReplaceRead(s, refs, apis, parts) ==
  [op |-> "replace", s |-> s, apis |-> apis, parts |-> parts, old |-> Snapshot,
   chosen |-> Only(refs, Registered)]

CreateSourceLinks(r) ==
  /\ request[r].op = "link"
  /\ request' = [request EXCEPT ![r] =
                   ReplaceRead(request[r].s, request[r].refs, {}, {"targets"})]
  /\ UNCHANGED <<rows, dialogs, cached, begun, moves, seen>>

PutTargets(r, s, refs) ==
  source[s].is = "row" /\ Begin(r, ReplaceRead(s, refs, {}, {"targets"}))

PutApiEndpoints(r, s, apis) ==
  source[s].is = "row" /\ Begin(r, ReplaceRead(s, <<>>, apis, {"apis"}))

\* set_source_destinations refuses unknown targets at once, unknown endpoints late.
PutDestinations(r, s, refs, apis) ==
  /\ source[s].is = "row"
  /\ \A i \in DOMAIN refs : target[refs[i]].is = "row"
  /\ Begin(r, ReplaceRead(s, refs, apis, {"targets", "apis"}))

\* Mutant: links that are no longer chosen stay.
NewLinks_Kept(q) ==
  IF "targets" \in q.parts
  THEN links[q.s] \o Without(q.chosen, ToSet(links[q.s])) ELSE links[q.s]

\* The links read are deleted, the chosen targets linked behind what is left.
NewLinks(q) ==
  IF "targets" \in q.parts
  THEN Without(links[q.s], ToSet(q.old.links[q.s])) \o q.chosen
  ELSE links[q.s]

\* The DELETE of API links sees those read, or also those that others committed
\* meanwhile; it does so when it had to wait for the rows of a stale link.
KeptApis(q) ==
  IF "apis" \notin q.parts THEN {apiLinks[q.s]}
  ELSE {{}} \cup IF ToSet(q.old.links[q.s]) \subseteq ToSet(links[q.s])
                 THEN {apiLinks[q.s] \ q.old.apiLinks[q.s]} ELSE {}

\* Mutant: no foreign key on the target of a link.
ReplaceAllowed_NoForeignKey(q) ==
  /\ IsInjective(NewLinks(q))
  /\ (q.chosen # <<>> \/ q.apis # {}) => source[q.s].is = "row"
  /\ NoApi \notin q.apis

\* Foreign keys: both rows must be there; uq_source_target_link: no link twice.
ReplaceAllowed(q) ==
  /\ IsInjective(NewLinks(q))
  /\ \A i \in DOMAIN q.chosen : target[q.chosen[i]].is = "row"
  /\ (q.chosen # <<>> \/ q.apis # {}) => source[q.s].is = "row"
  /\ NoApi \notin q.apis

Replace(r) ==
  LET q == request[r]
      legacy == Flush(FirstOf(q.chosen), q.old.source[q.s].legacy, source[q.s].legacy)
  IN
  /\ q.op = "replace"
  /\ ReplaceAllowed(q)
  /\ \E kept \in KeptApis(q) :
       /\ kept \cap q.apis = {}
       /\ apiLinks' = [apiLinks EXCEPT ![q.s] = kept \cup q.apis]
  /\ links' = [links EXCEPT ![q.s] = NewLinks(q)]
  /\ source' = IF "targets" \in q.parts /\ source[q.s].is = "row"
               THEN [source EXCEPT ![q.s].legacy = legacy] ELSE source
  /\ asked' = IF "targets" \in q.parts
              THEN [asked EXCEPT ![q.s] = ToSet(q.chosen)] ELSE asked
  /\ askedApis' = IF "apis" \in q.parts
                  THEN [askedApis EXCEPT ![q.s] = q.apis] ELSE askedApis
  /\ torn' = IF "targets" \in q.parts THEN torn \ {q.s} ELSE torn
  /\ Commit(r, {q.s})
  /\ UNCHANGED target

-----------------------------------------------------------------------------
PatchSource(r, s, want) ==
  source[s].is = "row"
    /\ Begin(r, [op |-> "patchSource", s |-> s, want |-> want, old |-> Snapshot])

\* Mutant: the recorded access is not looked at.
SourceAccess_NoProbe(q) == {q.old.source[q.s].access}

\* update_source: to enable a source that was missing takes a new probe.
SourceAccess(q) ==
  IF ~q.want THEN {q.old.source[q.s].access}
  ELSE IF q.s \notin TgSource THEN {"ok"}
  ELSE IF q.old.source[q.s].access = "missing" THEN Found(q.s) \ {"missing"}
  ELSE {q.old.source[q.s].access}

UpdateSource(r) ==
  LET q == request[r]
      read == q.old.source[q.s]
      row == source[q.s]
  IN
  /\ q.op = "patchSource"
  /\ row.is = "row"
  /\ \E access \in SourceAccess(q) :
       source' = [source EXCEPT ![q.s] =
         [row EXCEPT !.enabled = Flush(q.want, read.enabled, row.enabled),
                     !.access = Flush(access, read.access, row.access)]]
  /\ Commit(r, {q.s})
  /\ UNCHANGED <<target, links, apiLinks, asked, askedApis, torn>>

CreateTarget(r, t, want) ==
  /\ Free(r)
  /\ target[t].is = "unused"
  /\ \E access \in FoundTarget(t) :
       target' = [target EXCEPT ![t] =
         [is |-> "row", enabled |-> want /\ access # "missing", access |-> access,
          permission |-> "unknown"]]
  /\ begun' = begun + 1
  /\ UNCHANGED <<source, links, apiLinks, dialogs, cached, request, moves, seen>>

PatchTarget(r, t, want) ==
  target[t].is = "row"
    /\ Begin(r, [op |-> "patchTarget", t |-> t, want |-> want, old |-> Snapshot])

TargetAccess(q) ==
  IF q.want /\ q.t \in TgTarget /\ q.old.target[q.t].access = "missing"
  THEN Found(q.t) \ {"missing"}
  ELSE {q.old.target[q.t].access}

UpdateTarget(r) ==
  LET q == request[r]
      read == q.old.target[q.t]
      row == target[q.t]
  IN
  /\ q.op = "patchTarget"
  /\ row.is = "row"
  /\ \E access \in TargetAccess(q) :
       target' = [target EXCEPT ![q.t] =
         [row EXCEPT !.enabled = Flush(q.want, read.enabled, row.enabled),
                     !.access = Flush(access, read.access, row.access)]]
  /\ Commit(r, {q.t})
  /\ UNCHANGED <<source, links, apiLinks, asked, askedApis, torn>>

-----------------------------------------------------------------------------
\* The API links are deleted by the code, the others by ON DELETE CASCADE.
DeleteSource(r, s) ==
  /\ Free(r)
  /\ source[s].is = "row"
  /\ source' = [source EXCEPT ![s].is = "gone"]
  /\ links' = [links EXCEPT ![s] = <<>>]
  /\ apiLinks' = [apiLinks EXCEPT ![s] = {}]
  /\ begun' = begun + 1
  /\ asked' = [asked EXCEPT ![s] = {}]
  /\ askedApis' = [askedApis EXCEPT ![s] = {}]
  /\ UNCHANGED <<target, dialogs, cached, request, moves, overlapped, torn>>

DropTarget(r, t) ==
  target[t].is = "row" /\ Begin(r, [op |-> "dropTarget", t |-> t, old |-> Snapshot])

\* Mutant: the legacy column is not recomputed.
Affected_None(q) == {}

\* Sources whose link or legacy column names the target when delete_target looks.
Affected(q) ==
  {s \in Source : \/ q.t \in ToSet(q.old.links[s])
                  \/ q.old.source[s].is = "row" /\ q.old.source[s].legacy = q.t}

DeleteTarget(r) ==
  LET q == request[r]
      left(s) == Without(links[s], {q.t})
  IN
  /\ q.op = "dropTarget"
  /\ target' = [target EXCEPT ![q.t].is = "gone"]
  /\ links' = [s \in Source |-> left(s)]
  /\ source' = [s \in Source |-> IF s \in Affected(q) /\ source[s].is = "row"
                                 THEN [source[s] EXCEPT !.legacy = FirstOf(left(s))]
                                 ELSE source[s]]
  /\ asked' = [s \in Source |-> asked[s] \ {q.t}]
  /\ Commit(r, Affected(q) \cup {s \in Source : q.t \in ToSet(links[s])})
  /\ UNCHANGED <<apiLinks, askedApis, torn>>

PutSources(r, t, S) ==
  target[t].is = "row"
    /\ Begin(r, [op |-> "bind", t |-> t, old |-> Snapshot,
                 wanted |-> {s \in S : source[s].is = "row"}])

\* The sources that set_target_sources reads as linked to the target.
LinkedSources(q) == {s \in Source : q.t \in ToSet(q.old.links[s])}

BoundLinks(q) ==
  [s \in Source |->
     IF s \in LinkedSources(q) \ q.wanted THEN Without(links[s], {q.t})
     ELSE IF s \in q.wanted \ LinkedSources(q) THEN Append(links[s], q.t)
     ELSE links[s]]

BindAllowed(q) ==
  /\ \A s \in Source : IsInjective(BoundLinks(q)[s])
  /\ q.wanted \ LinkedSources(q) # {} => target[q.t].is = "row"
  /\ \A s \in q.wanted : source[s].is = "row"

\* set_target_sources takes the first link of a query without ORDER BY: any of them.
SetTargetSources(r) ==
  LET q == request[r]
      touched == {s \in q.wanted \cup LinkedSources(q) : source[s].is = "row"}
  IN
  /\ q.op = "bind"
  /\ BindAllowed(q)
  /\ links' = BoundLinks(q)
  /\ \E first \in [touched -> Target \cup {NoTarget}] :
       /\ \A s \in touched : IF links'[s] = <<>> THEN first[s] = NoTarget
                             ELSE first[s] \in ToSet(links'[s])
       /\ source' = [s \in Source |->
            IF s \in touched
            THEN [source[s] EXCEPT !.legacy =
                    IF s \in q.wanted
                    THEN Flush(first[s], q.old.source[s].legacy, source[s].legacy)
                    ELSE first[s]]
            ELSE source[s]]
  /\ asked' = [s \in Source |->
       IF s \in q.wanted THEN asked[s] \cup {q.t}
       ELSE IF s \in LinkedSources(q) THEN asked[s] \ {q.t} ELSE asked[s]]
  /\ Commit(r, q.wanted \cup LinkedSources(q))
  /\ UNCHANGED <<target, apiLinks, askedApis, torn>>

-----------------------------------------------------------------------------
\* refresh_channels lists the account's dialogs, reads all rows, and writes them.
ScanDialogs(r) == HasClient /\ Begin(r, [op |-> "scan", listed |-> dialogs])

RefreshRead(r) ==
  /\ request[r].op = "scan"
  /\ request' = [request EXCEPT ![r] =
       [op |-> "refresh", listed |-> request[r].listed, old |-> Snapshot]]
  /\ UNCHANGED <<rows, dialogs, cached, begun, moves, seen>>

\* A Telegram row that is not listed is missing and disabled; other sources are ok.
Rescanned(x, read, row, q) ==
  LET access == IF x \in Chats /\ x \notin q.listed THEN "missing"
                ELSE IF x \in Chats \cup Source THEN "ok" ELSE read.access
  IN [row EXCEPT !.access = Flush(access, read.access, row.access),
                 !.enabled = IF access = "missing"
                             THEN Flush(FALSE, read.enabled, row.enabled) ELSE row.enabled]

\* The rows that the rescan changes.
Changed(q) ==
  {s \in Source : LET old == q.old.source[s]
                  IN old.is = "row" /\ Rescanned(s, old, old, q) # old}
  \cup {t \in Target : LET old == q.old.target[t]
                       IN old.is = "row" /\ Rescanned(t, old, old, q) # old}

\* To update a row that is gone fails, and the whole rescan with it.
RefreshChannels(r) ==
  LET q == request[r] IN
  /\ q.op = "refresh"
  /\ \A s \in Changed(q) \cap Source : source[s].is = "row"
  /\ \A t \in Changed(q) \cap Target : target[t].is = "row"
  /\ source' = [s \in Source |-> IF s \in Changed(q)
                                 THEN Rescanned(s, q.old.source[s], source[s], q)
                                 ELSE source[s]]
  /\ target' = [t \in Target |-> IF t \in Changed(q)
                                 THEN Rescanned(t, q.old.target[t], target[t], q)
                                 ELSE target[t]]
  /\ Commit(r, Changed(q))
  /\ UNCHANGED <<links, apiLinks, asked, askedApis, torn>>

\* check_target_permissions reads the row, asks the bot, and writes another session.
CheckPermissions(r, t) == target[t].is = "row" /\ Begin(r, [op |-> "check", t |-> t])

RecordPermission(r, verdict) ==
  /\ request[r].op = "check"
  /\ target[request[r].t].is = "row"
  /\ target' = [target EXCEPT ![request[r].t].permission = verdict]
  /\ End(r)
  /\ UNCHANGED <<source, links, apiLinks, dialogs, cached, begun, moves, seen>>

\* sync_from_config_rows, for a SafeW conversation that the sender does not know.
RegisterConversation(s) ==
  /\ s \notin TgSource
  /\ s \notin cached
  /\ source[s].is \in {"unused", "row"}
  /\ source' = [source EXCEPT ![s] =
       [is |-> "row", enabled |-> TRUE, access |-> "ok",
        legacy |-> IF @.is = "row" THEN @.legacy ELSE NoTarget]]
  /\ cached' = Configured'
  /\ UNCHANGED <<target, links, apiLinks, dialogs, request, begun, moves, seen>>

\* The sender's load_from_db.
SenderLoads ==
  /\ cached' = Configured
  /\ cached' # cached
  /\ UNCHANGED <<rows, dialogs, request, begun, moves, seen>>

\* The account joins or leaves a channel.
AccountMoves ==
  /\ moves < MaxMoves
  /\ moves' = moves + 1
  /\ \E c \in Chats : dialogs' = (dialogs \ {c}) \cup ({c} \ dialogs)
  /\ UNCHANGED <<rows, cached, request, begun, seen>>

\* A handler that raises at its commit, or dies between two steps.
Aborts(r) == request[r] # Idle /\ Fails(r)
-----------------------------------------------------------------------------
Registers(registered) ==
  /\ source \in [Source -> SourceRow]
  /\ target = [t \in Target |-> [is |-> IF t \in registered THEN "row" ELSE "unused",
                                 enabled |-> TRUE, access |-> "unknown",
                                 permission |-> "unknown"]]
  /\ links \in [Source -> Lists]
  /\ \A s \in Source :
       /\ source[s] = [is |-> IF s \in registered THEN "row" ELSE "unused",
                       enabled |-> source[s].enabled, legacy |-> FirstOf(links[s]),
                       access |-> IF s \in TgSource THEN "unknown" ELSE "ok"]
       /\ ToSet(links[s]) \subseteq registered
       /\ s \notin registered => links[s] = <<>> /\ source[s].enabled

Init ==
  /\ \E registered \in Registrations : Registers(registered)
  /\ apiLinks = [s \in Source |-> {}]
  /\ dialogs = Chats
  /\ cached = {}
  /\ request = [r \in Request |-> Idle]
  /\ begun = 0 /\ moves = 0
  /\ asked = [s \in Source |-> ToSet(links[s])]
  /\ askedApis = apiLinks
  /\ overlapped = {} /\ torn = {}

\* The handlers of api/routes/channels.py that change rows.
AddFromAccount(r) ==
  \/ \E s \in TgSource : HasClient /\ CreateSource(r, s, s \in dialogs, <<>>)
  \/ \E t \in TgTarget : HasClient /\ CreateTarget(r, t, t \in dialogs)

CreateChannel(r) ==
  \E s \in Source, want \in BOOLEAN, l \in Lists : CreateSource(r, s, want, l)

PatchChannel(r) ==
  \/ \E s \in Source, want \in BOOLEAN : PatchSource(r, s, want)
  \/ UpdateSource(r)

PutChannelTargets(r) == \E s \in Source, l \in Lists : PutTargets(r, s, l)

PutChannelApiEndpoints(r) ==
  \E s \in Source, apis \in SUBSET Api : PutApiEndpoints(r, s, apis)

PutChannelDestinations(r) ==
  \E s \in Source, l \in Lists, apis \in SUBSET (Api \cup {NoApi}) :
    PutDestinations(r, s, l, apis)

DeleteChannel(r) == \E s \in Source : DeleteSource(r, s)

AddTarget(r) == \E t \in Target, want \in BOOLEAN : CreateTarget(r, t, want)

PatchTargetRow(r) ==
  \/ \E t \in Target, want \in BOOLEAN : PatchTarget(r, t, want)
  \/ UpdateTarget(r)

PutTargetSources(r) ==
  \/ \E t \in Target, S \in SUBSET Source : PutSources(r, t, S)
  \/ SetTargetSources(r)

RemoveTarget(r) == (\E t \in Target : DropTarget(r, t)) \/ DeleteTarget(r)

Refresh(r) == ScanDialogs(r) \/ RefreshRead(r) \/ RefreshChannels(r)

CheckTarget(r) ==
  \/ \E t \in Target : CheckPermissions(r, t)
  \/ \E verdict \in {"ok", "missing", "error"} : RecordPermission(r, verdict)

Handle(r) ==
  \/ AddFromAccount(r) \/ CreateChannel(r) \/ CreateSourceLinks(r) \/ PatchChannel(r)
  \/ PutChannelTargets(r) \/ PutChannelApiEndpoints(r) \/ PutChannelDestinations(r)
  \/ Replace(r) \/ DeleteChannel(r) \/ AddTarget(r) \/ PatchTargetRow(r)
  \/ PutTargetSources(r) \/ RemoveTarget(r) \/ Refresh(r) \/ CheckTarget(r) \/ Aborts(r)

Next ==
  \/ \E r \in Request : Handle(r)
  \/ \E s \in Source : RegisterConversation(s)
  \/ SenderLoads
  \/ AccountMoves

Spec == Init /\ [][Next]_vars
-----------------------------------------------------------------------------
Snapshots == [source : [Source -> SourceRow], target : [Target -> TargetRow],
              links : [Source -> Lists], apiLinks : [Source -> SUBSET Api]]

Requests ==
  [op : {"idle"}]
  \cup [op : {"link"}, s : Source, refs : Lists]
  \cup {q \in [op : {"replace"}, s : Source, apis : SUBSET (Api \cup {NoApi}),
              parts : SUBSET {"targets", "apis"}, old : Snapshots, chosen : Lists] :
          "apis" \in q.parts \/ q.apis = {}}
  \cup [op : {"patchSource"}, s : Source, want : BOOLEAN, old : Snapshots]
  \cup [op : {"patchTarget"}, t : Target, want : BOOLEAN, old : Snapshots]
  \cup [op : {"dropTarget"}, t : Target, old : Snapshots]
  \cup [op : {"bind"}, t : Target, old : Snapshots, wanted : SUBSET Source]
  \cup [op : {"scan"}, listed : SUBSET Chats]
  \cup [op : {"refresh"}, listed : SUBSET Chats, old : Snapshots]
  \cup [op : {"check"}, t : Target]

\* Types: every row has legal columns and every operation holds a legal snapshot.
TypeOK ==
  /\ source \in [Source -> SourceRow] /\ target \in [Target -> TargetRow]
  /\ links \in [Source -> Lists] /\ apiLinks \in [Source -> SUBSET Api]
  /\ dialogs \subseteq Chats /\ cached \subseteq Source
  /\ request \in [Request -> Requests]
  /\ asked \in [Source -> SUBSET Target] /\ askedApis \in [Source -> SUBSET Api]
  /\ overlapped \subseteq Source \cup Target /\ torn \subseteq Source

\* Whatever two operations do to a source and a target at the same time, no binding
\* is left that names a row that is gone: delete_target and delete_source against the
\* operations that link what they have read.
NoDangling ==
  \A s \in Source :
    /\ links[s] # <<>> \/ apiLinks[s] # {} => source[s].is = "row"
    /\ \A t \in ToSet(links[s]) : target[t].is = "row"

\* What every reader of the registry relies on: legal columns, and bindings to rows.
WellFormed == TypeOK /\ NoDangling

\* A source has the destinations that the operators asked for last, from its side or
\* from a target's, unless two operations overlapped on it.
ExactlyWhatWasAsked ==
  \A s \in Source \ overlapped :
    ToSet(links[s]) = asked[s] /\ apiLinks[s] = askedApis[s]

\* What the account cannot read is disabled: no sequence of creations, patches and
\* rescans leaves a row enabled that is recorded as missing, unless two overlapped.
AccessGate ==
  /\ \A s \in Source \ overlapped :
       ~(source[s].is = "row" /\ source[s].enabled /\ source[s].access = "missing")
  /\ \A t \in Target \ overlapped :
       ~(target[t].is = "row" /\ target[t].enabled /\ target[t].access = "missing")

\* The legacy target_channel_id of a source names one of its links, and nothing when
\* it has none, through rebinding from both sides and the deletion of targets; except
\* between the two transactions of create_source and after overlapping operations.
LegacyAligned ==
  \A s \in Configured \ (overlapped \cup torn) :
    IF links[s] = <<>> THEN source[s].legacy = NoTarget
    ELSE source[s].legacy \in ToSet(links[s])

=============================================================================
