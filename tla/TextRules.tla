------------------------------- MODULE TextRules -------------------------------
(***************************************************************************)
(* What the processors do with the text of a message: the keyword filter,  *)
(* the replacements and the link filter of the settings, the rules of the  *)
(* database, the footer, and the hash the deduplication compares.          *)
(*                                                                         *)
(* A text is a sequence of symbols; a URL or a mention is one symbol of    *)
(* its own, which ends where an entity or a regular expression ends it.    *)
(* An entity covers one symbol: entities that overlap, offsets of UTF-16   *)
(* taken for code points, and links that a removal puts together out of    *)
(* what stood around it are left out.  A regular expression that compiles  *)
(* matches its own pattern literally.  White space at the ends and blank   *)
(* lines, which several processors tidy up, are left out.                  *)
(***************************************************************************)
EXTENDS Integers, Sequences, FiniteSets, SequencesExt

CONSTANTS
  Lower,           \* lower case of each symbol
  WordSymbol,      \* letters, digits and the underscore
  Link, Invite, DomainOf,  \* symbols that are URLs, those that invite, their domains
  Bare,            \* URLs that begin with neither http(s)://, t.me/ nor telegram.me/
  OwnLink,         \* links and mentions that name the source itself
  Mention, Short,  \* symbols that are mentions, those of fewer than five characters
  NoEntity,        \* no entity covers a symbol
  BadRegex,        \* patterns that do not compile
  Settings,        \* the processors' part of app/config.py
  Ellipsis

ASSUME TextAssumption ==
  /\ Invite \subseteq Link /\ Bare \subseteq Link /\ Short \subseteq Mention
  /\ OwnLink \subseteq Link \cup Mention
  /\ {NoEntity, "url", "mention"} \cap Link = {} /\ NoEntity \notin {"url", "mention"}
  /\ Link \subseteq DOMAIN DomainOf
  /\ \A i \in DOMAIN Ellipsis : Ellipsis[i] \in DOMAIN DomainOf \ Link
  /\ Settings.replacements \in Seq(Seq(STRING) \X Seq(STRING))
  /\ Settings.textLimit \in Nat /\ Settings.captionLimit \in Nat
  /\ Ellipsis \in Seq(STRING)

\* The elements of a sequence at the positions of I, in its order.
Picked(seq, I) ==
  LET picked[n \in 0..Len(seq)] ==
        IF n = 0 THEN <<>>
        ELSE IF n \in I THEN Append(picked[n - 1], seq[n]) ELSE picked[n - 1]
  IN picked[Len(seq)]

Lowered(text) == [i \in DOMAIN text |-> Lower[text[i]]]

\* Hits of needle in text, from left to right and not overlapping.
Hits(text, needle) ==
  LET n == Len(needle)
      upto[i \in 0..Len(text)] ==
        IF i = 0 THEN [hits |-> <<>>, next |-> 1]
        ELSE LET found == upto[i - 1] IN
             IF \/ i < found.next \/ i + n > Len(text) + 1
                \/ SubSeq(text, i, i + n - 1) # needle
             THEN found
             ELSE [hits |-> Append(found.hits, [start |-> i, end |-> i + n]), next |-> i + n]
  IN upto[Len(text)].hits

Occurs(needle, text) == Hits(text, needle) # <<>>

\* apply_replacements: from right to left, so that positions stay valid.
ApplyReplacements(text, hits, new) ==
  LET after[n \in 0..Len(hits)] ==
        IF n = 0 THEN [text |-> text, last |-> Len(text) + 2]
        ELSE LET left == after[n - 1]
                 h == hits[Len(hits) + 1 - n]
             IN IF h.end > left.last THEN left
                ELSE [text |-> SubSeq(left.text, 1, h.start - 1) \o new
                               \o SubSeq(left.text, h.end, Len(left.text)),
                      last |-> h.start]
  IN after[Len(hits)].text

-----------------------------------------------------------------------------
(* The processors of the settings.                                         *)

KeywordDrop(text) ==
  LET Cased(t) == IF Settings.caseSensitive THEN t ELSE Lowered(t)
      Has(k) == k # <<>> /\ Occurs(Cased(k), Cased(text))
  IN IF \A i \in DOMAIN text : text[i] = " " THEN ~Settings.allowEmpty
     ELSE \/ \E k \in Settings.blocked : Has(k)
          \/ Settings.allowed # {} /\ \A k \in Settings.allowed : ~Has(k)

Truncated(text, limit) ==
  IF Len(text) <= limit THEN text ELSE SubSeq(text, 1, limit - 1) \o Ellipsis

Limit(type) == IF type = "text" THEN Settings.textLimit ELSE Settings.captionLimit

\* One replacement after the other, those of nothing left out.
AllReplaced(text) ==
  LET after[n \in 0..Len(Settings.replacements)] ==
        IF n = 0 THEN text
        ELSE LET old == Settings.replacements[n][1]
                 new == Settings.replacements[n][2]
                 t == after[n - 1]
             IN IF old = <<>> THEN t ELSE ApplyReplacements(t, Hits(t, old), new)
  IN after[Len(Settings.replacements)]

\* A replacement that changes the text also forgets its entities; those of what is cut
\* off stay behind and cover nothing.
TextReplaced(m) ==
  LET text == AllReplaced(m.text)
      kept == Truncated(text, Limit(m.type))
  IN IF Settings.replacements = <<>> THEN m
     ELSE [m EXCEPT !.text = kept,
                    !.entities = [i \in DOMAIN kept |->
                      IF text = m.text /\ i <= Len(m.text) THEN m.entities[i] ELSE NoEntity]]

\* Mutant: an invitation is kept when its domain is allowed.
ShouldRemove_AllowedInvite(u) ==
  \/ Settings.removeInvites /\ u \in Invite /\ DomainOf[u] \notin Settings.allowedDomains
  \/ DomainOf[u] \in Settings.blockedDomains

\* The list of allowed domains is enforced alone, or to spare links of removeAll.
ShouldRemove(u) ==
  IF Settings.removeAll
  THEN Settings.allowedDomains = {} \/ DomainOf[u] \notin Settings.allowedDomains
  ELSE \/ Settings.removeInvites /\ u \in Invite
       \/ DomainOf[u] \in Settings.blockedDomains
       \/ /\ Settings.allowedDomains # {}
          /\ DomainOf[u] # "" /\ DomainOf[u] \notin Settings.allowedDomains
          /\ Settings.blockedDomains = {} /\ ~Settings.removeInvites
       \/ Settings.removeSource /\ u \in OwnLink

\* By entities first: a URL, the symbol that a link hides behind, the source's mention;
\* then by regular expressions, which see neither hidden links nor bare ones.
LinkFiltered(m) ==
  LET Url(i) == IF m.entities[i] = "url" THEN m.text[i] ELSE m.entities[i]
      ByEntity(i) ==
        \/ m.entities[i] \in Link \cup {"url"} /\ ShouldRemove(Url(i))
        \/ m.entities[i] = "mention" /\ Settings.removeSource /\ m.text[i] \in OwnLink
      ByRegex(x) ==
        \/ x \in Link \ Bare /\ ShouldRemove(x)
        \/ Settings.removeSource /\ x \in Mention \cap OwnLink
        \/ Settings.removeAll /\ Settings.allowedDomains = {} /\ x \in Mention \ Short
  IN Picked(m.text, {i \in DOMAIN m.text : ~ByEntity(i) /\ ~ByRegex(m.text[i])})

\* A footer is separated from a text by a blank line.
WithFooter(text, type) ==
  LET footer == Settings.footer
      sep == IF text = <<>> THEN <<>> ELSE <<" ">>
      reserved == Len(sep) + Len(footer)
  IN IF footer = <<>> THEN text
     ELSE IF reserved >= Limit(type) THEN SubSeq(footer, 1, Limit(type))
     ELSE LET body == Truncated(text, Limit(type) - reserved)
          IN IF body = <<>> THEN footer ELSE body \o sep \o footer

\* Mutant: every message is told apart by its identity.
HashOf_Identity(m, text) == [id |-> m.id, text |-> <<>>, media |-> {}]

\* Messages of the API are told apart by their identity, the others by content.
HashOf(m, text) ==
  IF m.api THEN [id |-> m.id, text |-> <<>>, media |-> {}]
  ELSE [id |-> "content", text |-> Lowered(text), media |-> m.media]

-----------------------------------------------------------------------------
(* A rule of the database on its own.                                      *)

MediaMode(pattern) ==
  CASE pattern \in {<<>>, <<"has">>, <<"true">>} -> <<"has">>
    [] pattern \in {<<"none">>, <<"false">>} -> <<"none">>
    [] OTHER -> pattern

UsesRegex(d) == d.useRegex \/ d.match = "regex" \/ d.type = "regex"

ValidRule(d) ==
  IF d.type = "has_media" THEN MediaMode(d.pattern) \in {<<"has">>, <<"none">>}
  ELSE /\ d.pattern # <<>> /\ Len(d.pattern) <= Settings.patternLimit
       /\ UsesRegex(d) => d.pattern \notin BadRegex

HasMedia(type, count) == count > 0 \/ type \notin {"text", "unsupported"}

MediaHits(d, type, count) ==
  IF HasMedia(type, count) = (MediaMode(d.pattern) = <<"has">>)
  THEN <<[start |-> 1, end |-> 1]>> ELSE <<>>

\* find_matches.  A regular expression that takes too long matches nothing; a hit
\* that is no whole word is refused, and the search goes on behind it.
Matches(text, d, slow) ==
  LET Cased(t) == IF d.caseSensitive THEN t ELSE Lowered(t)
      hay == Cased(text)
      needle == Cased(d.pattern)
      n == Len(needle)
      Whole(h) == /\ h.start = 1 \/ text[h.start - 1] \notin WordSymbol
                  /\ h.end > Len(text) \/ text[h.end] \notin WordSymbol
      Keep(h) == d.wholeWord => Whole(h)
      Kept(hits) == Picked(hits, {k \in DOMAIN hits : Keep(hits[k])})
      One(ok, i, j) == IF ok THEN Kept(<<[start |-> i, end |-> j]>>) ELSE <<>>
  IN IF text = <<>> THEN <<>>
     ELSE IF UsesRegex(d)
          THEN IF d.id \in slow THEN <<>> ELSE Hits(hay, needle)
     ELSE CASE d.match = "equals" -> One(hay = needle, 1, Len(text) + 1)
            [] d.match = "starts_with" -> One(IsPrefix(needle, hay), 1, n + 1)
            [] d.match = "ends_with" -> One(IsSuffix(needle, hay), Len(text) - n + 1, Len(text) + 1)
            [] OTHER -> Kept(Hits(hay, needle))

RuleApplies(d, m) ==
  /\ d.enabled
  /\ d.sources # {} => m.source \in d.sources
  /\ d.targets # {} => m.target \in d.targets
  /\ d.types # {} => m.type \in d.types

\* What a rule that hit makes of the text; the others only leave marks.
Rewritten(text, hits, d) ==
  CASE d.action = "replace" -> ApplyReplacements(text, hits, d.replacement)
    [] d.action = "remove" -> ApplyReplacements(text, hits, <<>>)
    [] OTHER -> text

-----------------------------------------------------------------------------
(* The engine.                                                             *)

Before(d, e) == d.priority < e.priority \/ (d.priority = e.priority /\ d.id < e.id)

NothingApplied(text) ==
  [text |-> text, hits |-> <<>>, errors |-> {}, review |-> FALSE, reject |-> FALSE,
   done |-> FALSE]

\* One rule after the others; hits counts how often each rule hit.
EngineStep(acc, d, m, slow) ==
  LET found == IF d.type = "has_media" THEN MediaHits(d, m.type, m.count)
               ELSE Matches(acc.text, d, slow)
  IN IF acc.done \/ ~RuleApplies(d, m) THEN acc
     ELSE IF ~ValidRule(d) THEN [acc EXCEPT !.errors = @ \cup {d.id}]
     ELSE IF found = <<>> THEN acc
     ELSE [acc EXCEPT !.text = Rewritten(@, found, d),
                      !.hits = Append(@, [rule |-> d.id, count |-> Len(found)]),
                      !.review = @ \/ d.action = "require_review",
                      !.reject = d.action = "reject",
                      !.done = d.stop \/ d.action = "reject"]

\* The rules in the order in which they are applied.
Ordered(rules) ==
  CHOOSE l \in [1..Cardinality(rules) -> rules] :
    \A i, j \in DOMAIN l : i < j => Before(l[i], l[j])

\* Mutant: only stop_processing stops.
ApplyRules_RejectGoesOn(rules, text, m, slow) ==
  LET order == Ordered(rules)
      after[n \in 0..Len(order)] ==
        IF n = 0 THEN NothingApplied(text)
        ELSE [EngineStep(after[n - 1], order[n], m, slow)
                EXCEPT !.done = @ /\ (order[n].stop \/ after[n - 1].done)]
  IN after[Len(order)]

ApplyRules(rules, text, m, slow) ==
  LET order == Ordered(rules)
      after[n \in 0..Len(order)] ==
        IF n = 0 THEN NothingApplied(text) ELSE EngineStep(after[n - 1], order[n], m, slow)
  IN after[Len(order)]
=============================================================================
