------------------------------ MODULE MCRuleBook ------------------------------
(***************************************************************************)
(* Three rules at most and two groups; two messages with the same content  *)
(* and one that a replacement changes.  The texts have an invitation, a    *)
(* bare link, symbols with a hidden link, a mention of the source and a    *)
(* short one among plain symbols.  A seed file with one rule, which an     *)
(* operator may also create.                                               *)
(***************************************************************************)
EXTENDS RuleBook

CONSTANTS g1, g2, m1, m2, m3

Symbols == {"a", "A", "b", "z", "L", "V", "D", "@", "@b", " ", "(", "has", "."}
LowerOf == [x \in Symbols |-> IF x = "A" THEN "a" ELSE x]
Domains == [x \in {"L", "V", "D", "."} |-> IF x = "V" THEN "t.me" ELSE IF x = "." THEN "." ELSE "bad"]

TheSettings ==
  [caseSensitive |-> FALSE, allowEmpty |-> TRUE, blocked |-> {<<"b", "b">>}, allowed |-> {},
   replacements |-> <<<<<<"z">>, <<"(">>>>>>, removeAll |-> FALSE, removeInvites |-> TRUE, removeSource |-> TRUE,
   blockedDomains |-> {"bad"}, allowedDomains |-> {"t.me"}, footer |-> <<"b">>,
   textLimit |-> 6, captionLimit |-> 7, patternLimit |-> 2]

Shown == [text |-> <<"V", "a", "D", "b", "a", "A", "@">>,
          entities |-> <<"url", "none", "url", "none", "none", "L", "mention">>]
Changed == [text |-> <<"z", "D", "b", "L", "@b">>,
            entities |-> <<"none", "url", "V", "url", "mention">>]

Contents ==
  [m \in {m1, m2, m3} |->
     [id |-> m, type |-> IF m = m3 THEN "text" ELSE "photo", count |-> IF m = m3 THEN 0 ELSE 1,
      source |-> "s", target |-> "t", api |-> FALSE, media |-> {}]
     @@ IF m = m3 THEN Changed ELSE Shown]

Alike == Permutations({m1, m2})

Default ==
  [is |-> "row", enabled |-> TRUE, priority |-> 2, type |-> "keyword", match |-> "contains",
   replacement |-> <<>>, caseSensitive |-> FALSE, wholeWord |-> FALSE, useRegex |-> FALSE,
   sources |-> {}, targets |-> {}, types |-> {}, action |-> "flag", stop |-> FALSE,
   group |-> NoGroup]

Cut == [name |-> "cut", pattern |-> <<"a">>, action |-> "replace", replacement |-> <<"b", "b">>,
        group |-> g1]
Drop == [name |-> "drop", pattern |-> <<"b">>, action |-> "reject", priority |-> 1]
Seed == [name |-> "seed", pattern |-> <<"has">>, type |-> "has_media", action |-> "require_review"]

Payloads == {Seed}
Patches == {[type |-> "regex"], [pattern |-> <<"(">>], [group |-> g2]}
Broken == {<<"(">>}
Dots == <<".">>
Imports == {<<Drop, [pattern |-> <<>>] @@ Drop>>}
StartGroups == [g \in {g1, g2} |-> IF g = g1 THEN [is |-> "row", enabled |-> TRUE] ELSE Unused]
Seeds == <<Seed>>
Present == [i \in {1} |-> Cut @@ Default]
=============================================================================
