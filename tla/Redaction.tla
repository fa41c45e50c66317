---- MODULE Redaction ----
(***************************************************************************)
(* The redaction of observability/logging.go, which every log line passes:  *)
(* by key, at any depth of a map, and by pattern inside texts.  A text is a *)
(* sequence of fragments, each ordinary or what one of the patterns finds.  *)
(* A key is a word and how it is spelled.  A value of a type sanitizeValue  *)
(* does not know, such as a struct or a map[string]string, is "other".      *)
(***************************************************************************)
EXTENDS Naturals, Sequences

CONSTANTS Words,           \* the words keys are made of
          SensitiveWords,  \* those in redactedKeys
          MaxFragments,    \* bound: how many fragments a text has
          MaxDepth         \* bound: how deep a value is nested

ASSUME WordsAssumption == SensitiveWords \subseteq Words
ASSUME BoundsAssumption == MaxFragments \in Nat /\ MaxDepth \in Nat

VARIABLES value,  \* what is logged under a key
          depth   \* how deep it is nested

Patterns == {"email", "card", "bearer"}
Fragments == Patterns \cup {"ordinary"}
Texts == UNION {[1..n -> Fragments] : n \in 0..MaxFragments}

Key(word, lower, dashed) == [word |-> word, lower |-> lower, dashed |-> dashed]
Keys == {Key(word, lower, dashed) : word \in Words, lower \in BOOLEAN, dashed \in BOOLEAN}

redactedKeys == {Key(word, TRUE, FALSE) : word \in SensitiveWords}

\* Bug: the key is compared as it is spelled.
keyAsSpelled(key) == key

\* Lower case, and underscores for dashes.
normalizeKey(key) == [key EXCEPT !.lower = TRUE, !.dashed = FALSE]

Sensitive(key) == normalizeKey(key) \in redactedKeys

Mark(fragment) ==
  CASE fragment = "email" -> "[REDACTED_EMAIL]"
    [] fragment = "card" -> "[REDACTED_CARD]"
    [] fragment = "bearer" -> "[REDACTED_TOKEN]"
    [] OTHER -> fragment

sanitizeText(text) == [i \in DOMAIN text |-> Mark(text[i])]

Text(text) == [kind |-> "text", text |-> text]
Error(text) == [kind |-> "error", text |-> text]
Other == [kind |-> "other"]
Map(entries) == [kind |-> "map", entries |-> entries]
List(elements) == [kind |-> "list", elements |-> elements]

\* Bug: slices are logged as they are.
RECURSIVE sanitizeMapsOnly(_)
sanitizeMapsOnly(v) ==
  CASE v.kind \in {"text", "error"} -> Text(sanitizeText(v.text))
    [] v.kind = "map" ->
         Map([key \in DOMAIN v.entries |->
                IF Sensitive(key) THEN Text(<<"[REDACTED]">>) ELSE sanitizeMapsOnly(v.entries[key])])
    [] OTHER -> v

RECURSIVE sanitizeValue(_)
sanitizeValue(v) ==
  CASE v.kind \in {"text", "error"} -> Text(sanitizeText(v.text))
    [] v.kind = "map" ->
         Map([key \in DOMAIN v.entries |->
                IF Sensitive(key) THEN Text(<<"[REDACTED]">>) ELSE sanitizeValue(v.entries[key])])
    [] v.kind = "list" ->
         List([i \in DOMAIN v.elements |-> sanitizeValue(v.elements[i])])
    [] v.kind = "other" -> v

\* The key-value pairs of a line, and what Info and Error write of them.
Pair(key, v) == [key |-> key, value |-> v]
redact(kv) ==
  [i \in DOMAIN kv |->
     Pair(kv[i].key,
          IF Sensitive(kv[i].key) THEN Text(<<"[REDACTED]">>) ELSE sanitizeValue(kv[i].value))]

Info(kv) == redact(kv)

ErrorKey == Key("error", TRUE, FALSE)
StackKey == Key("stack", TRUE, FALSE)
LogError(err, kv) ==
  redact(kv \o <<Pair(ErrorKey, Text(err)), Pair(StackKey, Text(<<"ordinary">>))>>)
----
\* The values that can be logged: texts, errors and others, in maps and slices.
RedactionInit ==
  /\ depth = 0
  /\ value \in {Text(text) : text \in Texts} \cup {Error(text) : text \in Texts} \cup {Other}

Siblings == {Text(<<"card">>), Other}
SiblingKeys == {Key(word, TRUE, FALSE) : word \in Words}

PutInMap(key, other, sibling) ==
  value' = Map([k \in {key, other} |-> IF k = key THEN value ELSE sibling])
PutInList(sibling) == value' = List(<<sibling, value>>)

RedactionNext ==
  /\ depth < MaxDepth
  /\ depth' = depth + 1
  /\ \E sibling \in Siblings :
       PutInList(sibling) \/ \E key \in Keys, other \in SiblingKeys : PutInMap(key, other, sibling)

RedactionSpec == RedactionInit /\ [][RedactionNext]_<<value, depth>>
----
\* The leaves of a line: each fragment with the keys that lead to it.
RECURSIVE Leaves(_, _)
Leaves(path, v) ==
  CASE v.kind \in {"text", "error"} ->
         IF v.text = << >> THEN {<<path, "empty">>} ELSE {<<path, v.text[i]>> : i \in DOMAIN v.text}
    [] v.kind = "map" -> UNION {Leaves(Append(path, key), v.entries[key]) : key \in DOMAIN v.entries}
    [] v.kind = "list" -> UNION {Leaves(path, v.elements[i]) : i \in DOMAIN v.elements}
    [] v.kind = "other" -> {<<path, "other">>}

LineLeaves(kv) == UNION {Leaves(<<kv[i].key>>, kv[i].value) : i \in DOMAIN kv}

\* What a reader of the policy expects of a leaf: everything below the first
\* sensitive key is one mark, and elsewhere what a pattern finds is replaced.
SensitiveIn(path) == {i \in DOMAIN path : path[i].word \in SensitiveWords}
Expected(leaf) ==
  LET path == leaf[1]
      hits == SensitiveIn(path)
  IN  IF hits = {} THEN <<path, Mark(leaf[2])>>
      ELSE LET first == CHOOSE i \in hits : \A j \in hits : i <= j
           IN  <<SubSeq(path, 1, first), "[REDACTED]">>

Policy(kv, line) == LineLeaves(line) = {Expected(leaf) : leaf \in LineLeaves(kv)}

\* "Recursive redaction inside map[string]any/[]any values": however a value
\* is nested and its keys are spelled, redact removes what the policy names and
\* nothing else, and keeps every other leaf where it was.
RedactionIsExact ==
  \A key \in Keys :
    LET kv == <<Pair(key, value)>>
    IN  /\ Policy(kv, Info(kv))
        /\ \A fragment \in Fragments :
             Policy(kv \o <<Pair(ErrorKey, Text(<<fragment>>)), Pair(StackKey, Text(<<"ordinary">>))>>,
                    LogError(<<fragment>>, kv))
====
