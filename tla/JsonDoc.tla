------------------------------ MODULE JsonDoc ------------------------------
(***************************************************************************)
(* JSON documents as the genesis builder handles them (map[string]any).    *)
(*                                                                         *)
(* A document is a function from the paths that exist in it, the empty     *)
(* path included, to what is found there: an object, a number, a boolean   *)
(* or a string.  Of a string only what the builder looks at is kept: its   *)
(* value, that it is a placeholder ("{{KEY}}"), or that it has             *)
(* placeholders among other text.                                          *)
(***************************************************************************)
EXTENDS Naturals, Sequences, SequencesExt

Obj == [kind |-> "object"]
Absent == [kind |-> "absent"]
Num(n) == [kind |-> "number", value |-> n]
Bool(b) == [kind |-> "bool", value |-> b]
Str(s) == [kind |-> "string", value |-> s]
Hole(key) == [kind |-> "hole", key |-> key]
Mixed(keys) == [kind |-> "mixed", keys |-> keys]

\* A document that is one value.
Just(node) == [p \in {<<>>} |-> node]

At(doc, p) == IF p \in DOMAIN doc THEN doc[p] ELSE Absent
IsObject(doc, p) == At(doc, p).kind = "object"
IsString(doc, p) == At(doc, p).kind \in {"string", "hole", "mixed"}

\* Every path leads through objects only.
IsTree(doc) ==
  /\ <<>> \in DOMAIN doc
  /\ \A p \in DOMAIN doc : \A n \in 0..(Len(p) - 1) :
       SubSeq(p, 1, n) \in DOMAIN doc /\ doc[SubSeq(p, 1, n)] = Obj

Below(doc, p) == {q \in DOMAIN doc : IsPrefix(p, q)}
Beyond(p, q) == SubSeq(q, Len(p) + 1, Len(q))
Keys(doc, p) == {Head(Beyond(p, q)) : q \in Below(doc, p) \ {p}}
Sub(doc, p) == [q \in {Beyond(p, r) : r \in Below(doc, p)} |-> doc[p \o q]]
Without(doc, p) == [q \in DOMAIN doc \ Below(doc, p) |-> doc[q]]

\* The document with sub in the place of what is at p.
Put(doc, p, sub) ==
  [q \in (DOMAIN doc \ Below(doc, p)) \cup {p \o r : r \in DOMAIN sub} |->
     IF IsPrefix(p, q) THEN sub[Beyond(p, q)] ELSE doc[q]]

\* An object is made where none is.
PutIfNoObject(doc, p) == IF IsObject(doc, p) THEN doc ELSE Put(doc, p, Just(Obj))

\* Objects on both sides are merged, anything else of the overlay replaces
\* what the base has there.
DeepMerge(base, overlay) ==
  LET survives(p) == \A n \in 1..Len(p) :
        SubSeq(p, 1, n) \in DOMAIN overlay => overlay[SubSeq(p, 1, n)] = Obj
      kept == {p \in DOMAIN base \ DOMAIN overlay : survives(p)}
  IN [p \in DOMAIN overlay \cup kept |-> IF p \in kept THEN base[p] ELSE overlay[p]]

\* values: from the known keys to documents.  A string that is a placeholder
\* becomes the value, which may be an object; its text is not looked at again.
Known(doc, values, p) == doc[p].kind = "hole" /\ doc[p].key \in DOMAIN values

Unresolved(doc, values) ==
  UNION {IF doc[p].kind = "hole" THEN {doc[p].key} \ DOMAIN values
         ELSE IF doc[p].kind = "mixed" THEN doc[p].keys \ DOMAIN values ELSE {} : p \in DOMAIN doc}

ApplyPlaceholders(doc, values) ==
  LET grown(p) == IF Known(doc, values, p) THEN {p \o q : q \in DOMAIN values[doc[p].key]} ELSE {p}
      filled(ks) == IF ks \subseteq DOMAIN values THEN Str("filled") ELSE Mixed(ks \ DOMAIN values)
      root(r) == CHOOSE p \in DOMAIN doc : r \in grown(p)
  IN [r \in UNION {grown(p) : p \in DOMAIN doc} |->
        LET p == root(r) IN
        IF Known(doc, values, p) THEN values[doc[p].key][Beyond(p, r)]
        ELSE IF doc[p].kind = "mixed" THEN filled(doc[p].keys) ELSE doc[p]]
=============================================================================
