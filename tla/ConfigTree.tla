----------------------------- MODULE ConfigTree -----------------------------
(***************************************************************************)
(* The document of config.c: a tree of JSON objects addressed by dotted    *)
(* keys.  A document is a function from the paths that exist to what lies  *)
(* there: an object, a scalar, or an array of objects.  The root object is *)
(* left out; a path is the sequence of the parts of its key.               *)
(***************************************************************************)
EXTENDS SequencesExt

Object == [kind |-> "object"]
Scalar(v) == [kind |-> "scalar", value |-> v]
Array(items) == [kind |-> "array", items |-> items]

Empty == <<>>   \* the document of a first start: no path exists

Above(p) == {SubSeq(p, 1, n) : n \in 1 .. Len(p) - 1}
Below(doc, p) == {q \in DOMAIN doc : IsStrictPrefix(p, q)}
AtOrBelow(doc, p) == {q \in DOMAIN doc : IsPrefix(p, q)}

IsObject(doc, p) == p \in DOMAIN doc /\ doc[p].kind = "object"
IsScalar(doc, p) == p \in DOMAIN doc /\ doc[p].kind = "scalar"
IsArray(doc, p) == p \in DOMAIN doc /\ doc[p].kind = "array"

(* resolve_parent without create: every step of the key but the last is an *)
(* object.                                                                 *)
Reachable(doc, p) == \A q \in Above(p) : IsObject(doc, q)

(* Mutant: what is in the way stays. *)
WithMissingObjects(doc, steps) ==
    [q \in DOMAIN doc \cup steps |-> IF q \in DOMAIN doc THEN doc[q] ELSE Object]

(* resolve_parent with create: a missing step becomes an object, and so    *)
(* does one that holds something else, whose content is deleted.           *)
WithObjects(doc, steps) ==
    LET fresh == {q \in steps : ~IsObject(doc, q)}
    IN  [q \in DOMAIN doc \cup steps |-> IF q \in fresh THEN Object ELSE doc[q]]

Without(doc, gone) == [q \in DOMAIN doc \ gone |-> doc[q]]

(* The node at p, whatever lay there with all below it. *)
Put(doc, p, node) ==
    LET above == WithObjects(doc, Above(p))
        kept == Without(above, AtOrBelow(above, p))
    IN  [q \in DOMAIN kept \cup {p} |-> IF q = p THEN node ELSE kept[q]]

Get(doc, p) ==
    IF Reachable(doc, p) /\ IsScalar(doc, p) THEN doc[p].value ELSE "missing"

Cut(doc, p) == Without(doc, AtOrBelow(doc, p))

(* prune_empty_parents: after the node at p is gone, the objects above it  *)
(* go from the deepest up while they hold nothing.                         *)
Prune(doc, p) ==
    Without(doc, {q \in Above(p) : Below(doc, q) \subseteq Above(p)})

(* resolve_array_parent and the calls on arrays: an array that is missing  *)
(* has no items.                                                           *)
Items(doc, p) == IF Reachable(doc, p) /\ IsArray(doc, p) THEN doc[p].items ELSE <<>>

(* The items whose field "value" is another one. *)
Left(items, v) ==
    LET kept[n \in 0 .. Len(items)] ==
            IF n = 0 THEN <<>>
            ELSE IF items[n].value = v THEN kept[n - 1]
            ELSE Append(kept[n - 1], items[n])
    IN  kept[Len(items)]

WithItems(doc, p, items) == [doc EXCEPT ![p] = Array(items)]

(* The first item whose field "id" is that value, 0 when none is. *)
IndexOf(items, id) ==
    IF \E i \in DOMAIN items : items[i].id = id
    THEN CHOOSE i \in DOMAIN items : /\ items[i].id = id
                                     /\ \A j \in 1 .. i - 1 : items[j].id # id
    ELSE 0
=============================================================================
