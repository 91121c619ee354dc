------------------------------ MODULE Counters ------------------------------
(***************************************************************************)
(* The two counter registries: Counters of ext_hooks.hpp (in the           *)
(* Registry) and AuditCounters of acl_audit.hpp (in AuditHooks).  Add, Get *)
(* and Snapshot are one critical section each.  A counter is looked up by  *)
(* a text made of its name and its attributes, so what is at stake is      *)
(* whether two counters can meet under one text: a text here is a sequence *)
(* of one-character strings.                                               *)
(***************************************************************************)
EXTENDS Naturals, Sequences, SequencesExt

CONSTANTS
    Chars,              \* the characters of names and values
    LongestText,        \* names and values are no longer than this
    Decimal,            \* std::to_string of a length
    Tuples,             \* the counters: a name and a list of attributes, names with their values
    MaxAdds             \* bound: additions made

Equals == "="
Unit == "\\x1f"

Texts == {text \in Seq(Chars) : Len(text) <= LongestText}

\* External: a length is written with digits, and no two in the same way.
ASSUME TextAssumption ==
    /\ {":", Equals, Unit} \subseteq Chars /\ LongestText \in Nat
    /\ Decimal \in [0 .. LongestText -> Seq(Chars)]
    /\ \A n \in 0 .. LongestText : ":" \notin Range(Decimal[n])
    /\ \A m, n \in 0 .. LongestText : Decimal[m] = Decimal[n] => m = n

ASSUME TuplesAssumption == Tuples \subseteq [name : Texts, attributes : Seq(Texts \X Texts)]

VARIABLES
    values,             \* by key: the value
    keys,               \* by key: the tuple it was created for
    added               \* history: what was added for each tuple

counterVars == <<values, keys, added>>

InitCounters ==
    /\ values = << >> /\ keys = << >>
    /\ added = [u \in Tuples |-> 0]

-----------------------------------------------------------------------------
(* The keys *)

Mut_NoLength(text) == Append(text, ":")
Prefixed(text) == Decimal[Len(text)] \o <<":">> \o text

\* AttributesKey of the hooks: every name and value after its length.
AttributesKey(attributes) ==
    FlattenSeq([i \in DOMAIN attributes |-> Prefixed(attributes[i][1]) \o Prefixed(attributes[i][2])])

\* AuditAttributesKey of acl: name, "=", value, unit separator.
AuditAttributesKey(attributes) ==
    FlattenSeq([i \in DOMAIN attributes |->
                    attributes[i][1] \o <<Equals>> \o attributes[i][2] \o <<Unit>>])

Key(c, u) ==
    IF c = "registry"
      THEN AttributesKey(<< <<u.name, << >> >> >>) \o AttributesKey(u.attributes)
      ELSE u.name \o <<Unit>> \o AuditAttributesKey(u.attributes)

-----------------------------------------------------------------------------
\* acl's keys put names and values side by side, which tells tuples apart as long as each is free of
\* the separator that ends it; acl's attributes come "only from bounded sets" of its own.
PlainPair(pair) == Equals \notin Range(pair[1]) /\ Unit \notin Range(pair[2])

Plain(u) ==
    Unit \notin Range(u.name) /\ \A i \in DOMAIN u.attributes : PlainPair(u.attributes[i])

TuplesOf(c) == IF c = "registry" THEN Tuples ELSE {u \in Tuples : Plain(u)}

\* No two counters of a contract have the same key.
KeysTellApart(c) == \A u, v \in TuplesOf(c) : Key(c, u) = Key(c, v) => u = v

-----------------------------------------------------------------------------
\* Add: the first addition creates the counter and remembers the tuple.
Add(c, u) ==
    LET key == Key(c, u) IN
    /\ FoldFunction(+, 0, added) < MaxAdds
    /\ values' = IF key \in DOMAIN values
                   THEN [values EXCEPT ![key] = @ + 1]
                   ELSE [k \in DOMAIN values \union {key} |-> IF k = key THEN 1 ELSE values[k]]
    /\ keys' = IF key \in DOMAIN keys
                 THEN keys
                 ELSE [k \in DOMAIN keys \union {key} |-> IF k = key THEN u ELSE keys[k]]
    /\ added' = [added EXCEPT ![u] = @ + 1]

Get(c, u) == IF Key(c, u) \in DOMAIN values THEN values[Key(c, u)] ELSE 0

\* Snapshot: a row per key, under the tuple it was created for.
Snapshot == {[counter |-> keys[key], value |-> values[key]] : key \in DOMAIN values}

-----------------------------------------------------------------------------
(* Properties *)

\* "A value per (name, attribute tuple)", and "no two tuples share one" key: whatever was added
\* before and for whom, Get answers what was added for just this tuple, and a snapshot has one row
\* for every tuple that was added to, with that value.
CountsOf(c) ==
    LET seen == {u \in Tuples : added[u] > 0} IN
    /\ \A u \in TuplesOf(c) : Get(c, u) = added[u]
    /\ Snapshot = {[counter |-> u, value |-> added[u]] : u \in seen}
    /\ \A k, l \in DOMAIN values : keys[k] = keys[l] => k = l

=============================================================================
