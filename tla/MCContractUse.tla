--------------------------- MODULE MCContractUse ---------------------------
(* ContractUse for TLC: acl and two consumers, two revisions of each header, and counters whose   *)
(* names and values run into each other when they are put side by side.                           *)
EXTENDS ContractUse, TLC

CONSTANTS acl, e1, e2

Counter(name, attributes) == [name |-> name, attributes |-> attributes]

\* "a" with b=c and with bc=""; two attributes against one that spells them, in either way; a name with a prefix
\* of its own; a value with acl's separators.
CounterTuples ==
    {Counter(<<"a">>, << <<<<"b">>, <<"c">>>> >>),
     Counter(<<"a">>, << <<<<"b", "c">>, << >> >> >>),
     Counter(<<"a">>, << <<<<"b">>, <<"c">>>>, <<<<"b">>, <<"c">>>> >>),
     Counter(<<"a">>, << <<<<"b">>, <<"c", "1", ":", "b", "1", ":", "c">>>> >>),
     Counter(<<"a">>, << <<<<"b">>, <<"c", ":", "b", ":", "c">>>> >>),
     Counter(<<"a">>, << <<<<"b">>, <<"c", Unit, "b", Equals, "c">>>> >>),
     Counter(<<"1", ":", "a">>, << >>)}

\* The texts above are shorter than ten characters.
Digits == <<"0", "1", "2", "3", "4", "5", "6", "7", "8", "9">>
Characters == Range(Digits) \union {"a", "b", "c", ":", Equals, Unit}
OneDigit == [n \in 0 .. 9 |-> <<Digits[n + 1]>>]

Symmetric == Permutations({e1, e2})

=============================================================================
