--------------------------- MODULE LineageSources ---------------------------
(***************************************************************************)
(* The registry of lineage source providers (AclLineageSources): each      *)
(* extension registers its provider and removes it again, on its own       *)
(* thread, while acl's lineage worker asks for the name of a source.       *)
(***************************************************************************)
EXTENDS Naturals, Sequences, Functions

CONSTANTS
    Providers,          \* the providers extensions register
    MaxProviders,       \* bound: length of the registry's list
    MaxAsks             \* bound: calls of Name

ASSUME LineageAssumption ==
    MaxProviders \in Nat /\ MaxAsks \in Nat /\ Providers \intersect {"idle", "asking", "none"} = {}

VARIABLES
    providers,          \* the registry's list
    current,            \* Name's copy of it
    asked,              \* providers called so far by the running Name, in order
    answer,             \* "idle", "asking", "none" (Name returned false), or who answered
    failures,           \* provider calls that threw
    throughout,         \* history: providers registered since before this Name began
    asks                \* history: calls of Name begun

lineageVars == <<providers, current, asked, answer, failures, throughout, asks>>

InitLineage ==
    /\ providers = << >> /\ current = << >> /\ asked = << >>
    /\ answer = "idle" /\ failures = 0
    /\ throughout = {} /\ asks = 0

Asking == answer = "asking"

-----------------------------------------------------------------------------
\* AddProvider: at the end of the list, a second time too.
AddProvider(p) ==
    /\ Len(providers) < MaxProviders
    /\ providers' = Append(providers, p)
    /\ UNCHANGED <<current, asked, answer, failures, throughout, asks>>

\* RemoveProvider: the first entry that is this provider.
IsEntry(i, p) == providers[i] = p /\ \A j \in 1 .. i - 1 : providers[j] # p

RemoveProvider(p) ==
    /\ \E i \in DOMAIN providers :
          /\ IsEntry(i, p)
          /\ providers' = SubSeq(providers, 1, i - 1) \o SubSeq(providers, i + 1, Len(providers))
    /\ throughout' = IF p \in Range(providers') THEN throughout ELSE throughout \ {p}
    /\ UNCHANGED <<current, asked, answer, failures, asks>>

\* Name takes its copy under the lock and asks outside of it.
Name ==
    /\ ~Asking /\ asks < MaxAsks
    /\ current' = providers /\ asked' = << >>
    /\ answer' = "asking" /\ asks' = asks + 1
    /\ throughout' = Range(providers)
    /\ UNCHANGED <<providers, failures>>

\* The list the loop runs over: the copy, not the registry's.
Mut_Live == providers
Listed == current

\* External: what a provider does with a question - "owns" it with a namespace, "passes" (false,
\* or an answer without a namespace), or "throws".
Outcomes == {"owns", "passes", "throws"}

\* One turn of the loop: the first answer wins, and one that throws counts as no answer.
Call(outcome) ==
    /\ Asking /\ Len(asked) < Len(Listed)
    /\ LET p == Listed[Len(asked) + 1] IN
       /\ asked' = Append(asked, p)
       /\ answer' = IF outcome = "owns" THEN p ELSE answer
    /\ failures' = IF outcome = "throws" THEN failures + 1 ELSE failures
    /\ UNCHANGED <<providers, current, throughout, asks>>

NoAnswer ==
    /\ Asking /\ Len(asked) >= Len(Listed)
    /\ answer' = "none"
    /\ UNCHANGED <<providers, current, asked, failures, throughout, asks>>

NextLineage ==
    \/ \E p \in Providers : AddProvider(p) \/ RemoveProvider(p)
    \/ Name
    \/ \E outcome \in Outcomes : Call(outcome)
    \/ NoAnswer

-----------------------------------------------------------------------------
(* Properties *)

\* Providers registered before this Name began and ahead of p's first registration.
Ahead(p) ==
    {current[i] : i \in {i \in DOMAIN current : \A j \in DOMAIN current : current[j] = p => i < j}}

\* "Ask the providers in registration order; the first answer wins ... a provider may be removed
\* while acl asks": removals and additions meanwhile make the call skip nobody who stayed
\* registered.  When Name returns false all of them were asked; when p answers, all of them ahead
\* of p were; and each registration that stood when it began is asked once, in order.
FirstAnswerWins ==
    /\ answer = "none" => throughout \subseteq Range(asked)
    /\ answer \in Providers =>
        /\ answer = asked[Len(asked)]
        /\ throughout \intersect Ahead(answer) \subseteq Range(asked)
    /\ Len(asked) <= Len(current) /\ \A i \in DOMAIN asked : asked[i] = current[i]

=============================================================================
