---- MODULE MCBrowserService ----
EXTENDS BrowserService, TLC

CONSTANTS p1, d1

For(k) == [kind |-> k, profile |-> p1, domain |-> d1]
Misnamed == [kind |-> "fetch", profile |-> BadProfile, domain |-> d1]

\* One domain and one profile for everybody: extract_text beside a session, or
\* a search beside a download; and a third call with a name that is no profile,
\* which takes a token and leaves.
Pairs == {{"extract_text", "session"}, {"search", "download"}}

SharedProfile ==
  {f \in [Calls -> {For(k) : k \in UNION Pairs} \cup {Misnamed}] :
     \E pair \in Pairs : {f[c] : c \in Calls} = {For(k) : k \in pair} \cup {Misnamed}}

FetchOnly == {[c \in Calls |-> For("fetch")]}

Symmetry == Permutations(Calls)
====
