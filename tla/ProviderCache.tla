---------------------------- MODULE ProviderCache ----------------------------
(***************************************************************************)
(* What the explorer's DefaultRpcClient(network) promises, with the        *)
(* counter and the map left out: the first call for a network builds a     *)
(* provider no other network has and caches it; every later call returns   *)
(* the cached one, which nothing replaces or removes.                      *)
(***************************************************************************)
CONSTANTS
    Networks,   \* network names
    Providers,  \* the JsonRpcProvider objects there can be
    NoProvider  \* the cache has no entry

VARIABLE provider  \* provider[n]: the provider cached for n, or NoProvider

\* The providers handed out so far.
Handed == {provider[m] : m \in Networks}

Init == provider = [n \in Networks |-> NoProvider]

\* DefaultRpcClient(n) with nothing cached: a new JsonRpcProvider, shared
\* with no other network, is cached.  A call that finds one cached returns
\* it and changes nothing: a stuttering step.
Get(n) ==
    /\ provider[n] = NoProvider
    /\ \E p \in Providers \ Handed : provider' = [provider EXCEPT ![n] = p]

Next == \E n \in Networks : Get(n)

Spec == Init /\ [][Next]_provider

-----------------------------------------------------------------------------
(***************************************************************************)
(* No two networks share a provider: a query sent for one network never    *)
(* goes to the endpoint of another.                                        *)
(***************************************************************************)
OneProviderPerNetwork ==
    \A m, n \in Networks :
        m # n /\ provider[m] # NoProvider => provider[m] # provider[n]

=============================================================================
