------------------------------ MODULE KeyCache ------------------------------
(***************************************************************************)
(* The Firebase key cache of rustic-boot (auth/firebase.rs): requests look *)
(* up the key their token was signed with, refresh the cache when it is    *)
(* stale or does not have the key, and the key server rotates its keys     *)
(* meanwhile.  Checking the signature itself is cryptography and left out. *)
(*                                                                         *)
(* A refresh asks the server with no lock held: several may be under way   *)
(* at once, and they write the cache in the order in which they get the    *)
(* lock, not in the order in which the server answered them.               *)
(***************************************************************************)
EXTENDS Integers

CONSTANTS AuthRequests,
          MaxKey,     \* keys are numbered in the order they are published
          Stale,      \* ticks after which the cache is refreshed
          MaxFetch,   \* ticks an exchange with the key server takes at most
          MaxTime

ASSUME BoundsAssumption == {MaxKey, Stale, MaxFetch, MaxTime} \subseteq Nat \ {0}

VARIABLES
  now,
  published,   \* [lo, hi]: the keys the server gives out, external
  lastSeen,    \* when each key was last among them
  cache,       \* [keys, fetched_at]
  readers,     \* requests that hold the read guard
  req          \* every request

keyVars == <<now, published, lastSeen, cache, readers, req>>

Kids == 1..MaxKey
Published == published.lo..published.hi

\* keys is what get_keys or refresh_keys returned; through says that the key
\* was published all the time since the request came.
NoRequest == [at |-> "new", kid |-> 0, keys |-> {}, forced |-> FALSE, began |-> 0,
              through |-> FALSE, age |-> 0]

\* What is kept of one that has been decided.
Decided(r, at, age) == [NoRequest EXCEPT !.at = at, !.through = req[r].through, !.age = age]

-----------------------------------------------------------------------------

\* The first keys are fetched before the server takes requests.
InitKeys ==
  /\ now = 0 /\ published = [lo |-> 1, hi |-> 1] /\ lastSeen = [k \in Kids |-> 0]
  /\ cache = [keys |-> {1}, fetched_at |-> 0]
  /\ readers = {}
  /\ req = [r \in AuthRequests |-> NoRequest]

\* A token names the key it was signed with; it may be any key.
Start(r, kid) ==
  /\ req[r].at = "new"
  /\ req' = [req EXCEPT ![r].at = "get", ![r].kid = kid, ![r].through = kid \in Published]
  /\ UNCHANGED <<now, published, lastSeen, cache, readers>>

Lock(r) ==
  /\ req[r].at = "get"
  /\ readers' = readers \cup {r}
  /\ req' = [req EXCEPT ![r].at = "read"]
  /\ UNCHANGED <<now, published, lastSeen, cache>>

\* Mutant of IsStale: nothing ever is.
NeverStale == FALSE

IsStale == now - cache.fetched_at > Stale

\* Mutant of GetKeys: the guard is kept until get_keys returns.
GetKeysGuarded(r) ==
  /\ req[r].at = "read"
  /\ IF IsStale
     THEN req' = [req EXCEPT ![r].at = "fetch", ![r].began = now] /\ UNCHANGED readers
     ELSE /\ req' = [req EXCEPT ![r].at = "look", ![r].keys = cache.keys]
          /\ readers' = readers \ {r}
  /\ UNCHANGED <<now, published, lastSeen, cache>>

GetKeys(r) ==
  /\ req[r].at = "read"
  /\ readers' = readers \ {r}
  /\ req' = IF IsStale
            THEN [req EXCEPT ![r].at = "fetch", ![r].began = now]
            ELSE [req EXCEPT ![r].at = "look", ![r].keys = cache.keys]
  /\ UNCHANGED <<now, published, lastSeen, cache>>

\* The server answers with what it publishes now; the answer may take a while
\* to arrive, and then waits for the lock.
Fetch(r) ==
  /\ req[r].at = "fetch"
  /\ req' = [req EXCEPT ![r].at = "write", ![r].keys = Published]
  /\ UNCHANGED <<now, published, lastSeen, cache, readers>>

\* No answer, or one that is no key set: 500.
FetchFails(r) ==
  /\ req[r].at = "fetch"
  /\ req' = [req EXCEPT ![r] = Decided(r, "failed", 0)]
  /\ UNCHANGED <<now, published, lastSeen, cache, readers>>

Write(r) ==
  /\ req[r].at = "write" /\ readers = {}
  /\ cache' = [keys |-> req[r].keys, fetched_at |-> now]
  /\ req' = [req EXCEPT ![r].at = "look", ![r].began = 0]
  /\ UNCHANGED <<now, published, lastSeen, readers>>

\* Mutant of Returned: the cache is read again, which another may have written.
ReturnedShared(r) == cache.keys

\* What the request gets to see of a refresh is its own answer.
Returned(r) == req[r].keys

\* An unknown key is worth one refresh, also right after another one.
Look(r) ==
  /\ req[r].at = "look"
  /\ \/ /\ req[r].kid \in Returned(r)
        /\ req' = [req EXCEPT ![r] = Decided(r, "accepted", now - lastSeen[req[r].kid])]
     \/ /\ req[r].kid \notin Returned(r) /\ ~ req[r].forced
        /\ req' = [req EXCEPT ![r].at = "fetch", ![r].began = now, ![r].forced = TRUE,
                              ![r].keys = {}]
     \/ /\ req[r].kid \notin Returned(r) /\ req[r].forced
        /\ req' = [req EXCEPT ![r] = Decided(r, "refused", 0)]
  /\ UNCHANGED <<now, published, lastSeen, cache, readers>>

\* The key server publishes its next key or takes back its oldest.
Rotate ==
  /\ \/ published.hi < MaxKey /\ published' = [published EXCEPT !.hi = @ + 1]
     \/ published.lo < published.hi /\ published' = [published EXCEPT !.lo = @ + 1]
  /\ lastSeen' = [k \in Kids |-> IF k \in Published' THEN now ELSE lastSeen[k]]
  /\ req' = [r \in AuthRequests |->
               [req[r] EXCEPT !.through = @ /\ req[r].kid \in Published']]
  /\ UNCHANGED <<now, cache, readers>>

\* Only what is awaited takes time, and the exchange with the server no more
\* than MaxFetch, which nothing in the code enforces.
Tick ==
  /\ now < MaxTime
  /\ \A r \in AuthRequests :
       /\ req[r].at \notin {"read", "look"}
       /\ req[r].at \in {"fetch", "write"} => now - req[r].began < MaxFetch
  /\ now' = now + 1
  /\ lastSeen' = [k \in Kids |-> IF k \in Published THEN now' ELSE lastSeen[k]]
  /\ UNCHANGED <<published, cache, readers, req>>

Step(r) == Lock(r) \/ GetKeys(r) \/ Fetch(r) \/ FetchFails(r) \/ Write(r) \/ Look(r)

NextKeys ==
  \/ \E r \in AuthRequests, kid \in Kids : Start(r, kid)
  \/ \E r \in AuthRequests : Step(r)
  \/ Rotate
  \/ Tick

\* A request that can go on goes on; the server answers or the connection breaks.
Fairness == \A r \in AuthRequests : WF_keyVars(Step(r))

SpecKeys == InitKeys /\ [][NextKeys]_keyVars /\ Fairness

-----------------------------------------------------------------------------
(* Properties. *)

(***************************************************************************)
(* A request whose key has been published from when it came to when it was *)
(* decided is never refused: neither because its key is newer than the     *)
(* cache, nor because other requests refresh the cache with older answers  *)
(* at the same time.                                                       *)
(***************************************************************************)
NotRefused == \A r \in AuthRequests : req[r].at = "refused" => ~ req[r].through

(***************************************************************************)
(* A key that has been taken back is accepted for as long as the cache may *)
(* be used and an exchange may take, and no longer: also if an old answer  *)
(* has overwritten a newer one and is taken for fresh.                     *)
(***************************************************************************)
AcceptedRecently ==
  \A r \in AuthRequests : req[r].at = "accepted" => req[r].age <= Stale + MaxFetch

(***************************************************************************)
(* Every request is decided: those that read the cache and those that want *)
(* to write it do not wait for each other, which they would if get_keys    *)
(* kept its guard over the refresh it starts itself.                       *)
(***************************************************************************)
Answered ==
  \A r \in AuthRequests :
    req[r].at = "get" ~> req[r].at \in {"accepted", "refused", "failed"}
=============================================================================
