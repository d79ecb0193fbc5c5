---------------------------- MODULE ServerProofs ----------------------------
(***************************************************************************)
(* Theorems about the server (rustic-boot and the services of rustic-agent *)
(* it starts).                                                             *)
(*                                                                         *)
(* Of the key cache, for any number of requests, any number of keys and    *)
(* any clock: nobody is refused whose key was published all the time, and  *)
(* a key that was taken back is not accepted for long.                     *)
(*                                                                         *)
(* Of the service, for any files it is given, any MCP servers and any      *)
(* number of requests: agents that ask for the same model share the client *)
(* of their provider, a tool call reaches the server and the tool its      *)
(* definition names, or is an error, a topology is built whole, and an     *)
(* unknown agent is met only where validation has not looked.              *)
(***************************************************************************)
EXTENDS KeyCache, AgentService, SequenceTheorems, WellFoundedInduction, TLAPS

-----------------------------------------------------------------------------
(* The key cache. *)

Waiting == {"get", "read", "fetch", "write", "look"}

Request == [at : {"new", "accepted", "refused", "failed"} \cup Waiting,
            kid : Kids \cup {0}, keys : SUBSET Kids, forced : BOOLEAN,
            began : Nat, through : BOOLEAN, age : Int]

KeyType ==
  /\ now \in Nat
  /\ published \in [lo : Kids, hi : Kids]
  /\ lastSeen \in [Kids -> Nat]
  /\ cache \in [keys : SUBSET Kids, fetched_at : Nat]
  /\ req \in [AuthRequests -> Request]

\* A key that is published has been seen just now.
SeenNow == \A k \in Kids : lastSeen[k] <= now /\ (k \in Published => lastSeen[k] = now)

\* What the cache holds was published when the exchange that fetched it began.
CacheSeen == cache.fetched_at <= now
             /\ \A k \in cache.keys : cache.fetched_at <= lastSeen[k] + MaxFetch

\* Of a request q: an exchange under way has not taken longer than it may.
InTime(q) == q.at \in {"fetch", "write"} => q.began <= now /\ now <= q.began + MaxFetch

\* What it has fetched was published when its exchange began, and what it looks
\* its key up in is no older than the cache may be.
KeysSeen(q) ==
  /\ q.at = "write" => \A k \in q.keys : q.began <= lastSeen[k]
  /\ q.at = "look"  => \A k \in q.keys : now <= lastSeen[k] + Stale + MaxFetch

\* A key that was published all the time still is, and is in every answer that
\* was fetched for the request.
ThroughFound(q) ==
  q.through => /\ q.at \in Waiting => q.kid \in Published
               /\ q.at = "write" \/ (q.at = "look" /\ q.forced) => q.kid \in q.keys

\* A refresh is forced only by a request that has looked its key up.
NotYetForced(q) == q.at \in {"new", "get", "read"} => ~ q.forced

\* What NotRefused and AcceptedRecently say of it.
WellDecided(q) == /\ q.at = "refused" => ~ q.through
                  /\ q.at = "accepted" => q.age <= Stale + MaxFetch

Sound(q) == /\ InTime(q) /\ KeysSeen(q) /\ ThroughFound(q)
            /\ NotYetForced(q) /\ WellDecided(q)

AllSound == \A r \in AuthRequests : Sound(req[r])

KeyInv == KeyType /\ SeenNow /\ CacheSeen /\ AllSound

-----------------------------------------------------------------------------

\* Only published keys are numbered.
LEMMA PublishedKids == ASSUME KeyType PROVE Published \subseteq Kids
  BY BoundsAssumption DEF KeyType, Published, Kids

\* At the start the first key is published and cached, and nobody asks.
LEMMA KeysInitial == InitKeys => KeyInv
  <1> SUFFICES ASSUME InitKeys PROVE KeyInv
    OBVIOUS
  <1>1. 1 \in Kids
    BY BoundsAssumption DEF Kids
  <1>2. NoRequest \in Request
    BY DEF NoRequest, Request
  <1>3. KeyType
    BY <1>1, <1>2 DEF InitKeys, KeyType
  <1>4. SeenNow /\ CacheSeen
    BY <1>1, BoundsAssumption DEF InitKeys, SeenNow, CacheSeen
  <1>5. Sound(NoRequest)
    BY DEF NoRequest, Sound, InTime, KeysSeen, ThroughFound, NotYetForced, WellDecided, Waiting
  <1>6. AllSound
    BY <1>5 DEF InitKeys, AllSound
  <1>7. QED BY <1>3, <1>4, <1>6 DEF KeyInv

\* A step of one request that leaves the clock and the keys alone has to show
\* only that this request and the cache are sound.
LEMMA OneRequest ==
  ASSUME KeyInv, NEW r \in AuthRequests, NEW q \in Request,
         req' = [req EXCEPT ![r] = q], UNCHANGED <<now, published, lastSeen>>,
         Sound(q), cache' \in [keys : SUBSET Kids, fetched_at : Nat], CacheSeen'
  PROVE  KeyInv'
  <1>1. KeyType'
    BY DEF KeyInv, KeyType
  <1>2. SeenNow'
    BY DEF KeyInv, SeenNow, Published
  <1>3. ASSUME NEW s \in AuthRequests PROVE Sound(req'[s])
    BY DEF KeyInv, KeyType, AllSound
  <1>4. AllSound'
    <2>1. ASSUME NEW s \in AuthRequests PROVE Sound(req[s])'
      BY <1>3, <2>1 DEF Sound, InTime, KeysSeen, ThroughFound, NotYetForced, WellDecided, Published
    <2>2. QED BY <2>1 DEF AllSound
  <1>5. QED BY <1>1, <1>2, <1>4 DEF KeyInv

\* What is kept of a request that has been decided.
LEMMA DecidedRequest ==
  ASSUME NEW r \in AuthRequests, req[r] \in Request, NEW at \in {"accepted", "refused", "failed"},
         NEW age \in Int
  PROVE  /\ Decided(r, at, age) \in Request
         /\ Decided(r, at, age).at = at /\ Decided(r, at, age).age = age
         /\ Decided(r, at, age).through = req[r].through
  <1>1. Decided(r, at, age) \in Request
    BY Zenon DEF Decided, NoRequest, Request
  <1>2. QED BY <1>1 DEF Decided, NoRequest

\* One that leaves the cache alone as well.
LEMMA OneReader ==
  ASSUME KeyInv, NEW r \in AuthRequests, NEW q \in Request,
         req' = [req EXCEPT ![r] = q], UNCHANGED <<now, published, lastSeen, cache>>,
         Sound(q)
  PROVE  KeyInv'
  <1>1. cache' \in [keys : SUBSET Kids, fetched_at : Nat] /\ CacheSeen'
    BY DEF KeyInv, KeyType, CacheSeen
  <1>2. QED BY <1>1, OneRequest

-----------------------------------------------------------------------------
(* The steps of a request. *)

LEMMA StartInv ==
  ASSUME KeyInv, NEW r \in AuthRequests, NEW kid \in Kids, Start(r, kid) PROVE KeyInv'
  <1>1. PICK t \in BOOLEAN : t = (kid \in Published)
    <2>1. (kid \in Published) \in BOOLEAN
      OBVIOUS
    <2>2. QED BY <2>1, Zenon
  <1> DEFINE q == [req[r] EXCEPT !.at = "get", !.kid = kid, !.through = t]
  <1>2. req[r] \in Request /\ Sound(req[r]) /\ req[r].at = "new"
    BY DEF KeyInv, KeyType, AllSound, Start
  <1>3. q \in Request
    BY <1>2 DEF Request, Waiting
  <1>4. Sound(q)
    BY <1>1, <1>2
       DEF Request, Sound, InTime, KeysSeen, ThroughFound, NotYetForced, WellDecided
  <1>5. req' = [req EXCEPT ![r] = q]
    BY <1>1 DEF Start
  <1>6. UNCHANGED <<now, published, lastSeen, cache>>
    BY DEF Start
  <1> HIDE DEF q
  <1>7. QED BY <1>3, <1>4, <1>5, <1>6, OneReader

LEMMA LockInv ==
  ASSUME KeyInv, NEW r \in AuthRequests, Lock(r) PROVE KeyInv'
  <1> DEFINE q == [req[r] EXCEPT !.at = "read"]
  <1>1. req[r] \in Request /\ Sound(req[r]) /\ req[r].at = "get"
    BY DEF KeyInv, KeyType, AllSound, Lock
  <1>2. q \in Request
    BY <1>1 DEF Request, Waiting
  <1>3. Sound(q)
    BY <1>1 DEF Request, Sound, InTime, KeysSeen, ThroughFound, NotYetForced, WellDecided, Waiting
  <1>4. req' = [req EXCEPT ![r] = q] /\ UNCHANGED <<now, published, lastSeen, cache>>
    BY DEF Lock
  <1> HIDE DEF q
  <1>5. QED BY <1>2, <1>3, <1>4, OneReader

\* A cache that is not stale was fetched Stale ticks ago at most, and its keys
\* were published MaxFetch ticks before that.
LEMMA GetKeysInv ==
  ASSUME KeyInv, NEW r \in AuthRequests, GetKeys(r) PROVE KeyInv'
  <1>1. req[r] \in Request /\ Sound(req[r]) /\ req[r].at = "read"
    BY DEF KeyInv, KeyType, AllSound, GetKeys
  <1>2. UNCHANGED <<now, published, lastSeen, cache>>
    BY DEF GetKeys
  <1>3. CASE IsStale
    <2> DEFINE q == [req[r] EXCEPT !.at = "fetch", !.began = now]
    <2>1. now \in Nat
      BY DEF KeyInv, KeyType
    <2>2. q \in Request
      BY <1>1, <2>1 DEF Request, Waiting
    <2>3. Sound(q)
      BY <1>1, <2>1, BoundsAssumption
         DEF Request, Sound, InTime, KeysSeen, ThroughFound, NotYetForced, WellDecided, Waiting
    <2>4. req' = [req EXCEPT ![r] = q]
      BY <1>3 DEF GetKeys
    <2> HIDE DEF q
    <2>5. QED BY <1>2, <2>2, <2>3, <2>4, OneReader
  <1>4. CASE ~ IsStale
    <2> DEFINE q == [req[r] EXCEPT !.at = "look", !.keys = cache.keys]
    <2>1. q \in Request
      BY <1>1 DEF KeyInv, KeyType, Request, Waiting
    <2>2. \A k \in cache.keys : now <= lastSeen[k] + Stale + MaxFetch
      BY <1>4, BoundsAssumption DEF KeyInv, KeyType, CacheSeen, IsStale
    <2>3. KeysSeen(q)
      BY <1>1, <2>2 DEF Request, KeysSeen
    <2>4. ThroughFound(q)
      BY <1>1 DEF Request, Sound, ThroughFound, NotYetForced, Waiting
    <2>5. Sound(q)
      BY <1>1, <2>3, <2>4 DEF Request, Sound, InTime, NotYetForced, WellDecided
    <2>6. req' = [req EXCEPT ![r] = q]
      BY <1>4 DEF GetKeys
    <2> HIDE DEF q
    <2>7. QED BY <1>2, <2>1, <2>5, <2>6, OneReader
  <1>5. QED BY <1>3, <1>4

\* What the server publishes now has just been seen.
LEMMA FetchInv ==
  ASSUME KeyInv, NEW r \in AuthRequests, Fetch(r) PROVE KeyInv'
  <1> DEFINE q == [req[r] EXCEPT !.at = "write", !.keys = Published]
  <1>1. req[r] \in Request /\ Sound(req[r]) /\ req[r].at = "fetch"
    BY DEF KeyInv, KeyType, AllSound, Fetch
  <1>2. Published \subseteq Kids
    BY PublishedKids DEF KeyInv
  <1>3. q \in Request
    BY <1>1, <1>2 DEF Request, Waiting
  <1>4. q.began <= now /\ now <= q.began + MaxFetch
    BY <1>1 DEF Request, Sound, InTime
  <1>5. \A k \in Published : lastSeen[k] = now
    BY <1>2 DEF KeyInv, SeenNow
  <1>6. KeysSeen(q)
    BY <1>1, <1>4, <1>5 DEF Request, KeysSeen
  <1>7. Sound(q)
    BY <1>1, <1>4, <1>6
       DEF Request, Sound, InTime, ThroughFound, NotYetForced, WellDecided, Waiting
  <1>8. req' = [req EXCEPT ![r] = q] /\ UNCHANGED <<now, published, lastSeen, cache>>
    BY DEF Fetch
  <1> HIDE DEF q
  <1>9. QED BY <1>3, <1>7, <1>8, OneReader

LEMMA FetchFailsInv ==
  ASSUME KeyInv, NEW r \in AuthRequests, FetchFails(r) PROVE KeyInv'
  <1> DEFINE q == Decided(r, "failed", 0)
  <1>1. req[r] \in Request
    BY DEF KeyInv, KeyType
  <1>2. q \in Request
    BY <1>1, DecidedRequest
  <1>3. Sound(q)
    BY <1>1 DEF Request, Decided, NoRequest, Sound, InTime, KeysSeen, ThroughFound,
                NotYetForced, WellDecided, Waiting
  <1>4. req' = [req EXCEPT ![r] = q] /\ UNCHANGED <<now, published, lastSeen, cache>>
    BY DEF FetchFails
  <1> HIDE DEF q
  <1>5. QED BY <1>2, <1>3, <1>4, OneReader

\* The keys written were published when their exchange began, MaxFetch ticks ago
\* at most, whatever another request has written meanwhile.
LEMMA WriteInv ==
  ASSUME KeyInv, NEW r \in AuthRequests, Write(r) PROVE KeyInv'
  <1> DEFINE q == [req[r] EXCEPT !.at = "look", !.began = 0]
  <1>1. req[r] \in Request /\ Sound(req[r]) /\ req[r].at = "write" /\ now \in Nat
    BY DEF KeyInv, KeyType, AllSound, Write
  <1>2. q \in Request
    BY <1>1 DEF Request, Waiting
  <1>3. \A k \in req[r].keys : k \in Kids /\ now <= lastSeen[k] + MaxFetch
    <2>1. lastSeen \in [Kids -> Nat] /\ req[r].keys \subseteq Kids /\ req[r].began \in Nat
      BY <1>1 DEF KeyInv, KeyType, Request
    <2>2. now <= req[r].began + MaxFetch /\ \A k \in req[r].keys : req[r].began <= lastSeen[k]
      BY <1>1 DEF Sound, InTime, KeysSeen
    <2>3. QED BY <1>1, <2>1, <2>2, BoundsAssumption
  <1>4. KeysSeen(q)
    <2>1. \A k \in req[r].keys : now <= lastSeen[k] + Stale + MaxFetch
      BY <1>1, <1>3, BoundsAssumption DEF KeyInv, KeyType
    <2>2. QED BY <1>1, <2>1 DEF Request, KeysSeen
  <1>5. Sound(q)
    BY <1>1, <1>4 DEF Request, Sound, InTime, ThroughFound, NotYetForced, WellDecided, Waiting
  <1>6. cache' \in [keys : SUBSET Kids, fetched_at : Nat]
    BY <1>1 DEF Write, Request
  <1>7. CacheSeen'
    BY <1>1, <1>3 DEF Write, CacheSeen
  <1>8. req' = [req EXCEPT ![r] = q] /\ UNCHANGED <<now, published, lastSeen>>
    BY DEF Write
  <1> HIDE DEF q
  <1>9. QED BY <1>2, <1>5, <1>6, <1>7, <1>8, OneRequest

LEMMA LookInv ==
  ASSUME KeyInv, NEW r \in AuthRequests, Look(r) PROVE KeyInv'
  <1>1. req[r] \in Request /\ Sound(req[r]) /\ req[r].at = "look" /\ now \in Nat
    BY DEF KeyInv, KeyType, AllSound, Look
  <1>2. lastSeen \in [Kids -> Nat]
    BY DEF KeyInv, KeyType
  <1>3. UNCHANGED <<now, published, lastSeen, cache>>
    BY DEF Look
  <1>4. CASE req[r].kid \in req[r].keys /\ req' = [req EXCEPT ![r] =
               Decided(r, "accepted", now - lastSeen[req[r].kid])]
    <2> DEFINE q == Decided(r, "accepted", now - lastSeen[req[r].kid])
    <2>1. req[r].kid \in Kids /\ now <= lastSeen[req[r].kid] + Stale + MaxFetch
      BY <1>1, <1>4 DEF Request, Sound, KeysSeen
    <2>2. now - lastSeen[req[r].kid] \in Int
          /\ now - lastSeen[req[r].kid] <= Stale + MaxFetch
      BY <1>1, <1>2, <2>1, BoundsAssumption
    <2>3. q \in Request
      BY <1>1, <2>2, DecidedRequest
    <2>4. Sound(q)
      BY <1>1, <2>2 DEF Request, Decided, NoRequest, Sound, InTime, KeysSeen, ThroughFound,
                        NotYetForced, WellDecided, Waiting
    <2> HIDE DEF q
    <2>5. req' = [req EXCEPT ![r] = q]
      BY <1>4 DEF q
    <2>6. QED BY <1>3, <2>3, <2>4, <2>5, OneReader
  <1>5. CASE req' = [req EXCEPT ![r].at = "fetch", ![r].began = now, ![r].forced = TRUE,
                                ![r].keys = {}]
    <2> DEFINE q == [req[r] EXCEPT !.at = "fetch", !.began = now, !.forced = TRUE,
                                   !.keys = {}]
    <2>1. q \in Request
      BY <1>1 DEF Request, Waiting
    <2>2. Sound(q)
      BY <1>1, BoundsAssumption DEF Request, Sound, InTime, KeysSeen, ThroughFound,
                                    NotYetForced, WellDecided, Waiting
    <2>3. req' = [req EXCEPT ![r] = q]
      BY <1>5
    <2> HIDE DEF q
    <2>4. QED BY <1>3, <2>1, <2>2, <2>3, OneReader
  <1>6. CASE /\ req[r].kid \notin req[r].keys /\ req[r].forced
             /\ req' = [req EXCEPT ![r] = Decided(r, "refused", 0)]
    <2> DEFINE q == Decided(r, "refused", 0)
    <2>1. ~ req[r].through
      BY <1>1, <1>6 DEF Sound, ThroughFound
    <2>2. q \in Request
      BY <1>1, DecidedRequest
    <2>3. Sound(q)
      BY <1>1, <2>1 DEF Request, Decided, NoRequest, Sound, InTime, KeysSeen, ThroughFound,
                        NotYetForced, WellDecided, Waiting
    <2> HIDE DEF q
    <2>4. req' = [req EXCEPT ![r] = q]
      BY <1>6 DEF q
    <2>5. QED BY <1>3, <2>2, <2>3, <2>4, OneReader
  <1>7. QED BY <1>4, <1>5, <1>6 DEF Look, Returned

-----------------------------------------------------------------------------
(* The key server and the clock. *)

\* A rotation only adds to what has been seen, and takes from what was published
\* all the time.
LEMMA RotateInv == ASSUME KeyInv, Rotate PROVE KeyInv'
  <1>1. now \in Nat /\ lastSeen \in [Kids -> Nat] /\ req \in [AuthRequests -> Request]
    BY DEF KeyInv, KeyType
  <1>2. published' \in [lo : Kids, hi : Kids]
    BY BoundsAssumption DEF KeyInv, KeyType, Rotate, Kids
  <1>3. lastSeen' = [k \in Kids |-> IF k \in Published' THEN now ELSE lastSeen[k]]
        /\ now' = now /\ cache' = cache
    BY DEF Rotate
  <1>4. lastSeen' \in [Kids -> Nat]
    BY <1>1, <1>3
  <1>5. \A k \in Kids : lastSeen[k] <= lastSeen'[k]
    BY <1>1, <1>3 DEF KeyInv, SeenNow
  <1>6. ASSUME NEW r \in AuthRequests
        PROVE  /\ req'[r] \in Request
               /\ req'[r] = [req[r] EXCEPT !.through = req'[r].through]
               /\ req'[r].through => req[r].through /\ req[r].kid \in Published'
    <2>1. req[r] \in Request
      BY <1>1
    <2>2. req'[r] = [req[r] EXCEPT !.through = @ /\ req[r].kid \in Published']
      BY DEF Rotate
    <2>3. (req[r].through /\ req[r].kid \in Published') \in BOOLEAN
      OBVIOUS
    <2>4. PICK t \in BOOLEAN : t = (req[r].through /\ req[r].kid \in Published')
      BY <2>3, Zenon
    <2>5. req'[r] = [req[r] EXCEPT !.through = t]
      BY <2>2, <2>4
    <2>6. QED BY <2>1, <2>4, <2>5 DEF Request
  <1>7. KeyType'
    BY <1>1, <1>2, <1>3, <1>4, <1>6 DEF KeyInv, KeyType, Rotate
  <1>8. SeenNow'
    BY <1>1, <1>3 DEF KeyInv, SeenNow
  <1>9. CacheSeen'
    BY <1>1, <1>3, <1>4, <1>5, BoundsAssumption DEF KeyInv, KeyType, CacheSeen
  <1>10. AllSound'
    <2>1. ASSUME NEW r \in AuthRequests PROVE Sound(req[r])'
      <3>1. req[r] \in Request /\ Sound(req[r])
        BY <1>1 DEF KeyInv, AllSound
      <3>2. /\ req'[r].at = req[r].at /\ req'[r].kid = req[r].kid
            /\ req'[r].keys = req[r].keys /\ req'[r].forced = req[r].forced
            /\ req'[r].began = req[r].began /\ req'[r].age = req[r].age
        BY <1>6, <3>1 DEF Request
      <3>3. KeysSeen(req[r])'
        <4>1. \A k \in req[r].keys : k \in Kids /\ lastSeen[k] \in Nat /\ lastSeen'[k] \in Nat
          BY <1>1, <1>4, <3>1 DEF Request
        <4>2. req[r].began \in Nat
          BY <3>1 DEF Request
        <4>3. QED BY <1>1, <1>3, <1>5, <3>1, <3>2, <4>1, <4>2, BoundsAssumption
                  DEF Sound, KeysSeen
      <3>4. (InTime(req[r]) /\ NotYetForced(req[r]) /\ WellDecided(req[r]))'
        BY <1>3, <1>6, <3>1, <3>2 DEF Sound, InTime, NotYetForced, WellDecided
      <3>5. ThroughFound(req[r])'
        BY <1>6, <3>1, <3>2 DEF Sound, ThroughFound
      <3>6. QED BY <3>3, <3>4, <3>5 DEF Sound
    <2>2. QED BY <2>1 DEF AllSound
  <1>11. QED BY <1>7, <1>8, <1>9, <1>10 DEF KeyInv

\* Time passes only while every exchange may take longer and nobody looks.
LEMMA TickInv == ASSUME KeyInv, Tick PROVE KeyInv'
  <1>1. /\ now \in Nat /\ lastSeen \in [Kids -> Nat] /\ req \in [AuthRequests -> Request]
        /\ cache \in [keys : SUBSET Kids, fetched_at : Nat]
    BY DEF KeyInv, KeyType
  <1>2. now' = now + 1 /\ UNCHANGED <<published, cache, readers, req>>
        /\ lastSeen' = [k \in Kids |-> IF k \in Published THEN now' ELSE lastSeen[k]]
    BY DEF Tick
  <1>3. lastSeen' \in [Kids -> Nat]
    BY <1>1, <1>2
  <1>4. \A k \in Kids : lastSeen[k] <= lastSeen'[k]
    BY <1>1, <1>2 DEF KeyInv, SeenNow
  <1>5. KeyType'
    BY <1>1, <1>2, <1>3 DEF KeyInv, KeyType
  <1>6. SeenNow'
    BY <1>1, <1>2 DEF KeyInv, SeenNow, Published
  <1>7. CacheSeen'
    BY <1>1, <1>2, <1>3, <1>4, BoundsAssumption DEF KeyInv, CacheSeen
  <1>8. AllSound'
    <2>1. ASSUME NEW r \in AuthRequests PROVE Sound(req[r])'
      <3>1. req[r] \in Request /\ Sound(req[r]) /\ req'[r] = req[r]
        BY <1>1, <1>2 DEF KeyInv, AllSound
      <3>2. req[r].at # "look"
            /\ (req[r].at \in {"fetch", "write"} => now - req[r].began < MaxFetch)
        BY DEF Tick
      <3>3. InTime(req[r])'
        BY <1>1, <1>2, <3>1, <3>2, BoundsAssumption DEF Request, Sound, InTime
      <3>4. KeysSeen(req[r])'
        <4>1. \A k \in req[r].keys : k \in Kids /\ lastSeen[k] \in Nat /\ lastSeen'[k] \in Nat
          BY <1>1, <1>3, <3>1 DEF Request
        <4>2. req[r].began \in Nat
          BY <3>1 DEF Request
        <4>3. QED BY <1>4, <3>1, <3>2, <4>1, <4>2 DEF Sound, KeysSeen
      <3>5. (ThroughFound(req[r]) /\ NotYetForced(req[r]) /\ WellDecided(req[r]))'
        BY <1>2, <3>1 DEF Sound, ThroughFound, NotYetForced, WellDecided, Published
      <3>6. QED BY <3>3, <3>4, <3>5 DEF Sound
    <2>2. QED BY <2>1 DEF AllSound
  <1>9. QED BY <1>5, <1>6, <1>7, <1>8 DEF KeyInv

\* Every step keeps the invariant.
LEMMA KeysStep == KeyInv /\ [NextKeys]_keyVars => KeyInv'
  <1> SUFFICES ASSUME KeyInv, [NextKeys]_keyVars PROVE KeyInv'
    OBVIOUS
  <1>1. ASSUME NEW r \in AuthRequests, NEW kid \in Kids, Start(r, kid) PROVE KeyInv'
    BY <1>1, StartInv
  <1>2. ASSUME NEW r \in AuthRequests, Step(r) PROVE KeyInv'
    BY <1>2, LockInv, GetKeysInv, FetchInv, FetchFailsInv, WriteInv, LookInv DEF Step
  <1>3. CASE Rotate
    BY <1>3, RotateInv
  <1>4. CASE Tick
    BY <1>4, TickInv
  <1>5. CASE UNCHANGED keyVars
    BY <1>5 DEF keyVars, KeyInv, KeyType, SeenNow, CacheSeen, AllSound, Sound, InTime, KeysSeen,
                ThroughFound, NotYetForced, WellDecided, Published
  <1>6. QED BY <1>1, <1>2, <1>3, <1>4, <1>5 DEF NextKeys

-----------------------------------------------------------------------------

\* The inductive invariant holds in every state of every behaviour.
THEOREM KeyInvariance == SpecKeys => []KeyInv
  <1>1. QED BY KeysInitial, KeysStep, PTL DEF SpecKeys

\* Every variable keeps its type.
THEOREM KeysTyped == SpecKeys => []KeyType
  <1>1. KeyInv => KeyType
    BY DEF KeyInv
  <1>2. QED BY <1>1, KeyInvariance, PTL

\* validate_token never refuses a request for its key when that was published from
\* when the request came to when it was decided, whatever other requests write to
\* the cache meanwhile.
THEOREM PublishedAccepted == SpecKeys => []NotRefused
  <1>1. KeyInv => NotRefused
    BY DEF KeyInv, AllSound, Sound, WellDecided, NotRefused
  <1>2. QED BY <1>1, KeyInvariance, PTL

\* A key that was taken back is accepted for as long as the cache lives and an
\* exchange with the key server takes, and no longer.
THEOREM WithdrawnExpires == SpecKeys => []AcceptedRecently
  <1>1. KeyInv => AcceptedRecently
    BY DEF KeyInv, AllSound, Sound, WellDecided, AcceptedRecently
  <1>2. QED BY <1>1, KeyInvariance, PTL

-----------------------------------------------------------------------------
(* Least elements. *)

\* A set of naturals has a least element.
LEMMA Least ==
  ASSUME NEW T \in SUBSET Nat, T # {}
  PROVE  \E n \in T : \A m \in T : n <= m
  <1> DEFINE R == {p \in Nat \X Nat : p[1] < p[2]}
  <1>1. IsWellFoundedOn(R, Nat)
    BY NatLessThanWellFounded DEF OpToRel
  <1>2. PICK n \in T : \A m \in T : <<m, n>> \notin R
    <2> HIDE DEF R
    <2>1. QED BY <1>1, WFMin
  <1>3. ASSUME NEW m \in T PROVE n <= m
    <2>1. <<m, n>> \in Nat \X Nat /\ <<m, n>>[1] = m /\ <<m, n>>[2] = n
      OBVIOUS
    <2>2. ~(m < n)
      BY <1>2, <2>1
    <2>3. QED BY <2>2
  <1>4. QED BY <1>3

-----------------------------------------------------------------------------
(* What a POST comes to, and the first entry with an id. *)

LEMMA MinIs ==
  ASSUME NEW S \in SUBSET Nat, S # {}
  PROVE  Min(S) \in S /\ \A y \in S : Min(S) <= y
  <1>1. \E x \in S : \A y \in S : x <= y
    BY Least
  <1>2. QED BY <1>1 DEF Min

LEMMA FirstDataIs ==
  ASSUME NEW T, NEW lines \in Seq(T), NEW i, i = FirstData(lines)
  PROVE  \/ /\ i \in 1..Len(lines) /\ lines[i] # "event"
            /\ \A j \in 1..(i - 1) : lines[j] = "event"
         \/ i = 0 /\ \A j \in 1..Len(lines) : lines[j] = "event"
  <1> DEFINE I == {j \in 1..Len(lines) : IsData(lines[j])}
  <1>1. i = IF I # {} THEN Min(I) ELSE 0
    BY DEF FirstData, SelectInSeq
  <1>2. I \in SUBSET Nat /\ Len(lines) \in Nat
    OBVIOUS
  <1>3. \A j \in 1..Len(lines) : j \in I <=> lines[j] # "event"
    BY DEF IsData
  <1> HIDE DEF I
  <1>4. CASE I = {}
    BY <1>1, <1>3, <1>4
  <1>5. CASE I # {}
    <2>1. i \in I /\ \A j \in I : i <= j
      BY <1>1, <1>2, <1>5, MinIs
    <2>2. i \in 1..Len(lines)
      <3>1. I \subseteq 1..Len(lines)
        BY DEF I
      <3>2. QED BY <2>1, <3>1
    <2>3. QED BY <2>1, <2>2, <1>2, <1>3
  <1>6. QED BY <1>4, <1>5

LEMMA DecodedIs ==
  ASSUME NEW d \in Replies, NEW answer
  PROVE  IF \E i \in DOMAIN d.lines : d.lines[i] = "answer" /\ \A j \in 1..(i - 1) : d.lines[j] = "event"
         THEN Decoded(d, answer) = Ok(answer) ELSE Decoded(d, answer) = Err("Other")
  <1> DEFINE lines == d.lines
             k == IF d.events THEN FirstData(lines) ELSE 1
             first == \E i \in DOMAIN lines : lines[i] = "answer" /\ \A j \in 1..(i - 1) : lines[j] = "event"
  <1>1. /\ lines \in Seq({"answer", "other", "event"}) /\ d.events \in BOOLEAN
        /\ d.events \/ Len(lines) <= 1
    BY DEF Replies
  <1>2. Len(lines) \in Nat /\ DOMAIN lines = 1..Len(lines)
    BY <1>1
  <1>3. Decoded(d, answer) = IF k \in DOMAIN lines /\ lines[k] = "answer" THEN Ok(answer) ELSE Err("Other")
    BY DEF Decoded
  <1>4. first <=> k \in DOMAIN lines /\ lines[k] = "answer"
    <2>1. CASE d.events
      <3> DEFINE f == FirstData(lines)
      <3> HIDE DEF lines, f
      <3>1. \/ f \in 1..Len(lines) /\ lines[f] # "event" /\ \A j \in 1..(f - 1) : lines[j] = "event"
            \/ f = 0 /\ \A j \in 1..Len(lines) : lines[j] = "event"
        BY <1>1, FirstDataIs DEF f
      <3>2. \A i \in 1..Len(lines) : lines[i] = "answer" /\ (\A j \in 1..(i - 1) : lines[j] = "event")
              => i = f
        BY <1>2, <3>1
      <3>3. first <=> f \in DOMAIN lines /\ lines[f] = "answer"
        BY <1>2, <3>1, <3>2
      <3>4. k = f
        BY <2>1 DEF f
      <3>5. QED BY <3>3, <3>4
    <2>2. CASE ~ d.events
      <3> HIDE DEF lines
      <3>1. k = 1 /\ Len(lines) <= 1
        BY <2>2, <1>1
      <3>2. \A i \in DOMAIN lines : i = 1
        BY <1>2, <3>1
      <3>3. QED BY <3>1, <3>2
    <2>3. QED BY <2>1, <2>2, <1>1
  <1> HIDE DEF k, lines
  <1>5. QED BY <1>3, <1>4 DEF lines

LEMMA PostIs ==
  ASSUME NEW d \in Replies, NEW answer
  PROVE  /\ Arrives(d) => PostRequest(d, answer) = Ok(answer)
         /\ ~ Arrives(d) => PostRequest(d, answer).ok = FALSE
  <1>1. \A e : Err(e).ok = FALSE
    BY DEF Err
  <1> DEFINE first == \E i \in DOMAIN d.lines : d.lines[i] = "answer"
                                                /\ \A j \in 1..(i - 1) : d.lines[j] = "event"
  <1>2. IF first THEN Decoded(d, answer) = Ok(answer) ELSE Decoded(d, answer) = Err("Other")
    BY DecodedIs
  <1>3. Arrives(d) <=> d.sent = "yes" /\ d.status \in 200..299 /\ d.whole /\ first
    BY DEF Arrives
  <1>4. SendError(d).ok = FALSE
    BY <1>1 DEF SendError
  <1>5. StatusError(d).ok = FALSE
    BY <1>1 DEF StatusError, WithBody
  <1>6. d.whole \in BOOLEAN /\ first \in BOOLEAN
    BY DEF Replies
  <1> DEFINE w == d.whole
             reached == d.sent = "yes" /\ d.status \in 200..299
             told == IF w THEN Decoded(d, answer) ELSE Err("NetworkError")
  <1>7. PostRequest(d, answer) = IF reached THEN told
                                 ELSE IF d.sent # "yes" THEN SendError(d) ELSE StatusError(d)
    BY <1>6 DEF PostRequest
  <1>8. Arrives(d) <=> reached /\ w /\ first
    BY <1>3
  <1>9. IF w /\ first THEN told = Ok(answer) ELSE told.ok = FALSE
    <2>1. CASE w
      <3> HIDE DEF w, first
      <3>1. told = Decoded(d, answer)
        BY <2>1
      <3>2. QED BY <1>1, <1>2, <2>1, <3>1
    <2>2. CASE ~ w
      BY <1>1, <2>2
    <2>3. QED BY <2>1, <2>2, <1>6
  <1>10. reached \in BOOLEAN /\ w \in BOOLEAN
    BY <1>6
  <1> HIDE DEF first, w, reached, told
  <1>11. CASE reached /\ w /\ first
    BY <1>7, <1>8, <1>9, <1>11
  <1>12. CASE ~ (reached /\ w /\ first)
    <2>1. PostRequest(d, answer).ok = FALSE
      <3>1. CASE reached
        BY <1>7, <1>9, <1>12, <3>1
      <3>2. CASE ~ reached
        BY <1>4, <1>5, <1>7, <3>2
      <3>3. QED BY <3>1, <3>2
    <2>2. QED BY <2>1, <1>8, <1>12
  <1>13. QED BY <1>11, <1>12

LEMMA FindIs ==
  ASSUME NEW xs, NEW x \in Ids(xs)
  PROVE  \E i \in 1..Len(xs) : Find(xs, x) = xs[i] /\ xs[i].id = x
  <1> DEFINE I == {i \in 1..Len(xs) : xs[i].id = x}
  <1>1. \E i \in 1..Len(xs) : xs[i].id = x
    BY DEF Ids
  <1>2. 1..Len(xs) \subseteq Nat
    OBVIOUS
  <1>3. I # {} /\ I \in SUBSET Nat
    BY <1>1, <1>2
  <1>4. Find(xs, x) = xs[Min(I)]
    BY <1>3 DEF Find, SelectInSeq
  <1>5. Min(I) \in I
    <2> HIDE DEF I
    <2>1. QED BY <1>3, MinIs
  <1>6. QED BY <1>4, <1>5

-----------------------------------------------------------------------------
(* Functions that grow. *)

LEMMA OverlaidIs ==
  ASSUME NEW f, NEW g
  PROVE  /\ DOMAIN Overlaid(f, g) = DOMAIN f \cup DOMAIN g
         /\ \A y \in DOMAIN g : Overlaid(f, g)[y] = g[y]
         /\ \A y \in DOMAIN f \ DOMAIN g : Overlaid(f, g)[y] = f[y]
  BY DEF Overlaid

LEMMA WithIs ==
  \A f, x, v : /\ DOMAIN With(f, x, v) = DOMAIN f \cup {x}
               /\ With(f, x, v)[x] = v
               /\ \A y \in DOMAIN f \ {x} : With(f, x, v)[y] = f[y]
  <1> TAKE f, x, v
  <1> DEFINE g == [y \in {x} |-> v]
  <1>1. DOMAIN g = {x} /\ g[x] = v
    OBVIOUS
  <1>2. With(f, x, v) = Overlaid(f, g)
    BY DEF With
  <1>3. /\ DOMAIN Overlaid(f, g) = DOMAIN f \cup DOMAIN g
        /\ \A y \in DOMAIN g : Overlaid(f, g)[y] = g[y]
        /\ \A y \in DOMAIN f \ DOMAIN g : Overlaid(f, g)[y] = f[y]
    BY OverlaidIs
  <1> DEFINE o == Overlaid(f, g)
  <1> HIDE DEF g, o
  <1>4. /\ DOMAIN o = DOMAIN f \cup {x} /\ o[x] = v
        /\ \A y \in DOMAIN f \ {x} : o[y] = f[y]
    BY <1>1, <1>3 DEF o
  <1>5. QED BY <1>2, <1>4 DEF o

-----------------------------------------------------------------------------
(* The inductive invariant. *)

\* A client is of the server it is registered under, opened in one of its lives,
\* and has the session the server opened then.
RegistryHolds(reg) ==
  \A s \in DOMAIN reg : /\ s \in Servers /\ reg[s].server = s
                        /\ reg[s].at \in Nat /\ reg[s].at <= gen[s]
                        /\ s \notin Stateless => reg[s].session = reg[s].at

\* A definition is of a tool of a server with a client, under the name of both.
DefinitionsHold(defs, reg) ==
  \A n \in DOMAIN defs : \E s \in DOMAIN reg : \E t \in ToolsOf[s] :
    n = Namespaced(s, t) /\ defs[n] = [server |-> s, tool |-> t]

McpHolds == /\ gen \in [Servers -> Nat] /\ writer \in Servers \cup {None}
            /\ RegistryHolds(registry) /\ DefinitionsHold(definitions, registry)

\* A client's key is that of a provider the server has, and it talks to it.
ClientsHold ==
  \A k \in DOMAIN clients : \E llm \in Ids(providers) :
    k[1] = ClientKey(llm, k[2])[1] /\ clients[k].endpoint = Endpoint(llm)

\* An agent has the client of the cache, and tools as they once were.
AgentHolds(a) == /\ a.key \in DOMAIN clients /\ clients[a.key] = a.client
                 /\ a.key[1] = ClientKey(a.llm, a.key[2])[1]
                 /\ RegistryHolds(a.registry) /\ DefinitionsHold(a.definitions, a.registry)

IsJob(j) == /\ DOMAIN j = {"st", "root", "todo", "visited", "built", "err"}
            /\ j.built \in Seq(Range(j.built))

JobsHold == /\ DOMAIN job = Requests
            /\ \A r \in Requests : /\ IsJob(job[r])
                                   /\ \A a \in Range(job[r].built) : AgentHolds(a)

\* Nothing is asked for before the server serves.
BootHolds == /\ boot[1] \in {"mcp", "validate"} => boot[2] \in Nat \ {0}
             /\ boot # <<"serving">> =>
                  /\ DOMAIN clients = {}
                  /\ \A r \in Requests : job[r].built = <<>> /\ job[r].st = "idle"

ServiceInv == McpHolds /\ ClientsHold /\ JobsHold /\ BootHolds /\ CallsReach

-----------------------------------------------------------------------------
(* The MCP registry. *)

GenGrows == /\ gen \in [Servers -> Nat] /\ gen' \in [Servers -> Nat]
            /\ \A s \in Servers : gen[s] <= gen'[s]

LEMMA RegistryKept ==
  ASSUME NEW reg, RegistryHolds(reg), GenGrows
  PROVE  RegistryHolds(reg)'
  BY DEF RegistryHolds, GenGrows

LEMMA RegisteredHolds ==
  ASSUME McpHolds, NEW s \in Servers, gen' = gen, RegisterServer(s)
  PROVE  RegistryHolds(registry)' /\ DOMAIN registry' = DOMAIN registry \cup {s}
  <1> DEFINE c == Initialized(s)
  <1>1. /\ c.server = s /\ c.at = gen[s] /\ c.at \in Nat
        /\ s \notin Stateless => c.session = gen[s]
    BY DEF Initialized, McpHolds
  <1> HIDE DEF c
  <1>2. /\ DOMAIN registry' = DOMAIN registry \cup {s} /\ registry'[s] = c
        /\ \A y \in DOMAIN registry \ {s} : registry'[y] = registry[y]
    <2>1. registry' = With(registry, s, c)
      BY DEF RegisterServer, c
    <2>2. DOMAIN registry' = DOMAIN registry \cup {s}
      BY <2>1, WithIs
    <2>3. registry'[s] = c
      BY <2>1, WithIs
    <2>4. \A y \in DOMAIN registry \ {s} : registry'[y] = registry[y]
      BY <2>1, WithIs
    <2>5. QED BY <2>2, <2>3, <2>4
  <1>3. QED BY <1>1, <1>2 DEF McpHolds, RegistryHolds

LEMMA AddedHold ==
  ASSUME McpHolds, NEW s \in Servers, NEW tools \in SUBSET ToolsOf[s],
         DOMAIN registry' = DOMAIN registry \cup {s}, AddDefinitions(s, tools)
  PROVE  DefinitionsHold(definitions, registry)'
  <1> DEFINE pick(n) == CHOOSE t \in tools : Namespaced(s, t) = n
             added == [n \in {Namespaced(s, t) : t \in tools} |->
                         [server |-> s, tool |-> pick(n)]]
  <1>1. definitions' = Overlaid(definitions, added)
    BY DEF AddDefinitions
  <1>2. ASSUME NEW n \in DOMAIN added
        PROVE  \E t \in ToolsOf[s] : n = Namespaced(s, t) /\ added[n] = [server |-> s, tool |-> t]
    <2>1. \E t \in tools : Namespaced(s, t) = n
      BY <1>2
    <2>2. pick(n) \in tools /\ Namespaced(s, pick(n)) = n
      BY <2>1
    <2>3. added[n] = [server |-> s, tool |-> pick(n)]
      BY <1>2
    <2>4. QED BY <2>2, <2>3
  <1> DEFINE o == Overlaid(definitions, added)
  <1>a. /\ DOMAIN o = DOMAIN definitions \cup DOMAIN added
        /\ \A y \in DOMAIN added : o[y] = added[y]
        /\ \A y \in DOMAIN definitions \ DOMAIN added : o[y] = definitions[y]
    <2> HIDE DEF added
    <2>1. QED BY OverlaidIs
  <1>b. definitions' = o
    BY <1>1
  <1> HIDE DEF added, o
  <1>3. ASSUME NEW n \in DOMAIN definitions'
        PROVE  \E u \in DOMAIN registry' : \E t \in ToolsOf[u] :
                 n = Namespaced(u, t) /\ definitions'[n] = [server |-> u, tool |-> t]
    <2>1. CASE n \in DOMAIN added
      <3>1. definitions'[n] = added[n]
        BY <1>a, <1>b, <2>1
      <3>2. QED BY <1>2, <2>1, <3>1
    <2>2. CASE n \notin DOMAIN added
      <3>1. n \in DOMAIN definitions /\ definitions'[n] = definitions[n]
        BY <1>a, <1>b, <1>3, <2>2
      <3>2. QED BY <3>1 DEF McpHolds, DefinitionsHold
    <2>3. QED BY <2>1, <2>2
  <1>4. QED BY <1>3 DEF DefinitionsHold

LEMMA DefinitionsKept ==
  ASSUME McpHolds, DOMAIN registry \subseteq DOMAIN registry'
  PROVE  definitions' = definitions => DefinitionsHold(definitions, registry)'
  BY DEF McpHolds, DefinitionsHold

LEMMA NextMcpHolds ==
  ASSUME McpHolds, NextMcp
  PROVE  McpHolds' /\ GenGrows
  <1>1. CASE WithMcpRegistry
    <2>1. /\ writer \in Servers /\ writer' = None /\ gen' = gen /\ definitions' = definitions
          /\ RegisterServer(writer) \/ registry' = registry
      BY <1>1 DEF WithMcpRegistry, McpHolds
    <2>2. GenGrows
      BY <2>1 DEF GenGrows, McpHolds
    <2>3. RegistryHolds(registry)' /\ DOMAIN registry \subseteq DOMAIN registry'
      <3>1. CASE RegisterServer(writer)
        BY <2>1, <3>1, RegisteredHolds
      <3>2. CASE registry' = registry
        BY <2>1, <3>2 DEF RegistryHolds, McpHolds
      <3>3. QED BY <2>1, <3>1, <3>2
    <2>4. QED BY <2>1, <2>2, <2>3, DefinitionsKept DEF McpHolds, GenGrows
  <1>2. ASSUME NEW s \in Servers, LockRegistry(s)
        PROVE  McpHolds' /\ GenGrows
    BY <1>2 DEF LockRegistry, McpHolds, RegistryHolds, DefinitionsHold, GenGrows
  <1>3. ASSUME NEW s \in Servers, NEW t \in ToolsOf[s], WithMcpTool(s, t)
        PROVE  McpHolds' /\ GenGrows
    <2> DEFINE n0 == Namespaced(s, t)
               rec == [server |-> s, tool |-> t]
    <2>1. /\ s \in DOMAIN registry /\ registry' = registry /\ gen' = gen /\ writer' = writer
          /\ definitions' = With(definitions, n0, rec)
      BY <1>3 DEF WithMcpTool, AddDefinition
    <2>2. /\ DOMAIN definitions' = DOMAIN definitions \cup {n0} /\ definitions'[n0] = rec
          /\ \A n \in DOMAIN definitions \ {n0} : definitions'[n] = definitions[n]
      <3> HIDE DEF n0, rec
      <3>1. DOMAIN definitions' = DOMAIN definitions \cup {n0}
        BY <2>1, WithIs
      <3>2. definitions'[n0] = rec
        BY <2>1, WithIs
      <3>3. \A n \in DOMAIN definitions \ {n0} : definitions'[n] = definitions[n]
        BY <2>1, WithIs
      <3>4. QED BY <3>1, <3>2, <3>3
    <2>3. DefinitionsHold(definitions, registry)'
      <3>1. ASSUME NEW n \in DOMAIN definitions'
            PROVE  \E u \in DOMAIN registry' : \E v \in ToolsOf[u] :
                     n = Namespaced(u, v) /\ definitions'[n] = [server |-> u, tool |-> v]
        <4>1. CASE n = n0
          BY <2>1, <2>2, <4>1
        <4>2. CASE n # n0
          <5>1. n \in DOMAIN definitions /\ definitions'[n] = definitions[n]
            BY <2>2, <3>1, <4>2
          <5>2. QED BY <2>1, <5>1 DEF McpHolds, DefinitionsHold
        <4>3. QED BY <4>1, <4>2
      <3>2. QED BY <3>1 DEF DefinitionsHold
    <2>4. GenGrows
      BY <2>1 DEF GenGrows, McpHolds
    <2>5. RegistryHolds(registry)'
      BY <2>1 DEF McpHolds, RegistryHolds
    <2>6. QED BY <2>1, <2>3, <2>4, <2>5 DEF McpHolds
  <1>4. ASSUME NEW s \in Servers, Restart(s)
        PROVE  McpHolds' /\ GenGrows
    <2>1. GenGrows
      BY <1>4 DEF Restart, GenGrows, McpHolds
    <2>2. registry' = registry /\ definitions' = definitions /\ writer' = writer
      BY <1>4 DEF Restart
    <2>3. RegistryHolds(registry)'
      BY <2>1, <2>2 DEF RegistryHolds, McpHolds, GenGrows
    <2>4. QED BY <2>1, <2>2, <2>3 DEF McpHolds, DefinitionsHold, GenGrows
  <1>5. QED BY <1>1, <1>2, <1>3, <1>4 DEF NextMcp

-----------------------------------------------------------------------------
(* Where a call lands. *)

\* n is s with t behind it, place by place.
Behind(T, s, t, n) == /\ n \in Seq(T) /\ Len(n) = Len(s) + Len(t)
                      /\ \A i \in 1..Len(s) : n[i] = s[i]
                      /\ \A i \in 1..Len(t) : n[Len(s) + i] = t[i]

\* n is a name put together of s and t, place by place.
Joined(T, s, t, n) ==
  /\ n \in Seq(T) /\ Len(n) = Len(s) + 3 + Len(t)
  /\ \A i \in 1..Len(s) : n[i] = s[i]
  /\ n[Len(s) + 1] = Underscore /\ n[Len(s) + 2] = Underscore /\ n[Len(s) + 3] = Underscore
  /\ \A i \in 1..Len(t) : n[Len(s) + 3 + i] = t[i]

\* What concatenation gives.
LEMMA BehindIs ==
  ASSUME NEW T PROVE \A s \in Seq(T), t \in Seq(T) : Behind(T, s, t, s \o t)
  <1> SUFFICES ASSUME NEW s \in Seq(T), NEW t \in Seq(T) PROVE Behind(T, s, t, s \o t)
    OBVIOUS
  <1>1. s \o t \in Seq(T) /\ Len(s \o t) = Len(s) + Len(t)
    OBVIOUS
  <1>2. \A i \in 1..Len(s) : (s \o t)[i] = s[i]
    OBVIOUS
  <1>3. \A i \in 1..Len(t) : (s \o t)[Len(s) + i] = t[i]
    OBVIOUS
  <1>4. QED BY <1>1, <1>2, <1>3 DEF Behind

\* What a name is put together of.
LEMMA JoinedIs ==
  ASSUME NEW T, Underscore \in T
  PROVE  \A s \in Seq(T), t \in Seq(T) : Joined(T, s, t, Namespaced(s, t))
  <1> SUFFICES ASSUME NEW s \in Seq(T), NEW t \in Seq(T)
               PROVE  Joined(T, s, t, Namespaced(s, t))
    OBVIOUS
  <1> DEFINE p == Separator
             m == s \o p
             n == m \o t
             l == Len(s)
             k == Len(t)
  <1>1. p \in Seq(T) /\ Len(p) = 3 /\ p[1] = Underscore /\ p[2] = Underscore /\ p[3] = Underscore
    BY DEF Separator
  <1>2. l \in Nat /\ k \in Nat
    OBVIOUS
  <1> HIDE DEF p
  <1>3. Behind(T, s, p, m)
    BY <1>1, BehindIs
  <1> HIDE DEF m
  <1>4. m \in Seq(T)
    BY <1>3 DEF Behind
  <1>5. Behind(T, m, t, n)
    BY <1>4, BehindIs
  <1>6. Namespaced(s, t) = n
    BY DEF Namespaced, n, m, p
  <1> HIDE DEF n, l, k
  <1>7. /\ Len(m) = l + 3
        /\ \A i \in 1..l : m[i] = s[i]
        /\ m[l + 1] = Underscore /\ m[l + 2] = Underscore /\ m[l + 3] = Underscore
    <2>1. 1 \in 1..Len(p) /\ 2 \in 1..Len(p) /\ 3 \in 1..Len(p)
      BY <1>1
    <2>2. Len(m) = l + 3 /\ \A i \in 1..l : m[i] = s[i]
      BY <1>1, <1>3 DEF Behind, l
    <2>3. m[l + 1] = p[1] /\ m[l + 2] = p[2] /\ m[l + 3] = p[3]
      BY <1>3, <2>1 DEF Behind, l
    <2>4. QED BY <1>1, <2>2, <2>3
  <1>8. n \in Seq(T) /\ Len(n) = Len(m) + k
    BY <1>5 DEF Behind, k
  <1>9. \A i \in 1..Len(m) : n[i] = m[i]
    BY <1>5 DEF Behind
  <1>10. \A i \in 1..k : n[Len(m) + i] = t[i]
    BY <1>5 DEF Behind, k
  <1>11. l + 1 \in 1..Len(m) /\ l + 2 \in 1..Len(m) /\ l + 3 \in 1..Len(m)
    BY <1>2, <1>7
  <1>12. n[l + 1] = Underscore /\ n[l + 2] = Underscore /\ n[l + 3] = Underscore
    BY <1>7, <1>9, <1>11
  <1>13. \A i \in 1..l : n[i] = s[i]
    <2>1. \A i \in 1..l : i \in 1..Len(m)
      BY <1>2, <1>7
    <2>2. QED BY <1>7, <1>9, <2>1
  <1>14. Len(n) = l + 3 + k /\ \A i \in 1..k : n[l + 3 + i] = t[i]
    BY <1>7, <1>8, <1>10
  <1>15. QED BY <1>6, <1>8, <1>12, <1>13, <1>14 DEF Joined, l, k

\* A part ends where the first separator behind its beginning is.
LEMMA EndIs ==
  ASSUME NEW T, NEW n \in Seq(T), NEW from \in Nat, from >= 1, NEW e \in Nat, e >= from,
         e <= Len(n) + 1, e <= Len(n) => SeparatorAt(n, e),
         \A i \in from..(e - 1) : ~ SeparatorAt(n, i)
  PROVE  EndsBefore(n, from) = e
  <1> DEFINE S == {i \in from..Len(n) : SeparatorAt(n, i)} \cup {Len(n) + 1}
  <1>1. Len(n) \in Nat
    OBVIOUS
  <1>2. S \in SUBSET Nat /\ S # {}
    BY <1>1
  <1>3. e \in S
    BY <1>1
  <1>4. \A i \in S : e <= i
    BY <1>1
  <1>5. EndsBefore(n, from) = Min(S)
    BY DEF EndsBefore
  <1> HIDE DEF S
  <1>6. Min(S) \in S /\ \A y \in S : Min(S) <= y
    BY <1>2, MinIs
  <1>7. Min(S) \in Nat
    BY <1>2, <1>6
  <1>8. QED BY <1>3, <1>4, <1>5, <1>6, <1>7

\* A name that is put together of separable parts is taken apart into them.
LEMMA NameParts ==
  ASSUME NEW s \in Servers, NEW t \in ToolsOf[s], NEW n, n = Namespaced(s, t), Separable(s, t)
  PROVE  ServerPart(n) = s /\ ToolPart(n) = t
  <1> DEFINE T == STRING \cup {Underscore}
  <1>1. s \in Seq(T) /\ t \in Seq(T) /\ Underscore \in T
    <2>1. s \in Seq(STRING) /\ t \in Seq(STRING)
      BY NamesAssumption DEF NamesAssumption
    <2>2. QED BY <2>1
  <1> HIDE DEF T
  <1> DEFINE l == Len(s)
             k == Len(t)
  <1>2. /\ n \in Seq(T) /\ Len(n) = l + 3 + k
        /\ \A i \in 1..l : n[i] = s[i]
        /\ n[l + 1] = Underscore /\ n[l + 2] = Underscore /\ n[l + 3] = Underscore
        /\ \A i \in 1..k : n[l + 3 + i] = t[i]
    <2>1. Joined(T, s, t, n)
      BY <1>1, JoinedIs
    <2>2. QED BY <2>1 DEF Joined
  <1>3. l \in Nat /\ k \in Nat
    BY <1>1
  <1>4. /\ \A i \in 1..l : ~ SeparatorAt(s, i)
        /\ \A i \in 1..k : ~ SeparatorAt(t, i)
        /\ l # 0 => s[l] # Underscore
    <2>1. l # 0 => s # <<>>
      BY <1>1
    <2>2. QED BY <2>1 DEF Separable
  <1>5. \A i \in 1..l : ~ SeparatorAt(n, i)
    <2>1. SUFFICES ASSUME NEW i \in 1..l, SeparatorAt(n, i) PROVE FALSE
      OBVIOUS
    <2>2. n[i] = Underscore /\ n[i + 1] = Underscore /\ n[i + 2] = Underscore
      <3>1. n[i + 0] = Underscore /\ n[i + 1] = Underscore /\ n[i + 2] = Underscore
        BY <2>1 DEF SeparatorAt
      <3>2. QED BY <1>3, <3>1
    <2> HIDE DEF l, k
    <2>3. CASE i + 2 <= l
      <3>1. i \in 1..l /\ i + 1 \in 1..l /\ i + 2 \in 1..l
        BY <1>3, <2>3
      <3>2. s[i] = Underscore /\ s[i + 1] = Underscore /\ s[i + 2] = Underscore
        BY <1>2, <2>2, <3>1
      <3>3. \A j \in 0..2 : s[i + j] = Underscore
        <4>1. \A j \in 0..2 : j = 0 \/ j = 1 \/ j = 2
          OBVIOUS
        <4>2. s[i + 0] = Underscore
          BY <1>3, <3>2
        <4>3. QED BY <3>2, <4>1, <4>2
      <3>4. SeparatorAt(s, i)
        BY <2>3, <3>3 DEF SeparatorAt, l
      <3>5. QED BY <1>4, <3>4
    <2>4. CASE i + 1 = l
      BY <1>2, <1>3, <1>4, <2>2, <2>4
    <2>5. CASE i = l
      BY <1>2, <1>3, <1>4, <2>2, <2>5
    <2>6. QED BY <1>3, <2>3, <2>4, <2>5
  <1>6. SeparatorAt(n, l + 1)
    <2>1. (l + 1) + 2 <= Len(n)
      <3> HIDE DEF l, k
      <3>1. QED BY <1>2, <1>3
    <2>2. n[(l + 1) + 0] = Underscore /\ n[(l + 1) + 1] = Underscore /\ n[(l + 1) + 2] = Underscore
      <3> HIDE DEF l, k
      <3>1. (l + 1) + 0 = l + 1 /\ (l + 1) + 1 = l + 2 /\ (l + 1) + 2 = l + 3
        BY <1>3
      <3>2. QED BY <1>2, <3>1
    <2>3. \A j \in 0..2 : n[(l + 1) + j] = Underscore
      <3>1. \A j \in 0..2 : j = 0 \/ j = 1 \/ j = 2
        OBVIOUS
      <3>2. QED BY <2>2, <3>1
    <2>4. QED BY <2>1, <2>3 DEF SeparatorAt
  <1>7. \A i \in (l + 4)..(Len(n)) : ~ SeparatorAt(n, i)
    <2> HIDE DEF l, k
    <2>1. SUFFICES ASSUME NEW i \in (l + 4)..(Len(n)), SeparatorAt(n, i) PROVE FALSE
      OBVIOUS
    <2> DEFINE h == i - (l + 3)
    <2>2. /\ h \in 1..k /\ h + 1 \in 1..k /\ h + 2 \in 1..k
          /\ i = l + 3 + h /\ i + 1 = l + 3 + (h + 1) /\ i + 2 = l + 3 + (h + 2)
      BY <1>2, <1>3, <2>1 DEF SeparatorAt
    <2>3. n[i + 0] = Underscore /\ n[i + 1] = Underscore /\ n[i + 2] = Underscore /\ i + 0 = i
      BY <1>2, <1>3, <2>1 DEF SeparatorAt
    <2> HIDE DEF h
    <2>4. t[h] = Underscore /\ t[h + 1] = Underscore /\ t[h + 2] = Underscore
      BY <1>2, <2>2, <2>3
    <2>5. \A j \in 0..2 : t[h + j] = Underscore
      <3>1. \A j \in 0..2 : j = 0 \/ j = 1 \/ j = 2
        OBVIOUS
      <3>2. h + 0 = h
        BY <2>2
      <3>3. QED BY <2>4, <3>1, <3>2
    <2>6. h + 2 <= Len(t)
      BY <1>3, <2>2 DEF k
    <2>7. SeparatorAt(t, h)
      BY <2>5, <2>6 DEF SeparatorAt
    <2>8. QED BY <1>4, <2>2, <2>7
  <1> HIDE DEF l, k
  <1>8. EndsBefore(n, 1) = l + 1
    <2>1. \A i \in 1..((l + 1) - 1) : ~ SeparatorAt(n, i)
      BY <1>3, <1>5
    <2>2. l + 1 \in Nat /\ l + 1 >= 1 /\ l + 1 <= Len(n) + 1
      BY <1>2, <1>3
    <2>3. QED BY <1>2, <1>6, <2>1, <2>2, EndIs
  <1>9. EndsBefore(n, l + 4) = Len(n) + 1
    <2>1. \A i \in (l + 4)..((Len(n) + 1) - 1) : ~ SeparatorAt(n, i)
      BY <1>2, <1>3, <1>7
    <2>2. /\ l + 4 \in Nat /\ l + 4 >= 1 /\ Len(n) + 1 \in Nat /\ Len(n) + 1 >= l + 4
          /\ Len(n) + 1 <= Len(n) + 1 /\ ~ (Len(n) + 1 <= Len(n))
      BY <1>2, <1>3
    <2>3. QED BY <1>2, <2>1, <2>2, EndIs
  <1>10. ServerPart(n) = SubSeq(n, 1, l)
    <2>1. (l + 1) - 1 = l
      BY <1>3
    <2>2. QED BY <1>8, <2>1 DEF ServerPart
  <1>11. ToolPart(n) = SubSeq(n, l + 4, Len(n))
    <2>1. (l + 1) + 3 = l + 4 /\ (Len(n) + 1) - 1 = Len(n)
      BY <1>2, <1>3
    <2>2. QED BY <1>8, <1>9, <2>1 DEF ToolPart
  <1>12. SubSeq(n, 1, l) = s
    <2> DEFINE u == SubSeq(n, 1, l)
    <2>1. u \in Seq(T) /\ Len(u) = l /\ \A i \in 1..l : u[i] = n[i]
      BY <1>2, <1>3
    <2> HIDE DEF u
    <2>2. Len(u) = Len(s) /\ \A i \in 1..Len(u) : u[i] = s[i]
      BY <1>2, <2>1 DEF l
    <2>3. u = s
      BY <1>1, <2>1, <2>2, SeqEqual
    <2>4. QED BY <2>3 DEF u
  <1>13. SubSeq(n, l + 4, Len(n)) = t
    <2> DEFINE u == SubSeq(n, l + 4, Len(n))
    <2>1. u \in Seq(T) /\ Len(u) = k /\ \A i \in 1..k : u[i] = n[(l + 3) + i]
      BY <1>2, <1>3
    <2> HIDE DEF u
    <2>2. Len(u) = Len(t) /\ \A i \in 1..Len(u) : u[i] = t[i]
      BY <1>2, <2>1 DEF k
    <2>3. u = t
      BY <1>1, <2>1, <2>2, SeqEqual
    <2>4. QED BY <2>3 DEF u
  <1>14. QED BY <1>10, <1>11, <1>12, <1>13

LEMMA ServedIs ==
  ASSUME NEW c, NEW d \in Replies
  PROVE  /\ Served(c, d) \in Replies
         /\ Arrives(Served(c, d)) <=> Arrives(d) /\ Accepts(c.server, c.session)
  <1> DEFINE busy == [d EXCEPT !.status = 404]
  <1>1. /\ d = [sent |-> d.sent, status |-> d.status, events |-> d.events,
                lines |-> d.lines, whole |-> d.whole]
        /\ d.status \in Nat /\ 404 \in Nat
    BY DEF Replies
  <1>2. busy = [sent |-> d.sent, status |-> 404, events |-> d.events,
                lines |-> d.lines, whole |-> d.whole]
    BY <1>1
  <1>3. busy \in Replies
    <2>1. busy.sent = d.sent /\ busy.status = 404 /\ busy.events = d.events
          /\ busy.lines = d.lines /\ busy.whole = d.whole
      BY <1>2
    <2>2. /\ d.sent \in {"yes", "timeout", "connect", "broken"} /\ d.events \in BOOLEAN
          /\ d.lines \in Seq({"answer", "other", "event"}) /\ d.whole \in BOOLEAN
          /\ d.events \/ Len(d.lines) <= 1
      BY DEF Replies
    <2> DEFINE L == Seq({"answer", "other", "event"})  ls == d.lines
    <2>3. ls \in L
      BY <2>2
    <2> HIDE DEF L, ls
    <2>4. busy \in [sent : {"yes", "timeout", "connect", "broken"}, status : Nat,
                    events : BOOLEAN, lines : L, whole : BOOLEAN]
      BY <1>1, <1>2, <2>2, <2>3 DEF ls
    <2> HIDE DEF busy
    <2>5. QED BY <2>1, <2>2, <2>4 DEF Replies, L
  <1>4. ~ Arrives(busy)
    BY <1>2 DEF Arrives
  <1> HIDE DEF busy
  <1>5. CASE d.status \in 200..299 /\ ~ Accepts(c.server, c.session)
    <2>1. Served(c, d) = busy
      BY <1>5 DEF Served, busy
    <2>2. QED BY <1>3, <1>4, <1>5, <2>1
  <1>6. CASE ~ (d.status \in 200..299 /\ ~ Accepts(c.server, c.session))
    <2>1. Served(c, d) = d
      BY <1>6 DEF Served
    <2>2. Arrives(d) => d.status \in 200..299
      BY DEF Arrives
    <2>3. QED BY <1>6, <2>1, <2>2
  <1>7. QED BY <1>5, <1>6

\* What CallsReach says of a call, of one that is made now.
LEMMA CallLands ==
  ASSUME gen \in [Servers -> Nat], NEW reg, NEW defs, RegistryHolds(reg),
         DefinitionsHold(defs, reg), NEW n \in DOMAIN defs,
         Separable(defs[n].server, defs[n].tool), NEW d \in Deliveries
  PROVE  IF Arrives(d) /\ ~ (reg[defs[n].server].at < gen[defs[n].server]
                             /\ defs[n].server \notin Stateless)
         THEN CallTool(reg, n, d) = <<"called", defs[n].server, defs[n].tool>>
         ELSE CallTool(reg, n, d)[1] = "failed"
  <1>1. PICK s \in DOMAIN reg : \E t \in ToolsOf[s] :
          n = Namespaced(s, t) /\ defs[n] = [server |-> s, tool |-> t]
    BY DEF DefinitionsHold
  <1>2. PICK t \in ToolsOf[s] : n = Namespaced(s, t) /\ defs[n] = [server |-> s, tool |-> t]
    BY <1>1
  <1>3. defs[n].server = s /\ defs[n].tool = t
    BY <1>2
  <1> DEFINE c == reg[s]
             served == Served(c, d)
             answer == <<"called", s, t>>
             out == PostRequest(served, answer)
             lost == c.at < gen[s] /\ s \notin Stateless
  <1>4. /\ s \in Servers /\ c.server = s /\ c.at \in Nat /\ c.at <= gen[s] /\ gen[s] \in Nat
        /\ s \notin Stateless => c.session = c.at
    BY DEF RegistryHolds
  <1>5. ServerPart(n) = s /\ ToolPart(n) = t
    BY <1>2, <1>3, <1>4, NameParts
  <1>6. Accepts(c.server, c.session) <=> ~ lost
    BY <1>4 DEF Accepts
  <1>7. d \in Replies
    BY McpAssumption DEF McpAssumption
  <1>8. served \in Replies /\ (Arrives(served) <=> Arrives(d) /\ ~ lost)
    BY <1>6, <1>7, ServedIs
  <1>9. CallTool(reg, n, d) = IF ~ out.ok THEN <<"failed", out.value>> ELSE out.value
    BY <1>1, <1>2, <1>5 DEF CallTool
  <1> HIDE DEF served, answer
  <1>10. IF Arrives(served) THEN out = Ok(answer) ELSE out.ok = FALSE
    BY <1>8, PostIs
  <1>11. Ok(answer).ok = TRUE /\ Ok(answer).value = answer
    BY DEF Ok
  <1> HIDE DEF out, lost
  <1>12. CASE Arrives(served)
    <2>1. CallTool(reg, n, d) = answer
      BY <1>9, <1>10, <1>11, <1>12
    <2>2. QED BY <1>3, <1>8, <1>12, <2>1 DEF lost, c, answer
  <1>13. CASE ~ Arrives(served)
    <2>1. CallTool(reg, n, d) = <<"failed", out.value>>
      BY <1>9, <1>10, <1>13
    <2>2. CallTool(reg, n, d)[1] = "failed"
      BY <2>1
    <2>3. QED BY <1>3, <1>8, <1>13, <2>2 DEF lost, c
  <1>14. QED BY <1>12, <1>13

-----------------------------------------------------------------------------
(* Clients and agents. *)

ClientsGrow == \A k \in DOMAIN clients : k \in DOMAIN clients' /\ clients'[k] = clients[k]

LEMMA AgentKept ==
  ASSUME GenGrows, ClientsGrow, NEW a, AgentHolds(a)
  PROVE  AgentHolds(a)'
  <1>1. RegistryHolds(a.registry)'
    BY RegistryKept DEF AgentHolds
  <1>2. DefinitionsHold(a.definitions, a.registry)' /\ a.key[1] = ClientKey(a.llm, a.key[2])[1]
    BY DEF AgentHolds, DefinitionsHold
  <1>3. a.key \in DOMAIN clients' /\ clients'[a.key] = a.client
    BY DEF AgentHolds, ClientsGrow
  <1>4. QED BY <1>1, <1>2, <1>3 DEF AgentHolds

\* None is no error: a build without one has a provider.
LEMMA ProviderThere ==
  ASSUME NEW llm, ProviderError(llm) = None
  PROVE  llm \in Ids(providers)
  BY ErrorsAssumption DEF ErrorsAssumption, ProviderError

LEMMA KeyIs ==
  ASSUME NEW llm, NEW model
  PROVE  /\ ClientKey(llm, model)[2] = model
         /\ ClientKey(llm, model)[1] = IF llm \in Hosted THEN llm ELSE "local"
  BY DEF ClientKey

LEMMA NewAgent ==
  ASSUME ClientsHold, GenGrows, providers' = providers,
         NEW r, NEW id, NEW llm \in Ids(providers), NEW model, NEW tools, NEW defs, NEW servers,
         RegistryHolds(servers), DefinitionsHold(defs, servers),
         NEW a, a = BuiltAgent(r, id, llm, model, tools, defs, servers),
         clients' = With(clients, a.key, a.client)
  PROVE  ClientsGrow /\ ClientsHold' /\ AgentHolds(a)'
  <1> DEFINE key == ClientKey(llm, model)
             new == [endpoint |-> Endpoint(llm), by |-> <<r, Len(job[r].built) + 1>>]
             c   == CachedClient(key, new)
  <1>1. /\ a.key = key /\ a.client = c /\ a.llm = llm
        /\ a.definitions = defs /\ a.registry = servers
    BY DEF BuiltAgent
  <1>2. new.endpoint = Endpoint(llm)
    OBVIOUS
  <1>3. key[2] = model /\ key[1] = ClientKey(llm, key[2])[1]
    BY KeyIs
  <1>4. c = IF key \in DOMAIN clients THEN clients[key] ELSE new
    BY DEF CachedClient
  <1> HIDE DEF key, new, c
  <1>5. DOMAIN clients' = DOMAIN clients \cup {key}
    BY <1>1, WithIs
  <1>6. clients'[key] = c
    BY <1>1, WithIs
  <1>7. \A k \in DOMAIN clients \ {key} : clients'[k] = clients[k]
    BY <1>1, WithIs
  <1>8. ClientsGrow
    BY <1>4, <1>5, <1>6, <1>7 DEF ClientsGrow
  <1>9. ASSUME NEW k \in DOMAIN clients'
        PROVE  \E l \in Ids(providers) : k[1] = ClientKey(l, k[2])[1] /\ clients'[k].endpoint = Endpoint(l)
    <2>1. CASE k \in DOMAIN clients
      <3>1. clients'[k] = clients[k]
        BY <1>8, <2>1 DEF ClientsGrow
      <3>2. QED BY <2>1, <3>1 DEF ClientsHold
    <2>2. CASE k \notin DOMAIN clients
      <3>1. k = key /\ clients'[k] = new
        BY <1>4, <1>5, <1>6, <1>9, <2>2
      <3>2. QED BY <1>2, <1>3, <3>1
    <2>3. QED BY <2>1, <2>2
  <1>10. ClientsHold'
    <2>1. \A l : Endpoint(l)' = Endpoint(l)
      BY DEF Endpoint
    <2>2. \A l, k : ClientKey(l, k)' = ClientKey(l, k)
      BY DEF ClientKey
    <2>3. QED BY <1>9, <2>1, <2>2 DEF ClientsHold
  <1>11. AgentHolds(a)'
    <2>1. RegistryHolds(a.registry)'
      BY <1>1, RegistryKept
    <2>2. DefinitionsHold(a.definitions, a.registry)'
      BY <1>1 DEF DefinitionsHold
    <2>3. a.key[1] = ClientKey(a.llm, a.key[2])[1]
      BY <1>1, <1>3
    <2>4. QED BY <1>1, <1>5, <1>6, <2>1, <2>2, <2>3 DEF AgentHolds
  <1>12. QED BY <1>8, <1>10, <1>11

-----------------------------------------------------------------------------
(* The jobs. *)

\* r's job moves, and what it has built is still in order.
JobMoves(r) == /\ DOMAIN job' = DOMAIN job
               /\ \A s \in DOMAIN job \ {r} : job'[s] = job[s]
               /\ IsJob(job'[r])
               /\ \A a \in Range(job'[r].built) : AgentHolds(a)'

LEMMA JobsKept ==
  ASSUME JobsHold, GenGrows, ClientsGrow, NEW r \in Requests, JobMoves(r)
  PROVE  JobsHold'
  <1>1. ASSUME NEW s \in Requests
        PROVE  IsJob(job'[s]) /\ \A a \in Range(job'[s].built) : AgentHolds(a)'
    <2>1. CASE s = r
      BY <2>1 DEF JobMoves
    <2>2. CASE s # r
      <3>1. job'[s] = job[s]
        BY <2>2 DEF JobMoves, JobsHold
      <3>2. QED BY <3>1, AgentKept DEF JobsHold
    <2>3. QED BY <2>1, <2>2
  <1>2. DOMAIN job' = Requests
    BY DEF JobMoves, JobsHold
  <1>3. QED BY <1>1, <1>2 DEF JobsHold

\* Nothing built: only where the job stands changes.
LEMMA SameBuilt ==
  ASSUME JobsHold, GenGrows, ClientsGrow, NEW r \in Requests, DOMAIN job' = DOMAIN job,
         \A s \in DOMAIN job \ {r} : job'[s] = job[s],
         DOMAIN job'[r] = DOMAIN job[r], job'[r].built = job[r].built
  PROVE  JobMoves(r)
  <1>1. IsJob(job'[r])
    BY DEF JobsHold, IsJob
  <1>2. \A a \in Range(job'[r].built) : AgentHolds(a)'
    BY AgentKept DEF JobsHold
  <1>3. QED BY <1>1, <1>2 DEF JobMoves

LEMMA FailMoves ==
  ASSUME JobsHold, GenGrows, ClientsGrow, NEW r \in Requests, NEW why, Fail(r, why)
  PROVE  JobMoves(r)
  <1>1. /\ DOMAIN job' = DOMAIN job /\ \A s \in DOMAIN job \ {r} : job'[s] = job[s]
        /\ DOMAIN job'[r] = DOMAIN job[r] /\ job'[r].built = job[r].built
    BY DEF Fail, JobsHold, IsJob
  <1>2. QED BY <1>1, SameBuilt

\* One more agent is built.
LEMMA AppendedMoves ==
  ASSUME JobsHold, GenGrows, ClientsGrow, NEW r \in Requests, NEW a, AgentHolds(a)',
         DOMAIN job' = DOMAIN job, \A s \in DOMAIN job \ {r} : job'[s] = job[s],
         DOMAIN job'[r] = DOMAIN job[r], job'[r].built = Append(job[r].built, a)
  PROVE  JobMoves(r)
  <1> DEFINE b == job[r].built
             S == Range(b) \cup {a}
  <1>1. b \in Seq(Range(b)) /\ DOMAIN job[r] = {"st", "root", "todo", "visited", "built", "err"}
    BY DEF JobsHold, IsJob
  <1>2. /\ Append(b, a) \in Seq(Range(Append(b, a)))
        /\ \A x \in Range(Append(b, a)) : x \in Range(b) \/ x = a
    <2>1. b \in Seq(S) /\ a \in S
      <3>1. Range(b) \subseteq S
        OBVIOUS
      <3> DEFINE B == Range(b)
      <3>2. b \in Seq(B) /\ B \subseteq S
        BY <1>1, <3>1
      <3> HIDE DEF B, S, b
      <3>3. b \in Seq(S)
        BY <3>2, SeqMonotonic
      <3>4. QED BY <3>3 DEF S
    <2>2. \A x : x \in S => x \in Range(b) \/ x = a
      OBVIOUS
    <2> DEFINE c == Append(b, a)
    <2> HIDE DEF S, b
    <2>3. c \in Seq(S) /\ Len(c) \in Nat /\ DOMAIN c = 1..Len(c)
      BY <2>1
    <2>4. Range(c) \subseteq S
      <3> HIDE DEF c
      <3>1. \A i \in 1..Len(c) : c[i] \in S
        BY <2>3, ElementOfSeq
      <3>2. QED BY <2>3, <3>1 DEF Range
    <2>5. c \in Seq(Range(c))
      <3> HIDE DEF c
      <3>1. c \in [1..Len(c) -> Range(c)]
        BY <2>3 DEF Range
      <3> DEFINE R == Range(c)
      <3> HIDE DEF R
      <3>2. QED BY <2>3, <3>1 DEF R
    <2>6. QED BY <2>2, <2>4, <2>5
  <1>3. IsJob(job'[r])
    BY <1>1, <1>2 DEF IsJob
  <1>4. ASSUME NEW x \in Range(job'[r].built) PROVE AgentHolds(x)'
    <2>1. x \in Range(b) \/ x = a
      BY <1>2, <1>4
    <2>2. CASE x \in Range(b)
      BY <2>2, AgentKept DEF JobsHold
    <2>3. CASE x = a
      BY <2>3 DEF AgentHolds, RegistryHolds, DefinitionsHold
    <2>4. QED BY <2>1, <2>2, <2>3
  <1>5. QED BY <1>3, <1>4 DEF JobMoves

-----------------------------------------------------------------------------
(* The steps. *)

LEMMA GenStays ==
  ASSUME McpHolds, gen' = gen
  PROVE  GenGrows
  BY DEF McpHolds, GenGrows

LEMMA McpStays ==
  ASSUME McpHolds, UNCHANGED mcpVars
  PROVE  McpHolds' /\ GenGrows
  BY DEF McpHolds, RegistryHolds, DefinitionsHold, GenGrows, mcpVars

LEMMA ClientsStay ==
  ASSUME ClientsHold, UNCHANGED <<clients, providers>>
  PROVE  ClientsHold' /\ ClientsGrow
  BY DEF ClientsHold, ClientsGrow, ClientKey, Endpoint

LEMMA BootIdle ==
  ASSUME ServiceInv, boot # <<"serving">>
  PROVE  DOMAIN clients = {} /\ \A r \in Requests : job[r].built = <<>> /\ job[r].st = "idle"
  BY DEF ServiceInv, BootHolds

\* Until the server serves there is nothing but the registry to look at.
LEMMA BootingHolds ==
  ASSUME ServiceInv, boot # <<"serving">>, UNCHANGED <<clients, job, calls>>,
         boot'[1] \in {"mcp", "validate"} => boot'[2] \in Nat \ {0}, McpHolds'
  PROVE  ServiceInv'
  <1>1. DOMAIN clients' = {} /\ \A r \in Requests : job'[r].built = <<>> /\ job'[r].st = "idle"
    BY BootIdle
  <1>2. ClientsHold'
    BY <1>1 DEF ClientsHold
  <1>3. JobsHold'
    <2>1. \A r \in Requests : Range(job'[r].built) = {}
      BY <1>1 DEF Range
    <2>2. QED BY <2>1 DEF ServiceInv, JobsHold, IsJob
  <1>4. BootHolds' /\ CallsReach'
    BY <1>1 DEF ServiceInv, BootHolds, CallsReach
  <1>5. QED BY <1>2, <1>3, <1>4 DEF ServiceInv

LEMMA BootStep ==
  ASSUME ServiceInv, Boot
  PROVE  ServiceInv'
  <1>1. CASE BuildResolvedProviders
    <2>1. /\ boot # <<"serving">> /\ UNCHANGED <<clients, job, calls, mcpVars>>
          /\ boot'[1] \in {"mcp", "validate"} => boot'[2] \in Nat \ {0}
      BY <1>1 DEF BuildResolvedProviders
    <2>2. QED BY <2>1, McpStays, BootingHolds DEF ServiceInv
  <1>2. CASE RegisterConfigured
    <2> DEFINE e == ServerFile[boot[2]]
    <2>1. /\ boot[1] = "mcp" /\ boot[2] <= Len(ServerFile)
          /\ UNCHANGED <<gen, writer, clients, job, calls>>
          /\ \/ boot' = <<"mcp", boot[2] + 1>> /\ UNCHANGED <<registry, definitions>>
             \/ /\ boot' = <<"mcp", boot[2] + 1>> /\ RegisterServer(e.name)
                /\ AddDefinitions(e.name, Exposed(e.name, e.enabled))
             \/ boot' = <<"failed">> /\ UNCHANGED <<registry, definitions>>
      BY <1>2 DEF RegisterConfigured
    <2>2. boot # <<"serving">> /\ boot[2] \in Nat \ {0}
      BY <2>1 DEF ServiceInv, BootHolds
    <2>3. boot'[1] \in {"mcp", "validate"} => boot'[2] \in Nat \ {0}
      BY <2>1, <2>2
    <2>4. e.name \in Servers
      <3>1. ServerFile \in Seq(MCPServerConfig) /\ boot[2] \in 1..Len(ServerFile)
        BY <2>1, <2>2, FileAssumption DEF FileAssumption
      <3> DEFINE T == MCPServerConfig
      <3>2. e \in T
        <4> HIDE DEF T
        <4>1. QED BY <3>1 DEF T
      <3>3. QED BY <3>2 DEF MCPServerConfig
    <2>5. McpHolds'
      <3>1. CASE UNCHANGED <<registry, definitions>>
        BY <2>1, <3>1 DEF ServiceInv, McpHolds, RegistryHolds, DefinitionsHold
      <3>2. CASE RegisterServer(e.name) /\ AddDefinitions(e.name, Exposed(e.name, e.enabled))
        <4> DEFINE s == e.name  tools == Exposed(s, e.enabled)
        <4>1. tools \in SUBSET ToolsOf[s]
          BY DEF Exposed
        <4>2. s \in Servers /\ gen' = gen /\ RegisterServer(s) /\ AddDefinitions(s, tools) /\ McpHolds
          BY <2>1, <2>4, <3>2 DEF ServiceInv
        <4> HIDE DEF s, tools
        <4>3. RegistryHolds(registry)' /\ DOMAIN registry' = DOMAIN registry \cup {s}
          BY <4>2, RegisteredHolds
        <4>4. DefinitionsHold(definitions, registry)'
          BY <4>1, <4>2, <4>3, AddedHold
        <4>5. QED BY <2>1, <4>2, <4>3, <4>4 DEF McpHolds
      <3>3. QED BY <2>1, <3>1, <3>2
    <2>6. QED BY <2>1, <2>2, <2>3, <2>5, BootingHolds
  <1>3. CASE RegisterAgents
    <2>1. /\ boot # <<"serving">> /\ UNCHANGED <<clients, job, calls, mcpVars>>
          /\ boot'[1] \in {"mcp", "validate"} => boot'[2] \in Nat \ {0}
      BY <1>3 DEF RegisterAgents
    <2>2. QED BY <2>1, McpStays, BootingHolds DEF ServiceInv
  <1>4. CASE ValidateAgents
    <2>1. /\ boot # <<"serving">> /\ UNCHANGED <<clients, job, calls, mcpVars>>
          /\ boot[1] = "validate" /\ boot' \in {<<"keys">>, <<"validate", boot[2] + 1>>}
      BY <1>4 DEF ValidateAgents
    <2>2. boot'[1] \in {"mcp", "validate"} => boot'[2] \in Nat \ {0}
      BY <2>1 DEF ServiceInv, BootHolds
    <2>3. QED BY <2>1, <2>2, McpStays, BootingHolds DEF ServiceInv
  <1>5. CASE Connect
    <2>1. /\ boot # <<"serving">> /\ UNCHANGED <<clients, job, calls, mcpVars>>
          /\ boot'[1] \in {"mcp", "validate"} => boot'[2] \in Nat \ {0}
      BY <1>5 DEF Connect
    <2>2. QED BY <2>1, McpStays, BootingHolds DEF ServiceInv
  <1>6. QED BY <1>1, <1>2, <1>3, <1>4, <1>5 DEF Boot

\* A step of a request that neither registers nor calls anything.
LEMMA RequestHolds ==
  ASSUME ServiceInv, boot = <<"serving">>, UNCHANGED <<boot, providers, calls, mcpVars>>,
         NEW r \in Requests, JobMoves(r), ClientsGrow, ClientsHold'
  PROVE  ServiceInv'
  <1>1. McpHolds' /\ GenGrows
    BY McpStays DEF ServiceInv
  <1>2. JobsHold'
    BY <1>1, JobsKept DEF ServiceInv
  <1>3. BootHolds' /\ CallsReach'
    BY DEF ServiceInv, BootHolds, CallsReach
  <1>4. QED BY <1>1, <1>2, <1>3 DEF ServiceInv

LEMMA StartStep ==
  ASSUME ServiceInv, NEW r \in Requests, NEW in, BuildRunnable(r, in)
  PROVE  ServiceInv'
  <1>1. boot = <<"serving">> /\ UNCHANGED <<boot, providers, clients, calls, mcpVars>>
    BY DEF BuildRunnable
  <1>2. GenGrows /\ ClientsHold' /\ ClientsGrow
    BY <1>1, McpStays, ClientsStay DEF ServiceInv
  <1>3. /\ DOMAIN job' = DOMAIN job /\ \A s \in DOMAIN job \ {r} : job'[s] = job[s]
        /\ DOMAIN job'[r] = DOMAIN job[r] /\ job'[r].built = job[r].built
    BY DEF BuildRunnable, ServiceInv, JobsHold, IsJob
  <1>4. JobMoves(r)
    BY <1>2, <1>3, SameBuilt DEF ServiceInv
  <1>5. QED BY <1>1, <1>2, <1>4, RequestHolds

LEMMA NothingKnown == RegistryHolds(<<>>) /\ DefinitionsHold(<<>>, <<>>)
  <1> DEFINE none == <<>>
  <1>1. DOMAIN none = {}
    OBVIOUS
  <1> HIDE DEF none
  <1>2. RegistryHolds(none) /\ DefinitionsHold(none, none)
    BY <1>1 DEF RegistryHolds, DefinitionsHold
  <1>3. QED BY <1>2 DEF none

LEMMA ChatStep ==
  ASSUME ServiceInv, NEW r \in Requests, NEW in, BuildChatAgent(r, in)
  PROVE  ServiceInv'
  <1> DEFINE llm == in.llm_config.llm
             model == in.llm_config.model
             built == BuiltAgent(r, None, llm, model, {}, <<>>, <<>>)
  <1>1. /\ boot = <<"serving">> /\ UNCHANGED <<boot, providers, calls, mcpVars>>
        /\ job[r].st = "idle"
    BY DEF BuildChatAgent
  <1>2. GenGrows
    BY <1>1, McpStays DEF ServiceInv
  <1>3. CASE ProviderError(llm) # None
    <2>1. Fail(r, ProviderError(llm)) /\ UNCHANGED clients
      BY <1>3 DEF BuildChatAgent
    <2>2. ClientsHold' /\ ClientsGrow
      BY <1>1, <2>1, ClientsStay DEF ServiceInv
    <2>3. JobMoves(r)
      BY <1>2, <2>1, <2>2, FailMoves DEF ServiceInv
    <2>4. QED BY <1>1, <2>2, <2>3, RequestHolds
  <1>4. CASE ProviderError(llm) = None
    <2>1. PICK a : a = built
      OBVIOUS
    <2>2. /\ clients' = With(clients, a.key, a.client)
          /\ job' = [job EXCEPT ![r].st = "built", ![r].built = <<a>>]
      BY <1>4, <2>1 DEF BuildChatAgent
    <2>3. llm \in Ids(providers)
      BY <1>4, ProviderThere
    <2>4. ClientsGrow /\ ClientsHold' /\ AgentHolds(a)'
      <3> HIDE DEF llm, model
      <3> DEFINE none == <<>>
      <3>1. a = BuiltAgent(r, None, llm, model, {}, none, none)
        BY <2>1
      <3>2. RegistryHolds(none) /\ DefinitionsHold(none, none)
        BY NothingKnown
      <3> HIDE DEF none
      <3>3. QED BY <1>1, <1>2, <2>2, <2>3, <3>1, <3>2, NewAgent DEF ServiceInv
    <2>5. /\ DOMAIN job' = DOMAIN job /\ \A s \in DOMAIN job \ {r} : job'[s] = job[s]
          /\ DOMAIN job'[r] = DOMAIN job[r] /\ job'[r].built = <<a>>
      BY <2>2 DEF ServiceInv, JobsHold, IsJob
    <2>6. Range(<<a>>) = {a} /\ <<a>> \in Seq({a})
      BY DEF Range
    <2>7. JobMoves(r)
      <3>1. IsJob(job'[r])
        BY <2>5, <2>6 DEF ServiceInv, JobsHold, IsJob
      <3>2. \A x \in Range(job'[r].built) : x = a
        BY <2>5, <2>6
      <3>3. ASSUME NEW x \in Range(job'[r].built) PROVE AgentHolds(x)'
        BY <2>4, <3>2 DEF AgentHolds, RegistryHolds, DefinitionsHold
      <3>4. QED BY <2>5, <3>1, <3>3 DEF JobMoves
    <2>8. QED BY <1>1, <2>4, <2>7, RequestHolds
  <1>5. QED BY <1>3, <1>4

\* The tools an agent is given are registered, whatever its configuration says.
LEMMA GivenTools ==
  ASSUME McpHolds, NEW names, NEW defs, NEW servers,
         defs = Restrict(definitions, names \cap DOMAIN definitions),
         servers = IF names = {} THEN <<>> ELSE registry
  PROVE  RegistryHolds(servers) /\ DefinitionsHold(defs, servers)
  <1>1. /\ DOMAIN defs = names \cap DOMAIN definitions
        /\ \A n \in DOMAIN defs : defs[n] = definitions[n]
    BY DEF Restrict
  <1>2. CASE names = {}
    <2>1. servers = <<>> /\ DOMAIN defs = {}
      BY <1>1, <1>2
    <2>2. RegistryHolds(servers)
      BY <2>1, NothingKnown
    <2>3. QED BY <2>1, <2>2 DEF DefinitionsHold
  <1>3. CASE names # {}
    <2>1. servers = registry
      BY <1>3
    <2>2. QED BY <1>1, <2>1 DEF McpHolds, DefinitionsHold
  <1>4. QED BY <1>2, <1>3

LEMMA NoBuildError ==
  ASSUME NEW r, NEW frame, BuildError(r, frame) = None
  PROVE  LlmOf(frame, FindAgent(frame.id)).llm \in Ids(providers)
  <1>1. ProviderError(LlmOf(frame, FindAgent(frame.id)).llm) = None
    BY ErrorsAssumption DEF ErrorsAssumption, BuildError
  <1>2. QED BY <1>1, ProviderThere

\* What a step of a build does.
Builds(r, frame, config, llm, a, subs, todo) ==
  /\ job[r].st = "building" /\ frame = Head(job[r].todo)
  /\ config = FindAgent(frame.id) /\ llm = LlmOf(frame, config)
  /\ a = BuildAgentForId(r, config, llm.llm, llm.model)
  /\ subs = (IF config.execution = "pipeline" /\ config.pipeline # None
             THEN Frames(config, llm) ELSE <<>>)
  /\ todo = subs \o Tail(job[r].todo)
  /\ UNCHANGED <<env, file, boot, providers, agents, calls, mcpVars>>
  /\ IF BuildError(r, frame) # None
     THEN Fail(r, BuildError(r, frame)) /\ UNCHANGED clients
     ELSE /\ clients' = With(clients, a.key, a.client)
          /\ IF config.execution = "pipeline" /\ config.pipeline = None
             THEN Fail(r, "no_pipeline")
             ELSE job' = [job EXCEPT ![r].todo = todo,
                                     ![r].visited = Visit(r, frame.id),
                                     ![r].built = Append(@, a),
                                     ![r].st = IF todo = <<>> THEN "built" ELSE @]

LEMMA BuildsOne ==
  ASSUME NEW r, BuildRunnableAgent(r)
  PROVE  \E frame, config, llm, a, subs, todo : Builds(r, frame, config, llm, a, subs, todo)
  <1> DEFINE frame  == Head(job[r].todo)
             config == FindAgent(frame.id)
             llm    == LlmOf(frame, config)
             a      == BuildAgentForId(r, config, llm.llm, llm.model)
             subs   == IF config.execution = "pipeline" /\ config.pipeline # None
                       THEN Frames(config, llm) ELSE <<>>
             todo   == subs \o Tail(job[r].todo)
  <1>1. Builds(r, frame, config, llm, a, subs, todo)
    BY DEF BuildRunnableAgent, Builds
  <1> HIDE DEF frame, config, llm, a, subs, todo
  <1>2. QED BY <1>1

LEMMA BuildStep ==
  ASSUME ServiceInv, NEW r \in Requests, BuildRunnableAgent(r)
  PROVE  ServiceInv'
  <1>1. PICK frame, config, llm, a, subs, todo :
          Builds(r, frame, config, llm, a, subs, todo)
    BY BuildsOne
  <1>2. boot = <<"serving">> /\ UNCHANGED <<boot, providers, calls, mcpVars>>
    <2>1. job[r].st = "building" /\ UNCHANGED <<boot, providers, calls, mcpVars>>
      BY <1>1 DEF Builds
    <2>2. QED BY <2>1, BootIdle
  <1>3. GenGrows
    BY <1>2, McpStays DEF ServiceInv
  <1>4. CASE BuildError(r, frame) # None
    <2>1. Fail(r, BuildError(r, frame)) /\ UNCHANGED clients
      BY <1>1, <1>4 DEF Builds
    <2>2. ClientsHold' /\ ClientsGrow
      BY <1>2, <2>1, ClientsStay DEF ServiceInv
    <2>3. JobMoves(r)
      BY <1>3, <2>1, <2>2, FailMoves DEF ServiceInv
    <2>4. QED BY <1>2, <2>2, <2>3, RequestHolds
  <1>5. CASE BuildError(r, frame) = None
    <2>1. PICK seen : seen = Visit(r, frame.id)
      OBVIOUS
    <2>2. clients' = With(clients, a.key, a.client)
      BY <1>1, <1>5 DEF Builds
    <2>3. llm.llm \in Ids(providers)
      <3>1. llm = LlmOf(frame, FindAgent(frame.id))
        BY <1>1 DEF Builds
      <3>2. QED BY <1>5, <3>1, NoBuildError
    <2>4. ClientsGrow /\ ClientsHold' /\ AgentHolds(a)'
      <3> DEFINE names == config.mcp_tools
                 id == config.id
                 l == llm.llm
                 model == llm.model
                 tools == config.tools \cap LocalTools
      <3>1. PICK defs, servers :
              /\ defs = Restrict(definitions, names \cap DOMAIN definitions)
              /\ servers = IF names = {} THEN <<>> ELSE registry
        OBVIOUS
      <3>2. a = BuiltAgent(r, id, l, model, tools, defs, servers)
        BY <1>1, <3>1 DEF Builds, BuildAgentForId
      <3> HIDE DEF names, id, l, model, tools
      <3>3. RegistryHolds(servers) /\ DefinitionsHold(defs, servers)
        BY <3>1, GivenTools DEF ServiceInv
      <3>4. l \in Ids(providers)
        BY <2>3 DEF l
      <3>5. QED BY <1>2, <1>3, <2>2, <3>2, <3>3, <3>4, NewAgent DEF ServiceInv
    <2>5. JobMoves(r)
      <3>1. CASE config.execution = "pipeline" /\ config.pipeline = None
        <4>1. Fail(r, "no_pipeline")
          BY <1>1, <1>5, <3>1 DEF Builds
        <4>2. QED BY <1>3, <2>4, <4>1, FailMoves DEF ServiceInv
      <3>2. CASE ~ (config.execution = "pipeline" /\ config.pipeline = None)
        <4>1. job' = [job EXCEPT ![r].todo = todo, ![r].visited = seen,
                                 ![r].built = Append(@, a),
                                 ![r].st = IF todo = <<>> THEN "built" ELSE @]
          BY <1>1, <1>5, <2>1, <3>2 DEF Builds
        <4>2. /\ DOMAIN job' = DOMAIN job /\ \A s \in DOMAIN job \ {r} : job'[s] = job[s]
              /\ DOMAIN job'[r] = DOMAIN job[r] /\ job'[r].built = Append(job[r].built, a)
          BY <4>1 DEF ServiceInv, JobsHold, IsJob
        <4>3. QED BY <1>3, <2>4, <4>2, AppendedMoves DEF ServiceInv
      <3>3. QED BY <3>1, <3>2
    <2>6. QED BY <1>2, <2>4, <2>5, RequestHolds
  <1>6. QED BY <1>4, <1>5

LEMMA CallStep ==
  ASSUME ServiceInv, NEW r \in Requests, NEW i \in 1..Len(job[r].built),
         NEW name \in DOMAIN job[r].built[i].definitions, NEW d \in Deliveries,
         Call(r, job[r].built[i], name, d)
  PROVE  ServiceInv'
  <1>1. boot = <<"serving">> /\ UNCHANGED <<boot, providers, clients, mcpVars>>
    <2>1. job[r].st = "built"
      BY DEF Call
    <2>2. QED BY <2>1, BootIdle DEF Call
  <1>2. McpHolds' /\ GenGrows /\ ClientsHold' /\ ClientsGrow
    BY <1>1, McpStays, ClientsStay DEF ServiceInv
  <1>3. /\ DOMAIN job' = DOMAIN job /\ \A s \in DOMAIN job \ {r} : job'[s] = job[s]
        /\ DOMAIN job'[r] = DOMAIN job[r] /\ job'[r].built = job[r].built
    BY DEF Call, ServiceInv, JobsHold, IsJob
  <1>4. JobsHold'
    <2>1. JobMoves(r)
      BY <1>2, <1>3, SameBuilt DEF ServiceInv
    <2>2. QED BY <1>2, <2>1, JobsKept DEF ServiceInv
  <1>5. PICK a : a = job[r].built[i]
    OBVIOUS
  <1>6. RegistryHolds(a.registry) /\ DefinitionsHold(a.definitions, a.registry)
    <2>1. a \in Range(job[r].built)
      <3> DEFINE b == job[r].built
      <3>1. b \in Seq(Range(b))
        BY DEF ServiceInv, JobsHold, IsJob
      <3>2. DOMAIN b = 1..Len(b)
        <4> DEFINE B == Range(b)
        <4>1. b \in Seq(B)
          BY <3>1
        <4> HIDE DEF B, b
        <4>2. QED BY <4>1
      <3>3. QED BY <1>5, <3>2 DEF Range
    <2>2. QED BY <2>1 DEF ServiceInv, JobsHold, AgentHolds
  <1> DEFINE of == a.definitions[name]
             answer == CallTool(a.registry, name, d)
             lost == a.registry[of.server].at < gen[of.server]
             rec == [name |-> name, of |-> of, answer |-> answer, by |-> d, lost |-> lost]
  <1>7. calls' = calls \cup {rec}
    BY <1>5 DEF Call
  <1>8. Separable(of.server, of.tool) =>
          IF Arrives(d) /\ ~ (lost /\ of.server \notin Stateless)
          THEN answer = <<"called", of.server, of.tool>>
          ELSE answer[1] = "failed"
    <2>1. name \in DOMAIN a.definitions /\ gen \in [Servers -> Nat]
      BY <1>5 DEF ServiceInv, McpHolds
    <2>2. QED BY <1>6, <2>1, CallLands
  <1>9. /\ rec.name = name /\ rec.of = of /\ rec.answer = answer /\ rec.by = d /\ rec.lost = lost
    OBVIOUS
  <1> HIDE DEF of, answer, lost, rec
  <1>10. CallsReach'
    <2>1. ASSUME NEW c \in calls', Separable(c.of.server, c.of.tool)
          PROVE  IF Arrives(c.by) /\ ~ (c.lost /\ c.of.server \notin Stateless)
                 THEN c.answer = <<"called", c.of.server, c.of.tool>>
                 ELSE c.answer[1] = "failed"
      <3>1. CASE c \in calls
        BY <2>1, <3>1 DEF ServiceInv, CallsReach
      <3>2. CASE c = rec
        BY <1>8, <1>9, <2>1, <3>2
      <3>3. QED BY <1>7, <3>1, <3>2
    <2>2. QED BY <2>1 DEF CallsReach
  <1>11. BootHolds'
    BY <1>1 DEF BootHolds
  <1>12. QED BY <1>2, <1>4, <1>10, <1>11 DEF ServiceInv

LEMMA ServiceInitial == Init => ServiceInv
  <1> SUFFICES ASSUME Init PROVE ServiceInv
    OBVIOUS
  <1> DEFINE none == <<>>
             j == NewJob
  <1>1. DOMAIN none = {} /\ Range(none) = {} /\ none \in Seq({})
    BY DEF Range
  <1>2. /\ registry = none /\ definitions = none /\ clients = none /\ calls = {}
        /\ job = [r \in Requests |-> j] /\ boot = <<"providers">>
        /\ gen = [s \in Servers |-> 1] /\ writer = None
    BY DEF Init, InitMcp
  <1>3. DOMAIN j = {"st", "root", "todo", "visited", "built", "err"} /\ j.built = none /\ j.st = "idle"
    BY DEF NewJob
  <1>4. boot[1] \notin {"mcp", "validate"}
    BY <1>2
  <1>5. McpHolds
    <2> HIDE DEF none
    <2>1. QED BY <1>1, <1>2 DEF McpHolds, RegistryHolds, DefinitionsHold
  <1>6. ClientsHold
    <2> HIDE DEF none
    <2>1. QED BY <1>1, <1>2 DEF ClientsHold
  <1> HIDE DEF j
  <1>7. \A r \in Requests : job[r] = j
    BY <1>2
  <1>8. JobsHold
    <2>1. DOMAIN job = Requests
      BY <1>2
    <2> HIDE DEF none
    <2>2. IsJob(j)
      BY <1>1, <1>3 DEF IsJob
    <2>3. QED BY <1>1, <1>3, <1>7, <2>1, <2>2 DEF JobsHold
  <1>9. BootHolds
    BY <1>1, <1>2, <1>3, <1>4, <1>7 DEF BootHolds
  <1>10. CallsReach
    BY <1>2 DEF CallsReach
  <1>11. QED BY <1>5, <1>6, <1>8, <1>9, <1>10 DEF ServiceInv

LEMMA ServiceStep == ServiceInv /\ [Next]_vars => ServiceInv'
  <1> SUFFICES ASSUME ServiceInv, [Next]_vars PROVE ServiceInv'
    OBVIOUS
  <1>1. CASE Boot
    BY <1>1, BootStep
  <1>2. CASE boot = <<"serving">> /\ NextMcp /\ UNCHANGED serviceVars
    <2>1. McpHolds' /\ GenGrows
      BY <1>2, NextMcpHolds DEF ServiceInv
    <2>2. UNCHANGED <<clients, providers, job, calls, boot>>
      BY <1>2 DEF serviceVars
    <2>3. ClientsHold' /\ ClientsGrow
      BY <2>2, ClientsStay DEF ServiceInv
    <2>4. JobsHold'
      BY <2>1, <2>2, <2>3, AgentKept DEF ServiceInv, JobsHold
    <2>5. BootHolds' /\ CallsReach'
      BY <2>2 DEF ServiceInv, BootHolds, CallsReach
    <2>6. QED BY <2>1, <2>3, <2>4, <2>5 DEF ServiceInv
  <1>3. ASSUME NEW r \in Requests,
               \/ \E in \in Inputs : BuildRunnable(r, in) \/ BuildChatAgent(r, in)
               \/ BuildRunnableAgent(r)
               \/ \E i \in 1..Len(job[r].built) :
                    \E name \in DOMAIN job[r].built[i].definitions, d \in Deliveries :
                      Call(r, job[r].built[i], name, d)
        PROVE  ServiceInv'
    BY <1>3, StartStep, ChatStep, BuildStep, CallStep
  <1>4. CASE UNCHANGED vars
    <2>1. UNCHANGED mcpVars /\ UNCHANGED <<clients, providers, job, calls, boot>>
      BY <1>4 DEF vars, serviceVars
    <2>2. McpHolds' /\ GenGrows /\ ClientsHold' /\ ClientsGrow
      BY <2>1, McpStays, ClientsStay DEF ServiceInv
    <2>3. JobsHold'
      BY <2>1, <2>2, AgentKept DEF ServiceInv, JobsHold
    <2>4. BootHolds' /\ CallsReach'
      BY <2>1 DEF ServiceInv, BootHolds, CallsReach
    <2>5. QED BY <2>2, <2>3, <2>4 DEF ServiceInv
  <1>5. QED BY <1>1, <1>2, <1>3, <1>4 DEF Next

-----------------------------------------------------------------------------
(* Topologies: sequences. *)

IsSeq(s) == s \in Seq(Range(s))

LEMMA IsSeqOver ==
  \A S : \A s \in Seq(S) : IsSeq(s) /\ DOMAIN s = 1..Len(s) /\ Len(s) \in Nat
  <1> SUFFICES ASSUME NEW S, NEW s \in Seq(S)
               PROVE  IsSeq(s) /\ DOMAIN s = 1..Len(s) /\ Len(s) \in Nat
    OBVIOUS
  <1>1. DOMAIN s = 1..Len(s) /\ Len(s) \in Nat
    BY LenProperties
  <1>2. QED BY <1>1, SeqOfRange DEF IsSeq

\* The agents still to build, after the first: its sub-agents, then the others.
LEMMA QueueIs ==
  ASSUME NEW s, IsSeq(s), NEW t, IsSeq(t), t # <<>>, NEW u, u = s \o Tail(t)
  PROVE  /\ IsSeq(u) /\ Len(s) \in Nat /\ Len(t) \in Nat \ {0} /\ Len(u) = Len(s) + Len(t) - 1
         /\ \A i \in 1..Len(s) : u[i] = s[i]
         /\ \A i \in 2..Len(t) : u[Len(s) + i - 1] = t[i]
  <1> DEFINE S == Range(s) \cup Range(t)
             v == Tail(t)
  <1>1. s \in Seq(S) /\ t \in Seq(S)
    <2> DEFINE A == Range(s)  B == Range(t)
    <2>1. s \in Seq(A) /\ t \in Seq(B) /\ A \subseteq S /\ B \subseteq S
      BY DEF IsSeq
    <2> HIDE DEF A, B, S
    <2>2. QED BY <2>1, SeqMonotonic
  <1> HIDE DEF S
  <1>2. Len(s) \in Nat /\ Len(t) \in Nat \ {0}
    BY <1>1, EmptySeq, LenProperties
  <1>3. /\ v \in Seq(S) /\ Len(v) = Len(t) - 1
        /\ \A i \in 1..Len(v) : v[i] = t[i + 1]
    BY <1>1, HeadTailProperties
  <1> HIDE DEF v
  <1>4. /\ u \in Seq(S) /\ Len(u) = Len(s) + Len(v)
        /\ \A i \in 1..(Len(s) + Len(v)) : u[i] = IF i <= Len(s) THEN s[i] ELSE v[i - Len(s)]
    <2>1. u = s \o v
      BY DEF v
    <2>2. /\ s \o v \in Seq(S) /\ Len(s \o v) = Len(s) + Len(v)
          /\ \A i \in 1..(Len(s) + Len(v)) : (s \o v)[i] = IF i <= Len(s) THEN s[i] ELSE v[i - Len(s)]
      BY <1>1, <1>3, ConcatProperties
    <2>3. QED BY <2>1, <2>2
  <1>5. IsSeq(u)
    BY <1>4, IsSeqOver
  <1>6. \A i \in 1..Len(s) : u[i] = s[i]
    BY <1>2, <1>3, <1>4
  <1>7. ASSUME NEW i \in 2..Len(t) PROVE u[Len(s) + i - 1] = t[i]
    <2>1. Len(s) + i - 1 \in 1..(Len(s) + Len(v)) /\ ~ (Len(s) + i - 1 <= Len(s))
      BY <1>2, <1>3
    <2>2. u[Len(s) + i - 1] = v[(Len(s) + i - 1) - Len(s)]
      BY <1>4, <2>1
    <2>3. (Len(s) + i - 1) - Len(s) = i - 1 /\ i - 1 \in 1..Len(v) /\ (i - 1) + 1 = i
      BY <1>2, <1>3
    <2>4. QED BY <1>3, <2>2, <2>3
  <1>8. Len(u) = Len(s) + Len(t) - 1
    BY <1>2, <1>3, <1>4
  <1>9. QED BY <1>2, <1>5, <1>6, <1>7, <1>8

LEMMA OneMore ==
  ASSUME NEW s, IsSeq(s), NEW x
  PROVE  /\ IsSeq(Append(s, x)) /\ Len(s) \in Nat /\ Len(Append(s, x)) = Len(s) + 1
         /\ \A i \in 1..Len(s) : Append(s, x)[i] = s[i]
         /\ Append(s, x)[Len(s) + 1] = x
  <1> DEFINE S == Range(s) \cup {x}
  <1>1. s \in Seq(S) /\ x \in S
    <2> DEFINE A == Range(s)
    <2>1. s \in Seq(A) /\ A \subseteq S
      BY DEF IsSeq
    <2>2. x \in S
      OBVIOUS
    <2> HIDE DEF A, S
    <2>3. QED BY <2>1, <2>2, SeqMonotonic
  <1> HIDE DEF S
  <1>2. Append(s, x) \in Seq(S) /\ Len(s) \in Nat
    BY <1>1, AppendProperties, LenProperties
  <1>3. /\ Len(Append(s, x)) = Len(s) + 1 /\ Append(s, x)[Len(s) + 1] = x
        /\ \A i \in 1..Len(s) : Append(s, x)[i] = s[i]
    BY <1>1, AppendProperties
  <1>4. IsSeq(Append(s, x))
    BY <1>2, IsSeqOver
  <1>5. QED BY <1>2, <1>3, <1>4

-----------------------------------------------------------------------------
(* Topologies: the registry of agents. *)

FileHolds == file \in Seq(AgentConfig) /\ agents \subseteq RegisteredAgents

\* Among some places of the file there is a first.
LEMMA FirstIs ==
  ASSUME FileHolds, NEW S \in SUBSET (1..Len(file)), S # {}
  PROVE  FirstOf(S) \in S
  <1> DEFINE P == {i \in S : ~ IsPipeline(i)}
  <1>1. Len(file) \in Nat
    <2> DEFINE T == AgentConfig
    <2>1. file \in Seq(T)
      BY DEF FileHolds
    <2> HIDE DEF T
    <2>2. QED BY <2>1
  <1>2. S \in SUBSET Nat /\ P \in SUBSET Nat
    <2>1. 1..Len(file) \subseteq Nat /\ P \subseteq S
      BY <1>1
    <2> HIDE DEF P
    <2>2. QED BY <2>1
  <1>3. \E i \in S : \A j \in S \ {i} : Precedes(i, j)
    <2>1. CASE P # {}
      <3> DEFINE Q == P
      <3> HIDE DEF Q
      <3>1. PICK i \in Q : \A j \in Q : i <= j
        <4>1. Q \in SUBSET Nat /\ Q # {}
          BY <1>2, <2>1 DEF Q
        <4>2. QED BY <4>1, Least
      <3>2. i \in S /\ ~ IsPipeline(i)
        BY DEF Q
      <3>3. ASSUME NEW j \in S \ {i} PROVE Precedes(i, j)
        <4>1. CASE IsPipeline(j)
          BY <3>2, <4>1 DEF Precedes
        <4>2. CASE ~ IsPipeline(j)
          <5>1. i <= j
            BY <3>1, <4>2 DEF Q
          <5>2. i < j
            BY <1>2, <3>2, <5>1
          <5>3. QED BY <3>2, <4>2, <5>2 DEF Precedes
        <4>3. QED BY <4>1, <4>2
      <3>4. QED BY <3>2, <3>3
    <2>2. CASE P = {}
      <3>1. PICK i \in S : \A j \in S : i <= j
        BY <1>2, Least
      <3>2. ASSUME NEW j \in S \ {i} PROVE Precedes(i, j)
        <4>1. IsPipeline(i) /\ IsPipeline(j)
          BY <2>2
        <4>2. i < j
          BY <1>2, <3>1
        <4>3. QED BY <4>1, <4>2 DEF Precedes
      <3>3. QED BY <3>2
    <2>3. QED BY <2>1, <2>2
  <1>4. QED BY <1>3 DEF FirstOf

\* A registered id leads to an agent with that id.
LEMMA AgentThere ==
  ASSUME FileHolds, NEW id \in AgentIds
  PROVE  \E i \in agents : /\ FindAgent(id) = file[i] /\ file[i].id = id
                           /\ i \in 1..Len(file) /\ file[i] \in AgentConfig
  <1> DEFINE S == {i \in agents : file[i].id = id}
  <1>1. S \in SUBSET (1..Len(file)) /\ S # {}
    BY DEF FileHolds, RegisteredAgents, AgentIds
  <1>2. FirstOf(S) \in S
    <2> HIDE DEF S
    <2>1. QED BY <1>1, FirstIs
  <1>3. PICK i \in S : i = FirstOf(S)
    BY <1>2
  <1>4. FindAgent(id) = file[i]
    BY <1>3 DEF FindAgent
  <1>5. i \in 1..Len(file)
    BY <1>1
  <1>6. file[i] \in AgentConfig
    <2> DEFINE T == AgentConfig
    <2>1. file \in Seq(T)
      BY DEF FileHolds
    <2> HIDE DEF T
    <2>2. file[i] \in T
      BY <1>5, <2>1, ElementOfSeq
    <2>3. QED BY <2>2 DEF T
  <1>7. QED BY <1>3, <1>4, <1>5, <1>6

LEMMA SubAgentsAre ==
  ASSUME FileHolds, NEW id
  PROVE  SubAgents(id) \in Seq(AvailableAgent)
  <1> DEFINE T == AvailableAgent
             c == FindAgent(id)
  <1>1. CASE id \in AgentIds /\ c.execution = "pipeline" /\ c.pipeline # None
    <2>1. c \in AgentConfig
      BY <1>1, AgentThere
    <2>2. c.pipeline \in PipelineConfig
      BY <1>1, <2>1 DEF AgentConfig
    <2>3. AvailableAgents(c) \in Seq(T)
      BY <2>2 DEF PipelineConfig, AvailableAgents
    <2>4. SubAgents(id) = AvailableAgents(c)
      BY <1>1 DEF SubAgents
    <2>5. QED BY <2>3, <2>4
  <1>2. CASE ~ (id \in AgentIds /\ c.execution = "pipeline" /\ c.pipeline # None)
    <2>1. SubAgents(id) = <<>>
      BY <1>2 DEF SubAgents
    <2> HIDE DEF T
    <2>2. SubAgents(id) \in Seq(T)
      BY <2>1, EmptySeq
    <2>3. QED BY <2>2 DEF T
  <1>3. QED BY <1>1, <1>2

-----------------------------------------------------------------------------
(* Topologies: the inductive invariant. *)

\* An agent id that was known when it was looked for is, or is of a pipeline that
\* was registered.
Accounted(id) == \/ id \in AgentIds
                 \/ \E i \in RegisteredAgents : IsPipeline(i) /\ file[i].id = id

\* Validation has come past the i-th agent.
LookedAt(i) == \/ boot[1] = "validate" /\ i < boot[2]
               \/ boot[1] \in {"keys", "serving"}

Validated(id) == LET p == FindAgent(id).pipeline
                 IN  p # None => \A k \in 1..Len(p.available) : Accounted(p.available[k].id)

ValidationHolds == \A i \in agents : IsPipeline(i) /\ LookedAt(i) => Validated(file[i].id)

\* The at-th reference of an agent that was built, or that of the request.
IsReference(j, from, at, id) ==
  \/ from = None /\ at = 0 /\ id = j.root
  \/ from \in j.visited /\ at \in 1..Len(SubAgents(from)) /\ id = SubAgents(from)[at].id

Pending(j, from, at) == \E i \in 1..Len(j.todo) : j.todo[i].from = from /\ j.todo[i].at = at

\* What is still to build is referred to, each by a reference of its own.
Referred(j) == \A i \in 1..Len(j.todo) :
                 IsReference(j, j.todo[i].from, j.todo[i].at, j.todo[i].id)

Once(j) == \A i, k \in 1..Len(j.todo) :
             j.todo[i].from = j.todo[k].from /\ j.todo[i].at = j.todo[k].at => i = k

\* Each reference leads to an agent that was built, or is to be followed yet.
Covered(j) == /\ j.root \in j.visited \/ Pending(j, None, 0)
              /\ \A x \in j.visited : \A k \in 1..Len(SubAgents(x)) :
                   SubAgents(x)[k].id \in j.visited \/ Pending(j, x, k)

\* What was built was built for a reference that is not followed again.
Spent(j) == \A x \in j.visited :
              \E from \in j.visited \cup {None} : \E at \in 0..Len(SubAgents(from)) :
                IsReference(j, from, at, x) /\ ~ Pending(j, from, at)

Seen(j) == j.visited \subseteq AgentIds /\ j.visited \subseteq Reachable(j.root)

GivenOwn(a) == LET config == FindAgent(a.id)
               IN  /\ a.tools \subseteq config.tools
                   /\ DOMAIN a.definitions \subseteq config.mcp_tools

BuiltOnce(j) == /\ IsSeq(j.built) /\ Ids(j.built) = j.visited
                /\ \A i, k \in 1..Len(j.built) : j.built[i].id = j.built[k].id => i = k
                /\ \A i \in 1..Len(j.built) : GivenOwn(j.built[i])

Outcome(j) == /\ j.st = "building" => j.todo # <<>>
              /\ j.st \in {"built", "called"} => j.todo = <<>>
              /\ j.st # "failed" => j.err = None
              /\ j.err = "unknown" => j.todo # <<>> /\ Head(j.todo).id \notin AgentIds
              /\ j.err = "circular" => j.todo # <<>> /\ Head(j.todo).id \in j.visited

Topology(j) == /\ IsSeq(j.todo) /\ Referred(j) /\ Once(j) /\ Covered(j) /\ Spent(j)
               /\ Seen(j) /\ BuiltOnce(j) /\ Outcome(j)

\* A chat has an agent of its own and no topology.
JobWhole(j) == /\ j.st = "idle" => /\ j.root = None /\ j.err = None
                                    /\ j.visited = {} /\ j.built = <<>>
               /\ j.st = "building" => j.root # None
               /\ j.root = None => j.err # "unknown"
               /\ j.root # None => Topology(j)

TopologyInv == FileHolds /\ ValidationHolds /\ \A r \in Requests : JobWhole(job[r])

-----------------------------------------------------------------------------
(* Topologies: what the root reaches. *)

LEMMA RootReached == \A root : root \in Reachable(root)
  BY DEF Reachable, Mentioned

LEMMA SubReached ==
  ASSUME NEW root, NEW x \in AgentIds, x \in Reachable(root), NEW k \in 1..Len(SubAgents(x))
  PROVE  SubAgents(x)[k].id \in Reachable(root)
  <1> DEFINE y == SubAgents(x)[k].id
  <1>1. y \in SubIds(x)
    BY DEF SubIds
  <1>2. y \in Mentioned(root)
    BY <1>1 DEF Mentioned
  <1> HIDE DEF y
  <1>3. ASSUME NEW T \in SUBSET Mentioned(root), root \in T, \A id \in T : SubIds(id) \subseteq T
        PROVE  y \in T
    <2>1. x \in T
      BY <1>3 DEF Reachable
    <2>2. QED BY <1>1, <1>3, <2>1
  <1>4. y \in Reachable(root)
    BY <1>2, <1>3 DEF Reachable
  <1>5. QED BY <1>4 DEF y

\* When nothing is left to build, everything the root reaches is built.
LEMMA AllReached ==
  ASSUME NEW j, IsSeq(j.todo), Covered(j), Seen(j), j.todo = <<>>
  PROVE  j.visited = Reachable(j.root)
  <1> DEFINE V == j.visited  root == j.root
  <1>1. \A from, at : ~ Pending(j, from, at)
    BY DEF Pending
  <1>2. root \in V /\ \A x \in V : \A k \in 1..Len(SubAgents(x)) : SubAgents(x)[k].id \in V
    BY <1>1 DEF Covered
  <1>3. V \subseteq Mentioned(root) /\ V \subseteq Reachable(root)
    BY DEF Seen, Mentioned
  <1> HIDE DEF V, root
  <1>4. \A x \in V : SubIds(x) \subseteq V
    BY <1>2 DEF SubIds
  <1>5. Reachable(root) \subseteq V
    BY <1>2, <1>3, <1>4 DEF Reachable
  <1>6. V = Reachable(root)
    BY <1>3, <1>5
  <1>7. QED BY <1>6 DEF V, root

LEMMA ReferenceReached ==
  ASSUME NEW j, Seen(j), NEW from, NEW at, NEW id, IsReference(j, from, at, id)
  PROVE  id \in Reachable(j.root) /\ <<from, at>> \in References(j.root, id)
  <1>1. CASE from = None /\ at = 0 /\ id = j.root
    BY <1>1, RootReached DEF References
  <1>2. CASE from \in j.visited /\ at \in 1..Len(SubAgents(from)) /\ id = SubAgents(from)[at].id
    <2>1. from \in AgentIds /\ from \in Reachable(j.root)
      BY <1>2 DEF Seen
    <2>2. id \in Reachable(j.root)
      BY <1>2, <2>1, SubReached
    <2>3. <<from, at>> \in {<<from, k>> : k \in {k \in 1..Len(SubAgents(from)) : SubAgents(from)[k].id = id}}
      BY <1>2
    <2>4. <<from, at>> \in References(j.root, id)
      BY <2>1, <2>3 DEF References
    <2>5. QED BY <2>2, <2>4
  <1>3. QED BY <1>1, <1>2 DEF IsReference

-----------------------------------------------------------------------------
(* Topologies: one more agent is built. *)

\* j2 is j after the agent a was built for the first frame, whose sub-agents are subs.
Grown(j, j2, f, subs, a) ==
  /\ j.todo # <<>> /\ f = Head(j.todo)
  /\ f.id \in AgentIds /\ f.id \notin j.visited
  /\ IsSeq(subs) /\ Len(subs) = Len(SubAgents(f.id))
  /\ \A i \in 1..Len(subs) : /\ subs[i].from = f.id /\ subs[i].at = i
                             /\ subs[i].id = SubAgents(f.id)[i].id
  /\ a.id = f.id /\ GivenOwn(a)
  /\ j2.root = j.root /\ j2.visited = j.visited \cup {f.id}
  /\ j2.todo = subs \o Tail(j.todo) /\ j2.built = Append(j.built, a)

\* The frames of j2: those of the sub-agents, and those of j but for the first.
LEMMA GrownTodo ==
  ASSUME FileHolds, NEW j, Topology(j), NEW j2, NEW f, NEW subs, NEW a,
         Grown(j, j2, f, subs, a)
  PROVE  /\ IsSeq(j2.todo) /\ f = j.todo[1] /\ 1 \in 1..Len(j.todo)
         /\ \A i \in 1..Len(j2.todo) :
              \/ i \in 1..Len(SubAgents(f.id)) /\ j2.todo[i].from = f.id /\ j2.todo[i].at = i
                 /\ j2.todo[i].id = SubAgents(f.id)[i].id
              \/ \E k \in 2..Len(j.todo) :
                   i = Len(SubAgents(f.id)) + k - 1 /\ j2.todo[i] = j.todo[k]
         /\ \A k \in 1..Len(SubAgents(f.id)) : Pending(j2, f.id, k)
         /\ \A k \in 2..Len(j.todo) : Pending(j2, j.todo[k].from, j.todo[k].at)
  <1> DEFINE t == j.todo  u == j2.todo  n == Len(SubAgents(f.id))
  <1>1. IsSeq(t) /\ IsSeq(subs) /\ t # <<>> /\ u = subs \o Tail(t) /\ Len(subs) = n
    BY DEF Topology, Grown
  <1>2. /\ IsSeq(u) /\ Len(subs) \in Nat /\ Len(t) \in Nat \ {0}
        /\ Len(u) = Len(subs) + Len(t) - 1
        /\ \A i \in 1..Len(subs) : u[i] = subs[i]
        /\ \A k \in 2..Len(t) : u[Len(subs) + k - 1] = t[k]
        /\ \A i \in 1..Len(u) : i \in 1..Len(subs) \/ \E k \in 2..Len(t) : i = Len(subs) + k - 1
    <2> HIDE DEF t, u, n
    <2>1. IsSeq(subs) /\ IsSeq(t) /\ t # <<>> /\ u = subs \o Tail(t)
      BY <1>1
    <2>2. /\ IsSeq(u) /\ Len(subs) \in Nat /\ Len(t) \in Nat \ {0}
          /\ Len(u) = Len(subs) + Len(t) - 1
      BY <2>1, QueueIs
    <2>3. /\ \A i \in 1..Len(subs) : u[i] = subs[i]
          /\ \A k \in 2..Len(t) : u[Len(subs) + k - 1] = t[k]
      BY <2>1, QueueIs
    <2>4. ASSUME NEW i \in 1..Len(u), i \notin 1..Len(subs)
          PROVE  \E k \in 2..Len(t) : i = Len(subs) + k - 1
      <3>1. i - Len(subs) + 1 \in 2..Len(t) /\ i = Len(subs) + (i - Len(subs) + 1) - 1
        BY <2>2, <2>4
      <3>2. QED BY <3>1
    <2>5. QED BY <2>2, <2>3, <2>4
  <1>3. \A i \in 1..n : /\ u[i].from = f.id /\ u[i].at = i /\ u[i].id = SubAgents(f.id)[i].id
    <2>1. \A i \in 1..Len(subs) : /\ subs[i].from = f.id /\ subs[i].at = i
                                  /\ subs[i].id = SubAgents(f.id)[i].id
      BY DEF Grown
    <2> HIDE DEF t, u, n
    <2>2. QED BY <1>1, <1>2, <2>1
  <1>4. f = t[1] /\ 1 \in 1..Len(t)
    <2>1. f = Head(t)
      BY DEF Grown
    <2> HIDE DEF t, u
    <2>2. QED BY <1>2, <2>1
  <1>5. ASSUME NEW k \in 1..n PROVE Pending(j2, f.id, k)
    <2>1. k \in 1..Len(u)
      <3> HIDE DEF t, u, n
      <3>1. QED BY <1>1, <1>2
    <2>2. QED BY <1>3, <2>1 DEF Pending
  <1>6. ASSUME NEW k \in 2..Len(t) PROVE Pending(j2, t[k].from, t[k].at)
    <2>1. n + k - 1 \in 1..Len(u) /\ u[n + k - 1] = t[k]
      <3> HIDE DEF t, u, n
      <3>1. QED BY <1>1, <1>2
    <2>2. QED BY <2>1 DEF Pending
  <1>7. \A i \in 1..Len(u) :
          \/ i \in 1..n /\ u[i].from = f.id /\ u[i].at = i /\ u[i].id = SubAgents(f.id)[i].id
          \/ \E k \in 2..Len(t) : i = n + k - 1 /\ u[i] = t[k]
    <2> HIDE DEF t, u, n
    <2>1. TAKE i \in 1..Len(u)
    <2>2. CASE i \in 1..Len(subs)
      BY <1>1, <1>3, <2>2
    <2>3. CASE \E k \in 2..Len(t) : i = Len(subs) + k - 1
      <3>1. PICK k \in 2..Len(t) : i = Len(subs) + k - 1
        BY <2>3
      <3>2. u[i] = t[k] /\ i = n + k - 1
        BY <1>1, <1>2, <3>1
      <3>3. QED BY <3>2
    <2>4. QED BY <1>2, <2>2, <2>3
  <1>8. QED BY <1>2, <1>4, <1>5, <1>6, <1>7

\* What the reference of the first frame says, and the references of the others.
LEMMA GrownReferences ==
  ASSUME FileHolds, NEW j, Topology(j), NEW j2, NEW f, NEW subs, NEW a,
         Grown(j, j2, f, subs, a)
  PROVE  /\ IsReference(j, f.from, f.at, f.id) /\ Pending(j, f.from, f.at)
         /\ \A from, at, id : IsReference(j, from, at, id) =>
              IsReference(j2, from, at, id) /\ ~ (from = f.id /\ at \in 1..Len(SubAgents(f.id)))
         /\ \A from, at : Pending(j, from, at) =>
              Pending(j2, from, at) \/ (from = f.from /\ at = f.at)
         /\ \A from, at : Pending(j2, from, at) =>
              \/ from = f.id /\ at \in 1..Len(SubAgents(f.id))
              \/ Pending(j, from, at) /\ ~ (from = f.from /\ at = f.at)
  <1>1. f = j.todo[1] /\ 1 \in 1..Len(j.todo)
    BY GrownTodo
  <1>2. IsReference(j, f.from, f.at, f.id)
    BY <1>1 DEF Topology, Referred
  <1>3. Pending(j, f.from, f.at)
    BY <1>1 DEF Pending
  <1>4. j2.root = j.root /\ j2.visited = j.visited \cup {f.id} /\ f.id \notin j.visited
    BY DEF Grown
  <1>5. ASSUME NEW from, NEW at, NEW id, IsReference(j, from, at, id)
        PROVE  IsReference(j2, from, at, id) /\ ~ (from = f.id /\ at \in 1..Len(SubAgents(f.id)))
    <2>1. CASE from = None /\ at = 0 /\ id = j.root
      BY <1>4, <2>1 DEF IsReference
    <2>2. CASE from \in j.visited /\ at \in 1..Len(SubAgents(from)) /\ id = SubAgents(from)[at].id
      BY <1>4, <2>2 DEF IsReference
    <2>3. QED BY <1>5, <2>1, <2>2 DEF IsReference
  <1>6. ASSUME NEW from, NEW at, Pending(j, from, at)
        PROVE  Pending(j2, from, at) \/ (from = f.from /\ at = f.at)
    <2>1. PICK i \in 1..Len(j.todo) : j.todo[i].from = from /\ j.todo[i].at = at
      BY <1>6 DEF Pending
    <2>2. CASE i = 1
      BY <1>1, <2>1, <2>2
    <2>3. CASE i # 1
      <3>1. i \in 2..Len(j.todo)
        BY <2>3
      <3>2. Pending(j2, j.todo[i].from, j.todo[i].at)
        BY <3>1, GrownTodo
      <3>3. QED BY <2>1, <3>2
    <2>4. QED BY <2>2, <2>3
  <1>7. ASSUME NEW from, NEW at, Pending(j2, from, at)
        PROVE  \/ from = f.id /\ at \in 1..Len(SubAgents(f.id))
               \/ Pending(j, from, at) /\ ~ (from = f.from /\ at = f.at)
    <2>1. PICK i \in 1..Len(j2.todo) : j2.todo[i].from = from /\ j2.todo[i].at = at
      BY <1>7 DEF Pending
    <2>2. \/ i \in 1..Len(SubAgents(f.id)) /\ j2.todo[i].from = f.id /\ j2.todo[i].at = i
          \/ \E k \in 2..Len(j.todo) : j2.todo[i] = j.todo[k]
      BY GrownTodo
    <2>3. CASE \E k \in 2..Len(j.todo) : j2.todo[i] = j.todo[k]
      <3>1. PICK k \in 2..Len(j.todo) : j2.todo[i] = j.todo[k]
        BY <2>3
      <3>2. k \in 1..Len(j.todo) /\ k # 1
        OBVIOUS
      <3>3. Pending(j, from, at)
        BY <2>1, <3>1, <3>2 DEF Pending
      <3>4. ~ (from = f.from /\ at = f.at)
        <4>1. \A x, y \in 1..Len(j.todo) :
                j.todo[x].from = j.todo[y].from /\ j.todo[x].at = j.todo[y].at => x = y
          BY DEF Topology, Once
        <4>2. QED BY <1>1, <2>1, <3>1, <3>2, <4>1
      <3>5. QED BY <3>3, <3>4
    <2>4. QED BY <2>1, <2>2, <2>3
  <1>8. QED BY <1>2, <1>3, <1>5, <1>6, <1>7

LEMMA GrownReferred ==
  ASSUME FileHolds, NEW j, Topology(j), NEW j2, NEW f, NEW subs, NEW a,
         Grown(j, j2, f, subs, a)
  PROVE  Referred(j2) /\ Once(j2)
  <1>1. j2.visited = j.visited \cup {f.id}
    BY DEF Grown
  <1> DEFINE new(i) == /\ i \in 1..Len(SubAgents(f.id)) /\ j2.todo[i].from = f.id
                       /\ j2.todo[i].at = i /\ j2.todo[i].id = SubAgents(f.id)[i].id
             old(i, k) == /\ k \in 2..Len(j.todo) /\ i = Len(SubAgents(f.id)) + k - 1
                          /\ j2.todo[i] = j.todo[k]
  <1>2. \A i \in 1..Len(j2.todo) : new(i) \/ \E k : old(i, k)
    <2>1. \A i \in 1..Len(j2.todo) :
            \/ i \in 1..Len(SubAgents(f.id)) /\ j2.todo[i].from = f.id /\ j2.todo[i].at = i
               /\ j2.todo[i].id = SubAgents(f.id)[i].id
            \/ \E k \in 2..Len(j.todo) :
                 i = Len(SubAgents(f.id)) + k - 1 /\ j2.todo[i] = j.todo[k]
      BY GrownTodo
    <2>2. QED BY <2>1
  <1>3. \A i, k : old(i, k) => /\ IsReference(j, j2.todo[i].from, j2.todo[i].at, j2.todo[i].id)
                               /\ k \in 1..Len(j.todo)
    <2>1. ASSUME NEW i, NEW k, old(i, k)
          PROVE  /\ IsReference(j, j2.todo[i].from, j2.todo[i].at, j2.todo[i].id)
                 /\ k \in 1..Len(j.todo)
      <3>1. k \in 1..Len(j.todo) /\ j2.todo[i] = j.todo[k]
        BY <2>1
      <3>2. QED BY <3>1 DEF Topology, Referred
    <2>2. QED BY <2>1
  <1>4. \A from, at, id : IsReference(j, from, at, id) =>
          IsReference(j2, from, at, id) /\ ~ (from = f.id /\ at \in 1..Len(SubAgents(f.id)))
    BY GrownReferences
  <1>5. \A i : new(i) => IsReference(j2, j2.todo[i].from, j2.todo[i].at, j2.todo[i].id)
    BY <1>1 DEF IsReference
  <1>6. Referred(j2)
    <2> HIDE DEF new, old
    <2>1. QED BY <1>2, <1>3, <1>4, <1>5 DEF Referred
  <1>7. ASSUME NEW i \in 1..Len(j2.todo), NEW k \in 1..Len(j2.todo),
               j2.todo[i].from = j2.todo[k].from, j2.todo[i].at = j2.todo[k].at
        PROVE  i = k
    <2>1. CASE new(i) /\ new(k)
      BY <1>7, <2>1
    <2>2. ASSUME NEW x, old(i, x), NEW y, old(k, y) PROVE i = k
      <3>1. x \in 1..Len(j.todo) /\ y \in 1..Len(j.todo)
        BY <2>2, <1>3
      <3>2. x = y
        BY <1>7, <2>2, <3>1 DEF Topology, Once
      <3>3. QED BY <2>2, <3>2
    <2>3. ASSUME NEW x, NEW y, new(x), NEW z, old(y, z),
                 j2.todo[x].from = j2.todo[y].from, j2.todo[x].at = j2.todo[y].at
          PROVE  FALSE
      <3>1. IsReference(j, j2.todo[y].from, j2.todo[y].at, j2.todo[y].id)
        BY <1>3, <2>3
      <3>2. ~ (j2.todo[y].from = f.id /\ j2.todo[y].at \in 1..Len(SubAgents(f.id)))
        BY <1>4, <3>1
      <3>3. QED BY <2>3, <3>2
    <2> HIDE DEF new, old
    <2>4. QED BY <1>2, <1>7, <2>1, <2>2, <2>3
  <1>8. Once(j2)
    BY <1>7 DEF Once
  <1>9. QED BY <1>6, <1>8

LEMMA GrownCovered ==
  ASSUME FileHolds, NEW j, Topology(j), NEW j2, NEW f, NEW subs, NEW a,
         Grown(j, j2, f, subs, a)
  PROVE  Covered(j2) /\ Spent(j2)
  <1>1. j2.root = j.root /\ j2.visited = j.visited \cup {f.id} /\ f.id \notin j.visited
    BY DEF Grown
  <1>2. IsReference(j, f.from, f.at, f.id) /\ Covered(j) /\ Spent(j)
    BY GrownReferences DEF Topology
  <1>3. \A from, at, id : IsReference(j, from, at, id) =>
          IsReference(j2, from, at, id) /\ ~ (from = f.id /\ at \in 1..Len(SubAgents(f.id)))
    BY GrownReferences
  <1>4. \A from, at : Pending(j, from, at) => Pending(j2, from, at) \/ (from = f.from /\ at = f.at)
    BY GrownReferences
  <1>5. \A from, at : Pending(j2, from, at) =>
          \/ from = f.id /\ at \in 1..Len(SubAgents(f.id))
          \/ Pending(j, from, at) /\ ~ (from = f.from /\ at = f.at)
    BY GrownReferences
  <1>6. \A x : SubAgents(x) \in Seq(AvailableAgent)
    BY SubAgentsAre
  <1>7. \A x : Len(SubAgents(x)) \in Nat
    <2> DEFINE T == AvailableAgent
    <2>1. \A x : SubAgents(x) \in Seq(T)
      BY <1>6
    <2> HIDE DEF T
    <2>2. QED BY <2>1, LenProperties
  <1>8. j2.root \in j2.visited \/ Pending(j2, None, 0)
    <2>1. CASE f.from = None /\ f.at = 0
      <3>1. f.id = j.root
        BY <1>2, <1>7, <2>1 DEF IsReference
      <3>2. QED BY <1>1, <3>1
    <2>2. CASE ~ (f.from = None /\ f.at = 0)
      BY <1>1, <1>2, <1>4, <2>2 DEF Covered
    <2>3. QED BY <2>1, <2>2
  <1>9. ASSUME NEW x \in j2.visited, NEW k \in 1..Len(SubAgents(x))
        PROVE  SubAgents(x)[k].id \in j2.visited \/ Pending(j2, x, k)
    <2>1. CASE x = f.id
      BY <1>9, <2>1, GrownTodo
    <2>2. CASE x \in j.visited
      <3>1. SubAgents(x)[k].id \in j.visited \/ Pending(j, x, k)
        BY <1>2, <2>2 DEF Covered
      <3>2. CASE x = f.from /\ k = f.at
        <4>1. f.id = SubAgents(x)[k].id
          BY <1>2, <1>7, <3>2 DEF IsReference
        <4>2. QED BY <1>1, <4>1
      <3>3. CASE ~ (x = f.from /\ k = f.at)
        BY <1>1, <1>4, <3>1, <3>3
      <3>4. QED BY <3>2, <3>3
    <2>3. QED BY <1>1, <2>1, <2>2
  <1>10. Covered(j2)
    BY <1>8, <1>9 DEF Covered
  <1>11. \A from, at, id : IsReference(j, from, at, id) =>
           from \in j.visited \cup {None} /\ at \in 0..Len(SubAgents(from))
    BY <1>7 DEF IsReference
  <1>12. ASSUME NEW x \in j2.visited
         PROVE  \E from \in j2.visited \cup {None} : \E at \in 0..Len(SubAgents(from)) :
                  IsReference(j2, from, at, x) /\ ~ Pending(j2, from, at)
    <2>1. CASE x = f.id
      <3>1. IsReference(j2, f.from, f.at, x) /\ ~ Pending(j2, f.from, f.at)
        BY <1>2, <1>3, <1>5, <2>1
      <3>2. QED BY <1>1, <1>2, <1>11, <3>1
    <2>2. CASE x \in j.visited
      <3>1. PICK from \in j.visited \cup {None} : \E at \in 0..Len(SubAgents(from)) :
              IsReference(j, from, at, x) /\ ~ Pending(j, from, at)
        BY <1>2, <2>2 DEF Spent
      <3>2. PICK at \in 0..Len(SubAgents(from)) :
              IsReference(j, from, at, x) /\ ~ Pending(j, from, at)
        BY <3>1
      <3>3. IsReference(j2, from, at, x) /\ ~ Pending(j2, from, at)
        BY <1>3, <1>5, <3>2
      <3>4. QED BY <1>1, <3>3
    <2>3. QED BY <1>1, <2>1, <2>2
  <1>13. Spent(j2)
    BY <1>12 DEF Spent
  <1>14. QED BY <1>10, <1>13

LEMMA GrownBuilt ==
  ASSUME FileHolds, NEW j, Topology(j), NEW j2, NEW f, NEW subs, NEW a,
         Grown(j, j2, f, subs, a)
  PROVE  Seen(j2) /\ BuiltOnce(j2)
  <1>1. /\ j2.root = j.root /\ j2.visited = j.visited \cup {f.id} /\ f.id \notin j.visited
        /\ f.id \in AgentIds /\ a.id = f.id /\ GivenOwn(a) /\ j2.built = Append(j.built, a)
    BY DEF Grown
  <1>2. IsReference(j, f.from, f.at, f.id) /\ Seen(j) /\ BuiltOnce(j)
    BY GrownReferences DEF Topology
  <1>3. Seen(j2)
    <2>1. f.id \in Reachable(j.root)
      BY <1>2, ReferenceReached
    <2>2. QED BY <1>1, <1>2, <2>1 DEF Seen
  <1> DEFINE b == j.built  c == j2.built  n == Len(b)
  <1>4. /\ IsSeq(c) /\ n \in Nat /\ Len(c) = n + 1
        /\ \A i \in 1..n : c[i] = b[i]
        /\ c[n + 1] = a
    <2>1. IsSeq(b) /\ c = Append(b, a)
      BY <1>1, <1>2 DEF BuiltOnce
    <2> HIDE DEF b, c
    <2>2. QED BY <2>1, OneMore
  <1>5. \A i \in 1..n : b[i].id \in j.visited
    BY <1>2 DEF BuiltOnce, Ids
  <1>6. Ids(b) = j.visited /\ (\A i, k \in 1..n : b[i].id = b[k].id => i = k)
        /\ \A i \in 1..n : GivenOwn(b[i])
    BY <1>2 DEF BuiltOnce
  <1> HIDE DEF b, c, n
  <1>7. 1..Len(c) = 1..n \cup {n + 1}
    BY <1>4
  <1>8. Ids(c) = j2.visited
    <2>1. Ids(c) = {c[i].id : i \in 1..n} \cup {c[n + 1].id}
      BY <1>7 DEF Ids
    <2>2. {c[i].id : i \in 1..n} = Ids(b)
      BY <1>4 DEF Ids, n
    <2>3. QED BY <1>1, <1>4, <1>6, <2>1, <2>2
  <1>9. \A i, k \in 1..Len(c) : c[i].id = c[k].id => i = k
    BY <1>1, <1>4, <1>5, <1>6, <1>7
  <1>10. \A i \in 1..Len(c) : GivenOwn(c[i])
    BY <1>1, <1>4, <1>6, <1>7
  <1>11. BuiltOnce(j2)
    BY <1>4, <1>8, <1>9, <1>10 DEF BuiltOnce, c
  <1>12. QED BY <1>3, <1>11

LEMMA TopologyGrown ==
  ASSUME FileHolds, NEW j, Topology(j), NEW j2, NEW f, NEW subs, NEW a,
         Grown(j, j2, f, subs, a), j.st = "building", j2.err = j.err,
         j2.st = IF j2.todo = <<>> THEN "built" ELSE j.st
  PROVE  Topology(j2)
  <1>1. IsSeq(j2.todo)
    BY GrownTodo
  <1>2. Referred(j2) /\ Once(j2)
    BY GrownReferred
  <1>3. Covered(j2) /\ Spent(j2)
    BY GrownCovered
  <1>4. Seen(j2) /\ BuiltOnce(j2)
    BY GrownBuilt
  <1>5. j2.err = None
    BY DEF Topology, Outcome
  <1>6. None # "unknown" /\ None # "circular"
    BY ErrorsAssumption DEF ErrorsAssumption
  <1>7. Outcome(j2)
    BY <1>5, <1>6 DEF Outcome
  <1>8. QED BY <1>1, <1>2, <1>3, <1>4, <1>7 DEF Topology

\* Nothing is built: how the build stands is all that changes.
LEMMA TopologyStays ==
  ASSUME NEW j, Topology(j), NEW j2, j2.root = j.root, j2.todo = j.todo,
         j2.visited = j.visited, j2.built = j.built, Outcome(j2)
  PROVE  Topology(j2)
  <1>1. \A from, at : Pending(j2, from, at) <=> Pending(j, from, at)
    BY DEF Pending
  <1>2. \A from, at, id : IsReference(j2, from, at, id) <=> IsReference(j, from, at, id)
    BY DEF IsReference
  <1>3. IsSeq(j2.todo) /\ Seen(j2) /\ BuiltOnce(j2)
    BY DEF Topology, Seen, BuiltOnce
  <1>4. Referred(j2) /\ Once(j2)
    BY <1>2 DEF Topology, Referred, Once
  <1>5. Covered(j2)
    BY <1>1 DEF Topology, Covered
  <1>6. Spent(j2)
    BY <1>1, <1>2 DEF Topology, Spent
  <1>7. QED BY <1>3, <1>4, <1>5, <1>6 DEF Topology

LEMMA TopologyStarts ==
  ASSUME NEW j, NEW f, f.from = None, f.at = 0, f.id = j.root, j.todo = <<f>>,
         j.visited = {}, j.built = <<>>, j.st = "building", j.err = None
  PROVE  Topology(j)
  <1>1. Len(j.todo) = 1 /\ j.todo[1] = f /\ j.todo # <<>>
    OBVIOUS
  <1>2. IsSeq(j.todo)
    <2>1. <<f>> \in Seq({f})
      OBVIOUS
    <2>2. IsSeq(<<f>>)
      BY <2>1, IsSeqOver
    <2>3. QED BY <2>2
  <1>3. Referred(j) /\ Once(j)
    BY <1>1 DEF Referred, Once, IsReference
  <1>4. Covered(j)
    BY <1>1 DEF Covered, Pending
  <1>5. Spent(j) /\ Seen(j)
    BY DEF Spent, Seen
  <1>6. BuiltOnce(j)
    <2> DEFINE none == <<>>
    <2>1. none \in Seq({}) /\ Len(none) = 0
      OBVIOUS
    <2> HIDE DEF none
    <2>2. IsSeq(none)
      BY <2>1, IsSeqOver
    <2>3. j.built = none /\ Ids(none) = {}
      BY <2>1 DEF Ids, none
    <2>4. QED BY <2>1, <2>2, <2>3 DEF BuiltOnce
  <1>7. Outcome(j)
    BY <1>1, ErrorsAssumption DEF Outcome, ErrorsAssumption
  <1>8. QED BY <1>2, <1>3, <1>4, <1>5, <1>6, <1>7 DEF Topology

-----------------------------------------------------------------------------
(* Topologies: the steps. *)

LEMMA AgentsKept ==
  ASSUME UNCHANGED <<file, agents>>
  PROVE  /\ AgentIds' = AgentIds
         /\ \A i : IsPipeline(i)' = IsPipeline(i)
         /\ \A id : FindAgent(id)' = FindAgent(id)
         /\ \A id : SubAgents(id)' = SubAgents(id)
         /\ \A root : Reachable(root)' = Reachable(root)
  <1>1. AgentIds' = AgentIds /\ \A i : IsPipeline(i)' = IsPipeline(i)
    BY DEF AgentIds, IsPipeline
  <1>2. \A i, k : Precedes(i, k)' = Precedes(i, k)
    BY DEF Precedes, IsPipeline
  <1>3. \A S : FirstOf(S)' = FirstOf(S)
    BY DEF FirstOf, Precedes, IsPipeline
  <1>4. \A id : FindAgent(id)' = FindAgent(id)
    BY <1>3 DEF FindAgent
  <1>5. \A id : SubAgents(id)' = SubAgents(id)
    BY <1>1, <1>4 DEF SubAgents, AvailableAgents
  <1>6. \A id : SubIds(id)' = SubIds(id)
    BY <1>5 DEF SubIds
  <1>7. \A root : Mentioned(root)' = Mentioned(root)
    BY <1>1, <1>6 DEF Mentioned
  <1>8. \A root : Reachable(root)' = Reachable(root)
    BY <1>6, <1>7 DEF Reachable
  <1>9. QED BY <1>1, <1>4, <1>5, <1>8

LEMMA JobLifted ==
  ASSUME UNCHANGED <<file, agents>>, NEW j, JobWhole(j)
  PROVE  JobWhole(j)'
  <1>1. /\ AgentIds' = AgentIds
        /\ \A id : FindAgent(id)' = FindAgent(id)
        /\ \A id : SubAgents(id)' = SubAgents(id)
        /\ \A root : Reachable(root)' = Reachable(root)
    BY AgentsKept
  <1>2. ASSUME Topology(j) PROVE Topology(j)'
    <2>1. IsSeq(j.todo)' /\ Referred(j)' /\ Once(j)'
      BY <1>1, <1>2 DEF Topology, Referred, Once, IsReference
    <2>2. Covered(j)'
      BY <1>1, <1>2 DEF Topology, Covered, Pending
    <2>3. Spent(j)'
      BY <1>1, <1>2 DEF Topology, Spent, Pending, IsReference
    <2>4. Seen(j)' /\ Outcome(j)'
      BY <1>1, <1>2 DEF Topology, Seen, Outcome
    <2>5. BuiltOnce(j)'
      BY <1>1, <1>2 DEF Topology, BuiltOnce, GivenOwn
    <2>6. QED BY <2>1, <2>2, <2>3, <2>4, <2>5 DEF Topology
  <1>3. QED BY <1>2 DEF JobWhole

\* What is known stays known, and nothing more was looked at.
LEMMA RegistryStays ==
  ASSUME FileHolds, ValidationHolds, UNCHANGED <<file, agents>>,
         DOMAIN definitions \subseteq DOMAIN definitions',
         \A i \in agents : LookedAt(i)' => LookedAt(i)
  PROVE  FileHolds' /\ ValidationHolds'
  <1>1. RegisteredAgents \subseteq RegisteredAgents'
    BY DEF RegisteredAgents, KnownTools, HasTool
  <1>2. FileHolds'
    BY <1>1 DEF FileHolds
  <1>3. /\ AgentIds' = AgentIds /\ \A i : IsPipeline(i)' = IsPipeline(i)
        /\ \A id : FindAgent(id)' = FindAgent(id)
    BY AgentsKept
  <1>4. \A id : Accounted(id) => Accounted(id)'
    BY <1>1, <1>3 DEF Accounted
  <1>5. \A id : Validated(id) => Validated(id)'
    BY <1>3, <1>4 DEF Validated
  <1>6. ValidationHolds'
    BY <1>3, <1>5 DEF ValidationHolds
  <1>7. QED BY <1>2, <1>6

\* While the server starts no request has a topology.
LEMMA IdleWhole ==
  ASSUME ServiceInv, TopologyInv, boot # <<"serving">>, UNCHANGED job
  PROVE  \A r \in Requests : JobWhole(job[r])'
  <1>1. ASSUME NEW r \in Requests PROVE JobWhole(job[r])'
    <2>1. job[r].st = "idle"
      BY BootIdle
    <2>2. /\ job[r].root = None /\ job[r].err = None /\ job[r].visited = {}
          /\ job[r].built = <<>> /\ None # "unknown"
      BY <2>1, ErrorsAssumption DEF TopologyInv, JobWhole, ErrorsAssumption
    <2>3. QED BY <2>1, <2>2 DEF JobWhole
  <1>2. QED BY <1>1

\* A pipeline is looked at: it stays if everything it names is known.
LEMMA ValidateStep ==
  ASSUME ServiceInv, FileHolds, ValidationHolds, ValidateAgents
  PROVE  FileHolds' /\ ValidationHolds'
  <1>a. PICK i : i = boot[2]
    OBVIOUS
  <1>1. /\ boot[1] = "validate" /\ i \in Nat \ {0}
        /\ UNCHANGED <<file, definitions>>
    BY <1>a DEF ValidateAgents, ServiceInv, BootHolds, mcpVars
  <1>2. Len(file) \in Nat /\ agents \subseteq 1..Len(file)
    <2> DEFINE T == AgentConfig
    <2>1. file \in Seq(T)
      BY DEF FileHolds
    <2> HIDE DEF T
    <2>2. QED BY <2>1 DEF FileHolds, RegisteredAgents
  <1>3. \A x \in agents : x < i => LookedAt(x)
    BY <1>1, <1>a DEF LookedAt
  <1>4. CASE i > Len(file)
    <2>1. UNCHANGED agents
      BY <1>4, <1>a DEF ValidateAgents
    <2>2. \A x \in agents : x < i
      BY <1>1, <1>2, <1>4
    <2>3. QED BY <1>1, <1>3, <2>1, <2>2, RegistryStays
  <1>5. CASE ~ (i > Len(file))
    <2>1. /\ boot' = <<"validate", i + 1>>
          /\ agents' = IF i \in agents /\ IsPipeline(i) THEN ValidatePipeline(file[i].id)
                       ELSE agents
      BY <1>5, <1>a DEF ValidateAgents
    <2>2. \A x \in agents : LookedAt(x)' => x < i \/ x = i
      <3>1. \A x : LookedAt(x)' => x < i + 1
        BY <2>1 DEF LookedAt
      <3>2. agents \subseteq Nat
        BY <1>2
      <3>3. QED BY <1>1, <3>1, <3>2
    <2>3. CASE ~ (i \in agents /\ IsPipeline(i))
      <3>1. UNCHANGED agents
        BY <2>1, <2>3
      <3>2. /\ RegisteredAgents' = RegisteredAgents /\ AgentIds' = AgentIds
            /\ \A x : IsPipeline(x)' = IsPipeline(x)
            /\ \A id : FindAgent(id)' = FindAgent(id)
        BY <1>1, <3>1, AgentsKept DEF RegisteredAgents, KnownTools, HasTool
      <3>3. \A id : Validated(id) => Validated(id)'
        BY <1>1, <3>2 DEF Validated, Accounted
      <3>4. FileHolds'
        BY <1>1, <3>1, <3>2 DEF FileHolds
      <3>5. ValidationHolds'
        BY <1>1, <1>3, <2>2, <2>3, <3>1, <3>2, <3>3 DEF ValidationHolds
      <3>6. QED BY <3>4, <3>5
    <2>4. CASE i \in agents /\ IsPipeline(i)
      <3> DEFINE id == file[i].id
                 p  == FindAgent(id).pipeline
                 dangling == p # None /\ \E k \in 1..Len(p.available) : p.available[k].id \notin AgentIds
      <3>1. agents' = IF dangling THEN {x \in agents : file[x].id # id} ELSE agents
        BY <2>1, <2>4 DEF ValidatePipeline
      <3>2. RegisteredAgents' = RegisteredAgents /\ \A x : IsPipeline(x)' = IsPipeline(x)
        BY <1>1 DEF RegisteredAgents, KnownTools, HasTool, IsPipeline
      <3>3. CASE dangling
        <4>1. agents' = {x \in agents : file[x].id # id} /\ agents' \subseteq agents
          BY <3>1, <3>3
        <4>2. FileHolds'
          BY <1>1, <3>2, <4>1 DEF FileHolds
        <4>3. \A z : z # id => FindAgent(z)' = FindAgent(z)
          <5>1. ASSUME NEW z, z # id PROVE FindAgent(z)' = FindAgent(z)
            <6>1. {x \in agents' : file'[x].id = z} = {x \in agents : file[x].id = z}
              BY <1>1, <4>1, <5>1
            <6>2. \A S : FirstOf(S)' = FirstOf(S)
              BY <1>1 DEF FirstOf, Precedes, IsPipeline
            <6>3. QED BY <1>1, <6>1, <6>2 DEF FindAgent
          <5>2. QED BY <5>1
        <4>4. ASSUME NEW z, Accounted(z) PROVE Accounted(z)'
          <5>1. CASE z = id
            <6>1. i \in RegisteredAgents' /\ IsPipeline(i)' /\ file'[i].id = z
              BY <1>1, <2>4, <3>2, <5>1 DEF FileHolds
            <6>2. QED BY <6>1 DEF Accounted
          <5>2. CASE z # id /\ z \in AgentIds
            <6>1. z \in AgentIds'
              BY <1>1, <4>1, <5>2 DEF AgentIds
            <6>2. QED BY <6>1 DEF Accounted
          <5>3. CASE z \notin AgentIds
            BY <1>1, <3>2, <4>4, <5>3 DEF Accounted
          <5>4. QED BY <5>1, <5>2, <5>3
        <4>5. \A z : z # id /\ Validated(z) => Validated(z)'
          BY <4>3, <4>4 DEF Validated
        <4>6. ValidationHolds'
          <5>1. ASSUME NEW x \in agents', IsPipeline(x), LookedAt(x)'
                PROVE  file[x].id # id /\ Validated(file[x].id)
            <6>1. x \in agents /\ file[x].id # id
              BY <4>1
            <6>2. LookedAt(x)
              BY <1>3, <2>2, <5>1, <6>1
            <6>3. QED BY <5>1, <6>1, <6>2 DEF ValidationHolds
          <5> HIDE DEF id
          <5>2. QED BY <1>1, <3>2, <4>5, <5>1 DEF ValidationHolds
        <4>7. QED BY <4>2, <4>6
      <3>4. CASE ~ dangling
        <4>1. UNCHANGED agents /\ Validated(id)
          BY <3>1, <3>4 DEF Validated, Accounted
        <4>2. FileHolds'
          BY <1>1, <3>2, <4>1 DEF FileHolds
        <4>3. AgentIds' = AgentIds /\ \A z : FindAgent(z)' = FindAgent(z)
          BY <1>1, <4>1, AgentsKept
        <4>4. \A z : Validated(z) => Validated(z)'
          BY <1>1, <3>2, <4>3 DEF Validated, Accounted
        <4>5. ValidationHolds'
          <5>1. ASSUME NEW x \in agents, IsPipeline(x), LookedAt(x)'
                PROVE  Validated(file[x].id)
            BY <1>3, <2>2, <4>1, <5>1 DEF ValidationHolds
          <5>2. QED BY <1>1, <3>2, <4>1, <4>4, <5>1 DEF ValidationHolds
        <4>6. QED BY <4>2, <4>5
      <3>5. QED BY <3>3, <3>4
    <2>5. QED BY <2>3, <2>4
  <1>6. QED BY <1>4, <1>5

LEMMA BootWhole ==
  ASSUME ServiceInv, TopologyInv, Boot
  PROVE  TopologyInv'
  <1>1. CASE BuildResolvedProviders
    <2>1. /\ boot # <<"serving">> /\ UNCHANGED <<job, file, agents, definitions>>
          /\ \A i : ~ LookedAt(i)'
      BY <1>1 DEF BuildResolvedProviders, mcpVars, LookedAt
    <2>2. QED BY <2>1, IdleWhole, RegistryStays DEF TopologyInv
  <1>2. CASE RegisterConfigured
    <2> DEFINE e == ServerFile[boot[2]]
    <2>0. /\ boot[1] = "mcp" /\ UNCHANGED <<job, file, agents>>
          /\ \/ boot' = <<"mcp", boot[2] + 1>> /\ UNCHANGED definitions
             \/ /\ boot' = <<"mcp", boot[2] + 1>>
                /\ AddDefinitions(e.name, Exposed(e.name, e.enabled))
             \/ boot' = <<"failed">> /\ UNCHANGED definitions
      BY <1>2 DEF RegisterConfigured
    <2>1. /\ boot # <<"serving">> /\ UNCHANGED <<job, file, agents>>
          /\ boot'[1] \in {"mcp", "failed"}
          /\ UNCHANGED definitions \/ AddDefinitions(e.name, Exposed(e.name, e.enabled))
      <3> HIDE DEF e
      <3>1. QED BY <2>0
    <2>a. \A i : ~ LookedAt(i)'
      BY <2>1 DEF LookedAt
    <2>2. DOMAIN definitions \subseteq DOMAIN definitions'
      <3>1. CASE AddDefinitions(e.name, Exposed(e.name, e.enabled))
        BY <3>1, OverlaidIs DEF AddDefinitions
      <3>2. QED BY <2>1, <3>1
    <2>3. QED BY <2>1, <2>a, <2>2, IdleWhole, RegistryStays DEF TopologyInv
  <1>3. CASE RegisterAgents
    <2>1. /\ boot # <<"serving">> /\ UNCHANGED <<job, file, definitions>>
          /\ \/ agents' = RegisteredAgents /\ boot' = <<"validate", 1>>
             \/ UNCHANGED agents /\ boot' = <<"failed">>
      BY <1>3 DEF RegisterAgents, mcpVars
    <2>2. \A r \in Requests : JobWhole(job[r])'
      BY <2>1, IdleWhole
    <2>3. CASE agents' = RegisteredAgents /\ boot' = <<"validate", 1>>
      <3>1. RegisteredAgents' = RegisteredAgents
        BY <2>1 DEF RegisteredAgents, KnownTools, HasTool
      <3>2. FileHolds'
        BY <2>1, <2>3, <3>1 DEF TopologyInv, FileHolds
      <3>3. \A i \in agents' : ~ LookedAt(i)'
        <4>1. \A i : LookedAt(i)' => i < 1
          BY <2>3 DEF LookedAt
        <4>2. agents' \subseteq 1..Len(file)
          BY <2>3 DEF RegisteredAgents
        <4>3. QED BY <4>1, <4>2
      <3>4. QED BY <2>2, <3>2, <3>3 DEF TopologyInv, ValidationHolds
    <2>4. CASE UNCHANGED agents /\ boot' = <<"failed">>
      <3>1. \A i : ~ LookedAt(i)'
        BY <2>4 DEF LookedAt
      <3>2. QED BY <2>1, <2>2, <2>4, <3>1, RegistryStays DEF TopologyInv
    <2>5. QED BY <2>1, <2>3, <2>4
  <1>4. CASE ValidateAgents
    <2>1. boot # <<"serving">> /\ UNCHANGED job
      BY <1>4 DEF ValidateAgents
    <2>2. QED BY <1>4, <2>1, IdleWhole, ValidateStep DEF TopologyInv
  <1>5. CASE Connect
    <2>1. /\ boot # <<"serving">> /\ UNCHANGED <<job, file, agents, definitions>>
          /\ \A i : LookedAt(i)
      BY <1>5 DEF Connect, mcpVars, LookedAt
    <2>2. QED BY <2>1, IdleWhole, RegistryStays DEF TopologyInv
  <1>6. QED BY <1>1, <1>2, <1>3, <1>4, <1>5 DEF Boot

\* A step of one request.
LEMMA OneMoves ==
  ASSUME TopologyInv, UNCHANGED <<file, agents, boot, definitions>>, NEW r \in Requests,
         \A s \in Requests \ {r} : job'[s] = job[s], JobWhole(job'[r])
  PROVE  TopologyInv'
  <1>1. \A i : LookedAt(i)' = LookedAt(i)
    BY DEF LookedAt
  <1>2. FileHolds' /\ ValidationHolds'
    BY <1>1, RegistryStays DEF TopologyInv
  <1>3. ASSUME NEW s \in Requests PROVE JobWhole(job[s])'
    <2>1. PICK j : j = job'[s]
      OBVIOUS
    <2>2. JobWhole(j)
      <3>1. CASE s = r
        BY <2>1, <3>1
      <3>2. CASE s # r
        BY <2>1, <3>2 DEF TopologyInv
      <3>3. QED BY <3>1, <3>2
    <2>3. JobWhole(j)'
      BY <2>2, JobLifted
    <2>4. QED BY <2>1, <2>3
  <1>4. QED BY <1>2, <1>3 DEF TopologyInv

LEMMA ErrorIs ==
  ASSUME NEW r, NEW frame, NEW why, why = BuildError(r, frame)
  PROVE  /\ why = "unknown" => frame.id \notin AgentIds
         /\ why = "circular" => frame.id \in job[r].visited
         /\ why = None => frame.id \in AgentIds /\ frame.id \notin job[r].visited
  <1>1. \A llm : ProviderError(llm) \in {"no_provider", "no_key", "no_url", None}
    BY DEF ProviderError
  <1> DEFINE llm == LlmOf(frame, FindAgent(frame.id)).llm
  <1>2. CASE frame.id \notin AgentIds
    BY <1>2, ErrorsAssumption DEF BuildError, ErrorsAssumption
  <1>3. CASE frame.id \in AgentIds /\ frame.id \in job[r].visited
    BY <1>3, ErrorsAssumption DEF BuildError, ErrorsAssumption
  <1>4. CASE frame.id \in AgentIds /\ frame.id \notin job[r].visited
    <2>1. why = "unresolved" \/ why = ProviderError(llm)
      BY <1>4 DEF BuildError
    <2>2. why # "unknown" /\ why # "circular"
      <3> HIDE DEF llm
      <3>1. QED BY <1>1, <2>1, ErrorsAssumption DEF ErrorsAssumption
    <2>3. QED BY <1>4, <2>2
  <1>5. QED BY <1>2, <1>3, <1>4

\* The frames of an agent that can be built are those of its sub-agents.
LEMMA FramesAre ==
  ASSUME FileHolds, NEW id \in AgentIds, NEW config, config = FindAgent(id),
         ~ (config.execution = "pipeline" /\ config.pipeline = None), NEW llm,
         NEW subs, subs = (IF config.execution = "pipeline" /\ config.pipeline # None
                           THEN Frames(config, llm) ELSE <<>>)
  PROVE  /\ IsSeq(subs) /\ Len(subs) = Len(SubAgents(id))
         /\ \A i \in 1..Len(subs) : /\ subs[i].from = id /\ subs[i].at = i
                                    /\ subs[i].id = SubAgents(id)[i].id
  <1>1. config.id = id
    BY AgentThere
  <1>2. CASE config.execution = "pipeline" /\ config.pipeline # None
    <2>1. SubAgents(id) = AvailableAgents(config)
      BY <1>2 DEF SubAgents
    <2> DEFINE n == Len(SubAgents(id))
               F(i) == [id |-> SubAgents(id)[i].id, ref |-> SubAgents(id)[i], input |-> llm,
                        from |-> id, at |-> i]
    <2>2. subs = [i \in 1..n |-> F(i)]
      BY <1>1, <1>2, <2>1 DEF Frames
    <2>3. n \in Nat
      <3> DEFINE T == AvailableAgent
      <3>1. SubAgents(id) \in Seq(T)
        BY SubAgentsAre
      <3> HIDE DEF T
      <3>2. QED BY <3>1
    <2>4. \A i : F(i).from = id /\ F(i).at = i /\ F(i).id = SubAgents(id)[i].id
      OBVIOUS
    <2> HIDE DEF n, F
    <2>5. Len(subs) = n /\ DOMAIN subs = 1..n /\ \A i \in 1..n : subs[i] = F(i)
      BY <2>2, <2>3
    <2>6. IsSeq(subs)
      <3> DEFINE S == {F(i) : i \in 1..n}
      <3>1. \A i \in 1..n : F(i) \in S
        OBVIOUS
      <3> HIDE DEF S
      <3>2. subs \in [1..n -> S]
        BY <2>2, <3>1
      <3>3. subs \in Seq(S)
        BY <2>3, <3>2
      <3>4. QED BY <3>3, IsSeqOver
    <2>7. QED BY <2>4, <2>5, <2>6 DEF n
  <1>3. CASE config.execution # "pipeline"
    <2> DEFINE none == <<>>
    <2>1. SubAgents(id) = none /\ subs = none
      BY <1>3 DEF SubAgents
    <2>2. none \in Seq({}) /\ Len(none) = 0
      OBVIOUS
    <2> HIDE DEF none
    <2>3. IsSeq(none)
      BY <2>2, IsSeqOver
    <2>4. QED BY <2>1, <2>2, <2>3
  <1>4. QED BY <1>2, <1>3

LEMMA StartWhole ==
  ASSUME ServiceInv, TopologyInv, NEW r \in Requests, NEW in, BuildRunnable(r, in)
  PROVE  TopologyInv'
  <1> DEFINE f == [id |-> in.id, ref |-> None, input |-> in.llm_config, from |-> None, at |-> 0]
  <1>1. /\ UNCHANGED <<file, agents, boot, definitions>> /\ job[r].st = "idle" /\ in.id # None
        /\ job' = [job EXCEPT ![r].st = "building", ![r].root = in.id, ![r].todo = <<f>>]
    BY DEF BuildRunnable, mcpVars
  <1>2. f.from = None /\ f.at = 0 /\ f.id = in.id
    OBVIOUS
  <1> HIDE DEF f
  <1>3. /\ \A s \in Requests \ {r} : job'[s] = job[s]
        /\ job'[r].st = "building" /\ job'[r].root = in.id /\ job'[r].todo = <<f>>
        /\ job'[r].err = job[r].err /\ job'[r].visited = job[r].visited
        /\ job'[r].built = job[r].built
    BY <1>1 DEF ServiceInv, JobsHold, IsJob
  <1>4. job[r].err = None /\ job[r].visited = {} /\ job[r].built = <<>>
    BY <1>1 DEF TopologyInv, JobWhole
  <1>5. PICK j : j = job'[r]
    OBVIOUS
  <1>6. Topology(j)
    BY <1>2, <1>3, <1>4, <1>5, TopologyStarts
  <1>7. JobWhole(j)
    BY <1>1, <1>3, <1>5, <1>6 DEF JobWhole
  <1>8. QED BY <1>1, <1>3, <1>5, <1>7, OneMoves

LEMMA ChatWhole ==
  ASSUME ServiceInv, TopologyInv, NEW r \in Requests, NEW in, BuildChatAgent(r, in)
  PROVE  TopologyInv'
  <1> DEFINE llm == in.llm_config.llm
             built == BuiltAgent(r, None, llm, in.llm_config.model, {}, <<>>, <<>>)
  <1>1. PICK a : a = built
    OBVIOUS
  <1>2. /\ UNCHANGED <<file, agents, boot, definitions>> /\ job[r].st = "idle"
        /\ \/ Fail(r, ProviderError(llm))
           \/ job' = [job EXCEPT ![r].st = "built", ![r].built = <<a>>]
    BY <1>1 DEF BuildChatAgent, mcpVars
  <1> HIDE DEF llm, built
  <1>3. job[r].root = None /\ job[r].err = None
    BY <1>2 DEF TopologyInv, JobWhole
  <1>4. ProviderError(llm) # "unknown" /\ None # "unknown"
    BY ErrorsAssumption DEF ProviderError, ErrorsAssumption
  <1>5. /\ \A s \in Requests \ {r} : job'[s] = job[s]
        /\ job'[r].st \in {"failed", "built"} /\ job'[r].root = None /\ job'[r].err # "unknown"
    BY <1>2, <1>3, <1>4 DEF Fail, ServiceInv, JobsHold, IsJob
  <1>6. JobWhole(job'[r])
    BY <1>5 DEF JobWhole
  <1>7. QED BY <1>2, <1>5, <1>6, OneMoves

LEMMA FailWhole ==
  ASSUME ServiceInv, TopologyInv, NEW r \in Requests, job[r].st = "building",
         NEW why, Fail(r, why), UNCHANGED <<file, agents, boot, definitions>>,
         why = "unknown" => Head(job[r].todo).id \notin AgentIds,
         why = "circular" => Head(job[r].todo).id \in job[r].visited
  PROVE  TopologyInv'
  <1>1. /\ \A s \in Requests \ {r} : job'[s] = job[s]
        /\ job'[r].st = "failed" /\ job'[r].err = why /\ job'[r].root = job[r].root
        /\ job'[r].todo = job[r].todo /\ job'[r].visited = job[r].visited
        /\ job'[r].built = job[r].built
    BY DEF Fail, ServiceInv, JobsHold, IsJob
  <1>2. job[r].root # None /\ Topology(job[r])
    BY DEF TopologyInv, JobWhole
  <1>3. PICK j : j = job'[r]
    OBVIOUS
  <1>4. Outcome(j)
    BY <1>1, <1>2, <1>3 DEF Topology, Outcome
  <1>5. Topology(j)
    BY <1>1, <1>2, <1>3, <1>4, TopologyStays
  <1>6. JobWhole(j)
    BY <1>1, <1>2, <1>3, <1>5 DEF JobWhole
  <1>7. QED BY <1>1, <1>3, <1>6, OneMoves

LEMMA BuildWhole ==
  ASSUME ServiceInv, TopologyInv, NEW r \in Requests, BuildRunnableAgent(r)
  PROVE  TopologyInv'
  <1>1. PICK f, config, llm, a, subs, todo : Builds(r, f, config, llm, a, subs, todo)
    BY BuildsOne
  <1>2. /\ UNCHANGED <<file, agents, boot, definitions>>
        /\ job[r].st = "building" /\ f = Head(job[r].todo)
    BY <1>1 DEF Builds, mcpVars
  <1>3. PICK why : why = BuildError(r, f)
    OBVIOUS
  <1>4. /\ why = "unknown" => f.id \notin AgentIds
        /\ why = "circular" => f.id \in job[r].visited
        /\ why = None => f.id \in AgentIds /\ f.id \notin job[r].visited
    BY <1>3, ErrorIs
  <1>5. CASE why # None
    <2>1. Fail(r, why)
      BY <1>1, <1>3, <1>5 DEF Builds
    <2>2. QED BY <1>2, <1>4, <2>1, FailWhole
  <1>6. CASE why = None /\ config.execution = "pipeline" /\ config.pipeline = None
    <2>1. Fail(r, "no_pipeline")
      BY <1>1, <1>3, <1>6 DEF Builds
    <2>2. QED BY <1>2, <2>1, FailWhole
  <1>7. CASE why = None /\ ~ (config.execution = "pipeline" /\ config.pipeline = None)
    <2>1. job' = [job EXCEPT ![r].todo = todo, ![r].visited = Visit(r, f.id),
                             ![r].built = Append(@, a),
                             ![r].st = IF todo = <<>> THEN "built" ELSE @]
      BY <1>1, <1>3, <1>7 DEF Builds
    <2>2. f.id \in AgentIds /\ f.id \notin job[r].visited
      BY <1>4, <1>7
    <2>3. FileHolds /\ job[r].root # None /\ Topology(job[r])
      BY <1>2 DEF TopologyInv, JobWhole
    <2>4. config = FindAgent(f.id) /\ config.id = f.id
      <3>1. config = FindAgent(f.id)
        BY <1>1 DEF Builds
      <3>2. QED BY <2>2, <2>3, <3>1, AgentThere
    <2>5. a.id = f.id /\ GivenOwn(a)
      <3>1. a = BuildAgentForId(r, config, llm.llm, llm.model)
        BY <1>1 DEF Builds
      <3>2. /\ a.id = config.id /\ a.tools = config.tools \cap LocalTools
            /\ a.definitions = Restrict(definitions, config.mcp_tools \cap DOMAIN definitions)
        BY <3>1 DEF BuildAgentForId, BuiltAgent
      <3>3. DOMAIN a.definitions \subseteq config.mcp_tools
        BY <3>2 DEF Restrict
      <3>4. QED BY <2>4, <3>2, <3>3 DEF GivenOwn
    <2>6. /\ IsSeq(subs) /\ Len(subs) = Len(SubAgents(f.id))
          /\ \A i \in 1..Len(subs) : /\ subs[i].from = f.id /\ subs[i].at = i
                                     /\ subs[i].id = SubAgents(f.id)[i].id
      <3>1. subs = (IF config.execution = "pipeline" /\ config.pipeline # None
                    THEN Frames(config, llm) ELSE <<>>)
        BY <1>1 DEF Builds
      <3>2. QED BY <1>7, <2>2, <2>3, <2>4, <3>1, FramesAre
    <2>7. todo = subs \o Tail(job[r].todo)
      BY <1>1 DEF Builds
    <2>8. Visit(r, f.id) = job[r].visited \cup {f.id}
      BY DEF Visit
    <2>9. /\ \A s \in Requests \ {r} : job'[s] = job[s]
          /\ job'[r].todo = todo /\ job'[r].visited = job[r].visited \cup {f.id}
          /\ job'[r].built = Append(job[r].built, a)
          /\ job'[r].st = (IF todo = <<>> THEN "built" ELSE job[r].st)
          /\ job'[r].root = job[r].root /\ job'[r].err = job[r].err
      BY <2>1, <2>8 DEF ServiceInv, JobsHold, IsJob
    <2>10. PICK j, j2 : j = job[r] /\ j2 = job'[r]
      OBVIOUS
    <2>11. j.todo # <<>>
      BY <1>2, <2>3, <2>10 DEF Topology, Outcome
    <2>12. Grown(j, j2, f, subs, a)
      BY <1>2, <2>2, <2>5, <2>6, <2>7, <2>9, <2>10, <2>11 DEF Grown
    <2>13. Topology(j2)
      <3>1. /\ Topology(j) /\ j.st = "building" /\ j2.err = j.err
            /\ j2.st = IF j2.todo = <<>> THEN "built" ELSE j.st
        BY <1>2, <2>3, <2>9, <2>10
      <3>2. QED BY <2>3, <2>12, <3>1, TopologyGrown
    <2>14. JobWhole(j2)
      <3>1. j2.st \in {"built", "building"} /\ j2.root # None
        BY <1>2, <2>3, <2>9, <2>10
      <3>2. QED BY <2>13, <3>1 DEF JobWhole
    <2>15. QED BY <1>2, <2>9, <2>10, <2>14, OneMoves
  <1>8. QED BY <1>5, <1>6, <1>7

LEMMA CallWhole ==
  ASSUME ServiceInv, TopologyInv, NEW r \in Requests, NEW a, NEW name, NEW d,
         Call(r, a, name, d)
  PROVE  TopologyInv'
  <1>1. /\ UNCHANGED <<file, agents, boot, definitions>> /\ job[r].st = "built"
        /\ job' = [job EXCEPT ![r].st = "called"]
    BY DEF Call, mcpVars
  <1>2. /\ \A s \in Requests \ {r} : job'[s] = job[s]
        /\ job'[r].st = "called" /\ job'[r].err = job[r].err /\ job'[r].root = job[r].root
        /\ job'[r].todo = job[r].todo /\ job'[r].visited = job[r].visited
        /\ job'[r].built = job[r].built
    BY <1>1 DEF ServiceInv, JobsHold, IsJob
  <1>3. JobWhole(job[r])
    BY DEF TopologyInv
  <1>4. PICK j : j = job'[r]
    OBVIOUS
  <1>5. ASSUME j.root # None PROVE Topology(j)
    <2>1. Topology(job[r])
      BY <1>2, <1>3, <1>4, <1>5 DEF JobWhole
    <2>2. Outcome(j)
      BY <1>1, <1>2, <1>4, <2>1 DEF Topology, Outcome
    <2>3. QED BY <1>2, <1>4, <2>1, <2>2, TopologyStays
  <1>6. JobWhole(j)
    BY <1>2, <1>3, <1>4, <1>5 DEF JobWhole
  <1>7. QED BY <1>1, <1>2, <1>4, <1>6, OneMoves

LEMMA TopologyInitial == Init => TopologyInv
  <1> SUFFICES ASSUME Init PROVE TopologyInv
    OBVIOUS
  <1>1. /\ file \in AgentFiles /\ boot = <<"providers">> /\ agents = {}
        /\ job = [r \in Requests |-> NewJob]
    BY DEF Init
  <1>2. FileHolds /\ ValidationHolds
    BY <1>1, FileAssumption DEF FileHolds, ValidationHolds, FileAssumption
  <1>3. /\ NewJob.st = "idle" /\ NewJob.root = None /\ NewJob.err = None /\ NewJob.visited = {}
        /\ NewJob.built = <<>>
    BY DEF NewJob
  <1>4. None # "unknown"
    BY ErrorsAssumption DEF ErrorsAssumption
  <1>5. JobWhole(NewJob)
    BY <1>3, <1>4 DEF JobWhole
  <1>6. QED BY <1>1, <1>2, <1>5 DEF TopologyInv

LEMMA McpWhole ==
  ASSUME TopologyInv, NextMcp \/ UNCHANGED definitions, UNCHANGED serviceVars
  PROVE  TopologyInv'
  <1>1. UNCHANGED <<file, agents, boot, job>>
    BY DEF serviceVars
  <1>2. DOMAIN definitions \subseteq DOMAIN definitions'
    <2>1. CASE UNCHANGED definitions
      BY <2>1
    <2>2. ASSUME NEW s, NEW t, AddDefinition(definitions, s, t) = definitions'
          PROVE  DOMAIN definitions \subseteq DOMAIN definitions'
      <3>1. definitions' = With(definitions, Namespaced(s, t), [server |-> s, tool |-> t])
        BY <2>2 DEF AddDefinition
      <3>2. DOMAIN With(definitions, Namespaced(s, t), [server |-> s, tool |-> t])
              = DOMAIN definitions \cup {Namespaced(s, t)}
        BY WithIs
      <3>3. QED BY <3>1, <3>2
    <2>3. CASE NextMcp
      <3>1. \/ UNCHANGED definitions
            \/ \E s, t : AddDefinition(definitions, s, t) = definitions'
        BY <2>3 DEF NextMcp, WithMcpRegistry, LockRegistry, WithMcpTool, Restart
      <3>2. QED BY <2>1, <2>2, <3>1
    <2>4. QED BY <2>1, <2>3
  <1>3. \A i : LookedAt(i)' = LookedAt(i)
    BY <1>1 DEF LookedAt
  <1>4. FileHolds' /\ ValidationHolds'
    BY <1>1, <1>2, <1>3, RegistryStays DEF TopologyInv
  <1>5. ASSUME NEW r \in Requests PROVE JobWhole(job[r])'
    <2>1. PICK j : j = job[r]
      OBVIOUS
    <2>2. JobWhole(j)'
      BY <1>1, <2>1, JobLifted DEF TopologyInv
    <2>3. QED BY <1>1, <2>1, <2>2
  <1>6. QED BY <1>4, <1>5 DEF TopologyInv

LEMMA TopologyStep == ServiceInv /\ TopologyInv /\ [Next]_vars => TopologyInv'
  <1> SUFFICES ASSUME ServiceInv, TopologyInv, [Next]_vars PROVE TopologyInv'
    OBVIOUS
  <1>1. CASE Boot
    BY <1>1, BootWhole
  <1>2. CASE boot = <<"serving">> /\ NextMcp /\ UNCHANGED serviceVars
    BY <1>2, McpWhole
  <1>3. ASSUME NEW r \in Requests,
               \/ \E in \in Inputs : BuildRunnable(r, in) \/ BuildChatAgent(r, in)
               \/ BuildRunnableAgent(r)
               \/ \E i \in 1..Len(job[r].built) :
                    \E name \in DOMAIN job[r].built[i].definitions, d \in Deliveries :
                      Call(r, job[r].built[i], name, d)
        PROVE  TopologyInv'
    BY <1>3, StartWhole, ChatWhole, BuildWhole, CallWhole
  <1>4. CASE UNCHANGED vars
    <2>1. UNCHANGED definitions /\ UNCHANGED serviceVars
      BY <1>4 DEF vars, mcpVars
    <2>2. QED BY <2>1, McpWhole
  <1>5. QED BY <1>1, <1>2, <1>3, <1>4 DEF Next

-----------------------------------------------------------------------------
(* The theorems. *)

\* The invariant holds of every server, however its requests interleave.
THEOREM ServiceInvariance == Spec => []ServiceInv
  <1>1. QED BY ServiceInitial, ServiceStep, PTL DEF Spec

\* A key is a hosted provider's own, or "local", which is none's: what an agent was
\* built for and what its client was made for are the same, or both local.
LEMMA SharedClient == ServiceInv => OneClient
  <1> SUFFICES ASSUME ServiceInv, NEW a \in BuiltAgents
               PROVE  /\ clients[a.key] = a.client
                      /\ \/ a.client.endpoint = Endpoint(a.llm)
                         \/ /\ a.llm \notin Hosted
                            /\ \E i \in 1..Len(providers) :
                                 /\ providers[i].id \notin Hosted \cup {a.llm}
                                 /\ providers[i].url = a.client.endpoint
    BY DEF OneClient
  <1>1. AgentHolds(a)
    BY DEF BuiltAgents, ServiceInv, JobsHold
  <1>2. PICK llm \in Ids(providers) :
          a.key[1] = ClientKey(llm, a.key[2])[1] /\ clients[a.key].endpoint = Endpoint(llm)
    BY <1>1 DEF AgentHolds, ServiceInv, ClientsHold
  <1>3. clients[a.key] = a.client /\ a.key[1] = ClientKey(a.llm, a.key[2])[1]
    BY <1>1 DEF AgentHolds
  <1>4. (IF a.llm \in Hosted THEN a.llm ELSE "local") = (IF llm \in Hosted THEN llm ELSE "local")
    <2> DEFINE m == a.key[2]
    <2>1. ClientKey(a.llm, m)[1] = IF a.llm \in Hosted THEN a.llm ELSE "local"
      BY KeyIs
    <2>2. ClientKey(llm, m)[1] = IF llm \in Hosted THEN llm ELSE "local"
      BY KeyIs
    <2>3. QED BY <1>2, <1>3, <2>1, <2>2
  <1>5. llm = a.llm \/ (llm \notin Hosted /\ a.llm \notin Hosted)
    BY <1>4, FileAssumption DEF FileAssumption
  <1>6. CASE llm = a.llm
    BY <1>2, <1>3, <1>6
  <1>7. CASE llm # a.llm /\ llm \notin Hosted /\ a.llm \notin Hosted
    <2>1. PICK i \in 1..Len(providers) : Find(providers, llm) = providers[i] /\ providers[i].id = llm
      BY FindIs
    <2>2. providers[i].url = a.client.endpoint
      BY <1>2, <1>3, <1>7, <2>1 DEF Endpoint
    <2>3. QED BY <1>3, <1>7, <2>1, <2>2
  <1>8. QED BY <1>5, <1>6, <1>7

\* with_client and with_local keep one client per provider and model.
THEOREM ClientsAreShared == Spec => []OneClient
  <1>1. QED BY ServiceInvariance, SharedClient, PTL

\* A call reaches the server and the tool of its definition, or is an error.
THEOREM CallsLand == Spec => []CallsReach
  <1>1. ServiceInv => CallsReach
    BY DEF ServiceInv
  <1>2. QED BY <1>1, ServiceInvariance, PTL

\* What is registered, what was validated and what is built fit each other in every
\* server, whatever its files say and however deep its pipelines go.
THEOREM TopologyInvariance == Spec => []TopologyInv
  <1>1. QED BY ServiceInvariance, TopologyInitial, TopologyStep, PTL DEF Spec

LEMMA WholeTopology == TopologyInv => BuiltWhole
  <1> SUFFICES ASSUME TopologyInv, NEW r \in Requests, NEW j, j = job[r], j.root # None
               PROVE  /\ j.st \in {"built", "called"} =>
                           /\ Ids(j.built) = Reachable(j.root)
                           /\ \A i, k \in 1..Len(j.built) : j.built[i].id = j.built[k].id => i = k
                      /\ j.err = "circular" =>
                           \E x \in Reachable(j.root) : \E u, v \in References(j.root, x) : u # v
                      /\ \A i \in 1..Len(j.built) : GivenOwn(j.built[i])
    BY DEF BuiltWhole, GivenOwn
  <1>1. FileHolds /\ Topology(j)
    BY DEF TopologyInv, JobWhole
  <1>2. ASSUME j.st \in {"built", "called"}
        PROVE  Ids(j.built) = Reachable(j.root)
    <2>1. j.todo = <<>> /\ IsSeq(j.todo) /\ Covered(j) /\ Seen(j) /\ Ids(j.built) = j.visited
      BY <1>1, <1>2 DEF Topology, Outcome, BuiltOnce
    <2>2. QED BY <2>1, AllReached
  <1>3. ASSUME j.err = "circular"
        PROVE  \E x \in Reachable(j.root) : \E u, v \in References(j.root, x) : u # v
    <2> DEFINE f == j.todo[1]
    <2>1. j.todo # <<>> /\ Head(j.todo).id \in j.visited /\ IsSeq(j.todo)
      BY <1>1, <1>3 DEF Topology, Outcome
    <2>2. 1 \in 1..Len(j.todo) /\ f.id \in j.visited
      <3> DEFINE t == j.todo  S == Range(t)
      <3>1. t \in Seq(S) /\ t # <<>> /\ Head(t).id \in j.visited
        BY <2>1 DEF IsSeq
      <3> HIDE DEF S, t
      <3>2. Len(t) \in Nat \ {0} /\ Head(t) = t[1]
        BY <3>1, EmptySeq
      <3>3. QED BY <3>1, <3>2 DEF t
    <2>3. IsReference(j, f.from, f.at, f.id) /\ Pending(j, f.from, f.at)
      BY <1>1, <2>2 DEF Topology, Referred, Pending
    <2>4. PICK from, at : IsReference(j, from, at, f.id) /\ ~ Pending(j, from, at)
      BY <1>1, <2>2 DEF Topology, Spent
    <2>5. /\ f.id \in Reachable(j.root) /\ <<f.from, f.at>> \in References(j.root, f.id)
          /\ <<from, at>> \in References(j.root, f.id)
      BY <1>1, <2>3, <2>4, ReferenceReached DEF Topology
    <2>6. <<f.from, f.at>> # <<from, at>>
      BY <2>3, <2>4
    <2>7. QED BY <2>5, <2>6
  <1>4. QED BY <1>1, <1>2, <1>3 DEF Topology, BuiltOnce

\* build_runnable_agent builds every agent of a topology once, or nothing of it.
THEOREM TopologiesAreWhole == Spec => []BuiltWhole
  <1>1. QED BY TopologyInvariance, WholeTopology, PTL

LEMMA UnknownNamed == ServiceInv /\ TopologyInv => UnknownExplained
  <1> SUFFICES ASSUME ServiceInv, TopologyInv, NEW r \in Requests, job[r].err = "unknown",
                      NEW f, f = Head(job[r].todo),
                      job[r].root \in AgentIds, FindAgent(f.from).pipeline.type = "dynamic"
               PROVE  \E i \in RegisteredAgents : IsPipeline(i) /\ file[i].id = f.id
    BY DEF UnknownExplained
  <1>1. PICK j : j = job[r]
    OBVIOUS
  <1>2. j.root # None /\ Topology(j) /\ FileHolds
    BY <1>1 DEF TopologyInv, JobWhole
  <1>3. j.todo # <<>> /\ f.id \notin AgentIds /\ IsSeq(j.todo)
    BY <1>1, <1>2 DEF Topology, Outcome
  <1>4. IsReference(j, f.from, f.at, f.id)
    <2> DEFINE t == j.todo  S == Range(t)
    <2>1. t \in Seq(S) /\ t # <<>>
      BY <1>3 DEF IsSeq
    <2>2. Len(t) \in Nat \ {0} /\ Head(t) = t[1]
      <3> HIDE DEF S, t
      <3>1. QED BY <2>1, EmptySeq
    <2>3. 1 \in 1..Len(t) /\ f = t[1]
      <3> HIDE DEF S
      <3>1. QED BY <1>1, <2>2
    <2>4. QED BY <1>2, <2>3 DEF Topology, Referred
  <1>5. /\ f.from \in AgentIds /\ f.at \in 1..Len(SubAgents(f.from))
        /\ f.id = SubAgents(f.from)[f.at].id
    BY <1>1, <1>2, <1>3, <1>4 DEF IsReference, Topology, Seen
  <1> DEFINE c == FindAgent(f.from)  p == c.pipeline
  <1>6. c.execution = "pipeline" /\ p # None
    <2>1. CASE ~ (c.execution = "pipeline" /\ p # None)
      <3>1. SubAgents(f.from) = <<>>
        BY <2>1 DEF SubAgents
      <3>2. QED BY <1>5, <3>1
    <2>2. QED BY <2>1
  <1>7. SubAgents(f.from) = p.available
    BY <1>5, <1>6 DEF SubAgents, AvailableAgents
  <1>8. PICK i \in agents : c = file[i] /\ file[i].id = f.from
    BY <1>2, <1>5, AgentThere
  <1>9. IsPipeline(i)
    BY <1>6, <1>8 DEF IsPipeline
  <1>10. boot = <<"serving">>
    <2>1. job[r].st # "idle"
      BY <1>1, <1>2 DEF TopologyInv, JobWhole
    <2>2. QED BY <2>1, BootIdle
  <1>11. LookedAt(i)
    BY <1>10 DEF LookedAt
  <1>12. Validated(f.from)
    BY <1>8, <1>9, <1>11 DEF TopologyInv, ValidationHolds
  <1>13. Accounted(f.id)
    <2>1. \A k \in 1..Len(p.available) : Accounted(p.available[k].id)
      BY <1>6, <1>12 DEF Validated
    <2> HIDE DEF p
    <2>2. QED BY <1>5, <1>7, <2>1
  <1>14. QED BY <1>3, <1>13 DEF Accounted

\* Validation at start explains every unknown agent a request meets.
THEOREM UnknownsAreExplained == Spec => []UnknownExplained
  <1>1. QED BY ServiceInvariance, TopologyInvariance, UnknownNamed, PTL
=============================================================================
