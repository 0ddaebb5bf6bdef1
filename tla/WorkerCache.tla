---------------------------- MODULE WorkerCache ----------------------------
(***************************************************************************)
(* The response cache in front of the worker endpoints (middleware/        *)
(* cache.ts over services/cache.service.ts) and the handlers that change   *)
(* what those endpoints answer.  A GET that misses stores what its handler *)
(* answers, whenever that is.  Four handlers (controllers/workers.ts:      *)
(* createWorker, updateWorker, deleteWorker, toggleActivation) write and   *)
(* then SCAN for the keys matching their patterns and delete them; all     *)
(* the others write and delete nothing.                                    *)
(*                                                                         *)
(* A response is the version of the data it was computed from.  The four   *)
(* delete "cache:*workers/<id>*" and "cache:*workers?*" (createWorker only *)
(* the latter).  In a Redis pattern '?' stands for exactly one             *)
(* character: the second covers every worker key but "cache:/api/workers"  *)
(* itself, which no pattern matches.                                       *)
(***************************************************************************)
EXTENDS Naturals

CONSTANTS
  CacheKeys,      \* the keys of the worker endpoints
  BareKeys,       \* those that end in "workers"
  Readers,        \* GETs in flight that missed
  Writers,        \* requests to the four handlers in flight
  MaxVersion,     \* bound: writes
  MaxCacheFaults  \* bound: Redis errors and handlers that break off

ASSUME WorkerCacheAssumption == /\ BareKeys \subseteq CacheKeys
                                /\ MaxVersion \in Nat /\ MaxCacheFaults \in Nat

VARIABLES
  version,     \* database: the data, as the number of writes so far
  handled,     \* history: the version the last write of the four made
  cached,      \* Redis: the version of each cached response, or Nothing
  reader,      \* the key and version of each response about to be stored
  writer,      \* the keys each of the four has yet to delete
  bornStale,   \* history: entries older than handled when stored
  orphaned,    \* history: entries whose deletion was given up
  cacheFaults  \* bounded by MaxCacheFaults

cacheVars == <<version, handled, cached, reader, writer, bornStale, orphaned, cacheFaults>>

Nothing == MaxVersion + 1
NoReader == [key |-> {}, version |-> 0]
NoWriter == [at |-> "idle", todo |-> {}]

\* mutant: "cache:*workers?", without the last star, matches no key
MatchedExactly == {}

\* What a write's patterns match.
Matched == CacheKeys \ BareKeys

CacheFault == /\ cacheFaults < MaxCacheFaults
              /\ cacheFaults' = cacheFaults + 1

CacheInit ==
  /\ version = 0
  /\ handled = 0
  /\ cached = [k \in CacheKeys |-> Nothing]
  /\ reader = [r \in Readers |-> NoReader]
  /\ writer = [w \in Writers |-> NoWriter]
  /\ bornStale = {}
  /\ orphaned = {}
  /\ cacheFaults = 0

-----------------------------------------------------------------------------
\* cacheMiddleware on a miss, and the handler's reading of the database.
Miss(r, k) ==
  /\ reader[r] = NoReader
  /\ cached[k] = Nothing
  /\ reader' = [reader EXCEPT ![r] = [key |-> {k}, version |-> version]]
  /\ UNCHANGED <<version, handled, cached, writer, bornStale, orphaned, cacheFaults>>

\* cacheSet, not awaited: it stores over whatever is there by then.
CacheSet(r) ==
  /\ \E k \in reader[r].key :
       /\ cached' = [cached EXCEPT ![k] = reader[r].version]
       /\ bornStale' = IF reader[r].version < handled THEN bornStale \union {k}
                       ELSE bornStale \ {k}
       /\ orphaned' = orphaned \ {k}
  /\ reader' = [reader EXCEPT ![r] = NoReader]
  /\ UNCHANGED <<version, handled, writer, cacheFaults>>

\* cacheSet swallows a Redis error; the answer may be no 2xx and not be stored.
CacheSetSkipped(r) ==
  /\ reader[r] # NoReader
  /\ reader' = [reader EXCEPT ![r] = NoReader]
  /\ UNCHANGED <<version, handled, cached, writer, bornStale, orphaned, cacheFaults>>

Gone(k) == /\ cached' = [cached EXCEPT ![k] = Nothing]
           /\ bornStale' = bornStale \ {k}
           /\ orphaned' = orphaned \ {k}

\* The entry's TTL runs out.
TTLExpires(k) ==
  /\ cached[k] # Nothing
  /\ Gone(k)
  /\ UNCHANGED <<version, handled, reader, writer, cacheFaults>>

-----------------------------------------------------------------------------
\* The writes that delete no cached response: an administrator's moderation, bulk
\* toggle and bulk deletion, the purge, the CSV import, the registration on chain,
\* the synchronised reputation, verifications, and the writes of reviews,
\* availability and portfolios.
WriteElsewhere ==
  /\ version < MaxVersion
  /\ version' = version + 1
  /\ UNCHANGED <<handled, cached, reader, writer, bornStale, orphaned, cacheFaults>>

\* createWorker, updateWorker, deleteWorker, toggleActivation: the write, ...
WriteWorker(w) ==
  /\ writer[w] = NoWriter
  /\ version < MaxVersion
  /\ version' = version + 1
  /\ handled' = version + 1
  /\ writer' = [writer EXCEPT ![w] = [at |-> "invalidating", todo |-> Matched]]
  /\ UNCHANGED <<cached, reader, bornStale, orphaned, cacheFaults>>

\* A write is over when nothing is left to delete.
Remaining(ks) == IF ks = {} THEN NoWriter ELSE [at |-> "invalidating", todo |-> ks]

\* ... then the deletions, batch by batch and in the order SCAN finds the keys.
Invalidate(w, k) ==
  /\ k \in writer[w].todo
  /\ Gone(k)
  /\ writer' = [writer EXCEPT ![w] = Remaining(writer[w].todo \ {k})]
  /\ UNCHANGED <<version, handled, reader, cacheFaults>>

\* cacheInvalidatePattern logs a Redis error and returns: what it has not
\* deleted stays.
InvalidateFails(w) ==
  /\ writer[w].at = "invalidating"
  /\ CacheFault
  /\ orphaned' = orphaned \union {k \in writer[w].todo : cached[k] # Nothing}
  /\ writer' = [writer EXCEPT ![w] = NoWriter]
  /\ UNCHANGED <<version, handled, cached, reader, bornStale>>

CacheNext ==
  \/ \E r \in Readers : \/ CacheSet(r) \/ CacheSetSkipped(r)
                        \/ \E k \in CacheKeys : Miss(r, k)
  \/ \E k \in CacheKeys : TTLExpires(k)
  \/ WriteElsewhere
  \/ \E w \in Writers : \/ WriteWorker(w) \/ InvalidateFails(w)
                        \/ \E k \in CacheKeys : Invalidate(w, k)

CacheSpec == CacheInit /\ [][CacheNext]_cacheVars

-----------------------------------------------------------------------------
\* The shape of the state.
CacheTypeOK ==
  /\ version \in 0..MaxVersion /\ handled \in 0..MaxVersion
  /\ cached \in [CacheKeys -> 0..Nothing]
  /\ reader \in [Readers -> [key : SUBSET CacheKeys, version : 0..MaxVersion]]
  /\ writer \in [Writers -> [at : {"idle", "invalidating"}, todo : SUBSET CacheKeys]]
  /\ bornStale \subseteq CacheKeys /\ orphaned \subseteq CacheKeys
  /\ cacheFaults \in 0..MaxCacheFaults

\* A cached response that is out of date either misses no write of the four
\* handlers, only such writes as delete nothing, or is about to be deleted, or was
\* behind the last of the four already when it was stored (its GET had read before
\* and answered after the invalidation), or lost its invalidation to a Redis error
\* or a handler that broke off, or is the bare list, which no pattern matches.
\* Except for those about to be deleted, nothing but its TTL ends it.
StaleExplained ==
  \A k \in CacheKeys :
    cached[k] \notin {Nothing, version} =>
      \/ cached[k] >= handled
      \/ \E w \in Writers : k \in writer[w].todo
      \/ k \in bornStale \union orphaned \union BareKeys
=============================================================================
