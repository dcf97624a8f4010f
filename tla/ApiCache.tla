------------------------------ MODULE ApiCache ------------------------------
(***************************************************************************)
(* The aggregate cache of api/cache.py and the request path in front of it *)
(* (cached_aggregate in api/app.py), in one API process.                   *)
(*                                                                         *)
(* The cache's methods hold its lock, so each is one action. A request     *)
(* calls get, then queries PostgreSQL without the lock, then calls set:    *)
(* other requests, time and loads of the database come in between.         *)
(*                                                                         *)
(* A key stands for a namespace and a validated query. A payload is the    *)
(* version of the serving tables it was computed from, and its size.       *)
(***************************************************************************)
EXTENDS Integers, SequencesExt, FiniteSetsExt

CONSTANTS
  Keys,           \* namespace and query of an aggregate request
  NoKey,          \* the key of a thread without a request
  Workers,        \* threads that serve requests
  MaxEntries, MaxEntryBytes, MaxTotalBytes,  \* the bounds of BoundedTTLCache
  TTL,            \* cache_ttl_seconds
  Size,           \* Size[k][v]: bytes of the payload for k at version v
  MaxVersion,     \* bound: loads that commit
  MaxTime,        \* bound: seconds on the clock
  MaxRequests,    \* bound: requests received
  MaxFaults       \* bound: cache calls and queries that fail

Versions  == 0..MaxVersion
NoVersion == -1

\* The constructors of the cache and of the application refuse anything else.
ASSUME CacheAssumption ==
  /\ NoKey \notin Keys
  /\ MaxEntries \in Nat \ {0}
  /\ MaxEntryBytes \in Nat \ {0}
  /\ MaxTotalBytes \in Nat
  /\ MaxEntryBytes <= MaxTotalBytes
  /\ TTL \in Nat \ {0}
  /\ Size \in [Keys -> [Versions -> Nat]]
  /\ MaxVersion \in Nat
  /\ MaxTime \in Nat
  /\ MaxRequests \in Nat
  /\ MaxFaults \in Nat

VARIABLES
  order,     \* the cached keys, the least recently used first
  entries,   \* the cached payload of each of them and when it expires
  total,     \* the cache's own byte count
  stats,     \* the counters of CacheSnapshot
  work,      \* work[w]: the request thread w serves
  requests,  \* requests received so far
  faults,    \* faults that have happened so far
  now,       \* the monotonic clock
  version,   \* the version of the serving tables
  ended,     \* history: ended[v] is when version v was superseded
  log        \* history: what the cache was used for

cache == <<order, entries, total>>
vars  == <<order, entries, total, stats, work, requests, faults, now, version, ended, log>>

Entry == [version : Versions, expires : Nat]

Counters == {"hits", "misses", "expirations", "evictions", "rejected"}

\* began: when the request came in; version: what it has read or answered.
Work == [phase : {"ready", "lookup", "load", "loaded"}, key : Keys \union {NoKey},
         bypass : BOOLEAN, began : Nat, version : Versions \union {NoVersion}]

\* uses: all keys in the order of their last hit or store; slowest: the longest
\* time from a request to its store.
Log == [uses : Seq(Keys), slowest : Nat, lookups : Nat, stored : Nat, replaced : Nat]

Ready(v) == [phase |-> "ready", key |-> NoKey, bypass |-> FALSE, began |-> 0,
             version |-> v]

Init ==
  /\ order = <<>>
  /\ entries = [k \in {} |-> 0]
  /\ total = 0
  /\ stats = [c \in Counters |-> 0]
  /\ work = [w \in Workers |-> Ready(NoVersion)]
  /\ requests = 0
  /\ faults = 0
  /\ now = 0
  /\ version = 0
  /\ ended = [v \in Versions |-> 0]
  /\ log = [uses |-> <<>>, slowest |-> 0, lookups |-> 0, stored |-> 0, replaced |-> 0]

-----------------------------------------------------------------------------
Cached == DOMAIN entries

\* Mutant: an entry is still served in the second it expires.
ExpiredLate(k) == entries[k].expires < now

Expired(k) == entries[k].expires <= now

BytesIn(table, S) == MapThenSumSet(LAMBDA k : Size[k][table[k].version], S)
BytesOf(S)        == BytesIn(entries, S)

At(w, phase)   == work[w].phase = phase
Key(w)         == work[w].key
Goto(w, phase) == work' = [work EXCEPT ![w].phase = phase]
Reply(w, v)    == work' = [work EXCEPT ![w] = Ready(v)]

Fault == faults < MaxFaults /\ faults' = faults + 1

MoveToEnd(s, k) == Append(RemoveFirst(s, k), k)
Larger(a, b)    == IF a < b THEN b ELSE a

\* Mutant: a key that is used keeps its place.
TouchedInPlace(k) == order

Touched(k) == MoveToEnd(order, k)

Without(k) == [x \in Cached \ {k} |-> entries[x]]

-----------------------------------------------------------------------------
\* A request arrives; no-cache and no-store skip the cache.
Request(w, k, bypass) ==
  /\ At(w, "ready")
  /\ requests < MaxRequests
  /\ requests' = requests + 1
  /\ work' = [work EXCEPT ![w] =
       [phase |-> IF bypass THEN "load" ELSE "lookup", key |-> k, bypass |-> bypass,
        began |-> now, version |-> NoVersion]]
  /\ UNCHANGED <<cache, stats, faults, now, version, ended, log>>

\* get finds an entry that has not expired: it becomes the most recent one.
Hit(w) ==
  /\ At(w, "lookup")
  /\ Key(w) \in Cached
  /\ ~ Expired(Key(w))
  /\ order' = Touched(Key(w))
  /\ stats' = [stats EXCEPT !["hits"] = @ + 1]
  /\ log' = [log EXCEPT !.uses = MoveToEnd(@, Key(w)), !.lookups = @ + 1]
  /\ Reply(w, entries[Key(w)].version)
  /\ UNCHANGED <<entries, total, requests, faults, now, version, ended>>

\* get finds an entry that has expired and removes it.
Expire(w) ==
  /\ At(w, "lookup")
  /\ Key(w) \in Cached
  /\ Expired(Key(w))
  /\ order' = RemoveFirst(order, Key(w))
  /\ entries' = Without(Key(w))
  /\ total' = total - BytesOf({Key(w)})
  /\ stats' = [stats EXCEPT !["expirations"] = @ + 1, !["misses"] = @ + 1]
  /\ log' = [log EXCEPT !.lookups = @ + 1]
  /\ Goto(w, "load")
  /\ UNCHANGED <<requests, faults, now, version, ended>>

Miss(w) ==
  /\ At(w, "lookup")
  /\ Key(w) \notin Cached
  /\ stats' = [stats EXCEPT !["misses"] = @ + 1]
  /\ log' = [log EXCEPT !.lookups = @ + 1]
  /\ Goto(w, "load")
  /\ UNCHANGED <<cache, requests, faults, now, version, ended>>

\* The backend can be replaced by one that fails: the request falls back to the
\* database.
ReadFails(w) ==
  /\ At(w, "lookup")
  /\ Fault
  /\ Goto(w, "load")
  /\ UNCHANGED <<cache, stats, requests, now, version, ended, log>>

\* loader(): one SQL statement, and so one snapshot of the tables.
Query(w) ==
  /\ At(w, "load")
  /\ work' = [work EXCEPT ![w].phase = "loaded", ![w].version = version]
  /\ UNCHANGED <<cache, stats, requests, faults, now, version, ended, log>>

\* Mutant: the error is cached.
QueryFailsCached(w) ==
  /\ At(w, "load")
  /\ Fault
  /\ order' = MoveToEnd(order, Key(w))
  /\ entries' = [k \in Cached \union {Key(w)} |->
       IF k = Key(w) THEN [version |-> NoVersion, expires |-> now + TTL] ELSE entries[k]]
  /\ Reply(w, NoVersion)
  /\ UNCHANGED <<total, stats, requests, now, version, ended, log>>

\* A query that fails or times out is answered with an error and not cached.
QueryFails(w) ==
  /\ At(w, "load")
  /\ Fault
  /\ Reply(w, NoVersion)
  /\ UNCHANGED <<cache, stats, requests, now, version, ended, log>>

-----------------------------------------------------------------------------
Fits(w) == Size[Key(w)][work[w].version] <= MaxEntryBytes

\* A request that bypassed the cache, or whose set fails, only answers.
AnswerUncached(w) ==
  /\ At(w, "loaded")
  /\ work[w].bypass
  /\ Reply(w, work[w].version)
  /\ UNCHANGED <<cache, stats, requests, faults, now, version, ended, log>>

WriteFails(w) ==
  /\ At(w, "loaded")
  /\ ~ work[w].bypass
  /\ Fault
  /\ Reply(w, work[w].version)
  /\ UNCHANGED <<cache, stats, requests, now, version, ended, log>>

\* set refuses a payload over the bound and leaves an older one where it is.
Reject(w) ==
  /\ At(w, "loaded")
  /\ ~ work[w].bypass
  /\ ~ Fits(w)
  /\ stats' = [stats EXCEPT !["rejected"] = @ + 1]
  /\ Reply(w, work[w].version)
  /\ UNCHANGED <<cache, requests, faults, now, version, ended, log>>

\* Mutant: the loop makes room for one entry more than is stored.
HasRoomForTwo(s, used, size, n) ==
  \/ n = Len(s)
  \/ /\ Len(s) - n + 1 < MaxEntries
     /\ used - BytesOf(ToSet(SubSeq(s, 1, n))) + size <= MaxTotalBytes

\* The eviction loop stops when nothing is left of s or the payload has room
\* beside what is left; used is the byte count when it begins.
HasRoom(s, used, size, n) ==
  \/ n = Len(s)
  \/ /\ Len(s) - n < MaxEntries
     /\ used - BytesOf(ToSet(SubSeq(s, 1, n))) + size <= MaxTotalBytes

Evictions(s, used, size) ==
  {n \in 0..Len(s) : /\ HasRoom(s, used, size, n)
                     /\ \A m \in 0..(n - 1) : ~ HasRoom(s, used, size, m)}

\* set removes what was there under the key, evicts from the old end until the
\* new payload fits, and puts it at the other end.
Store(w) ==
  LET k    == Key(w)
      size == Size[k][work[w].version]
      old  == {k} \intersect Cached
      rest == RemoveFirst(order, k)
      used == total - BytesOf(old)
  IN
  /\ At(w, "loaded")
  /\ ~ work[w].bypass
  /\ Fits(w)
  /\ \E n \in Evictions(rest, used, size) :
       LET left == SubSeq(rest, n + 1, Len(rest)) IN
       /\ order' = Append(left, k)
       /\ entries' = [x \in ToSet(left) \union {k} |->
            IF x = k THEN [version |-> work[w].version, expires |-> now + TTL]
                     ELSE entries[x]]
       /\ total' = used - BytesOf(ToSet(SubSeq(rest, 1, n))) + size
       /\ stats' = [stats EXCEPT !["evictions"] = @ + n]
  /\ log' = [uses     |-> MoveToEnd(log.uses, k),
             slowest  |-> Larger(log.slowest, now - work[w].began),
             lookups  |-> log.lookups,
             stored   |-> log.stored + 1,
             replaced |-> log.replaced + Cardinality(old)]
  /\ Reply(w, work[w].version)
  /\ UNCHANGED <<requests, faults, now, version, ended>>

-----------------------------------------------------------------------------
\* The environment: the clock, and loads that commit to the serving tables.
Tick ==
  /\ now < MaxTime
  /\ now' = now + 1
  /\ UNCHANGED <<cache, stats, work, requests, faults, version, ended, log>>

LoadCommits ==
  /\ version < MaxVersion
  /\ version' = version + 1
  /\ ended' = [ended EXCEPT ![version] = now]
  /\ UNCHANGED <<cache, stats, work, requests, faults, now, log>>

Get(w) == Hit(w) \/ Expire(w) \/ Miss(w) \/ ReadFails(w)

Finish(w) == AnswerUncached(w) \/ WriteFails(w) \/ Reject(w) \/ Store(w)

Next ==
  \/ \E w \in Workers :
       \/ \E k \in Keys, bypass \in BOOLEAN : Request(w, k, bypass)
       \/ Get(w) \/ Query(w) \/ QueryFails(w) \/ Finish(w)
  \/ Tick
  \/ LoadCommits

Spec == Init /\ [][Next]_vars

-----------------------------------------------------------------------------
(* Properties.                                                             *)

\* Every variable has the shape the code gives it. (The byte count is below.)
TypeOK ==
  /\ order \in Seq(Keys)
  /\ Cached \subseteq Keys
  /\ \A k \in Cached : entries[k] \in Entry
  /\ stats \in [Counters -> Nat]
  /\ work \in [Workers -> Work]
  /\ requests \in 0..MaxRequests
  /\ faults \in 0..MaxFaults
  /\ now \in 0..MaxTime
  /\ version \in Versions
  /\ ended \in [Versions -> 0..MaxTime]
  /\ log \in Log

\* The order lists each cached key once, and no more keys than are allowed.
Listed ==
  /\ IsInjective(order)
  /\ ToSet(order) = Cached
  /\ Len(order) <= MaxEntries

\* The byte count is the size of what is cached, and the three bounds hold.
Bounded ==
  /\ Listed
  /\ total = BytesOf(Cached)
  /\ total <= MaxTotalBytes
  /\ \A k \in Cached : BytesOf({k}) <= MaxEntryBytes

Precedes(s, x, y) ==
  \E i, j \in DOMAIN s : i < j /\ s[i] = x /\ s[j] = y

\* The eviction order is the order of last use.
OrderIsRecency ==
  /\ Cached \subseteq ToSet(log.uses)
  /\ \A x, y \in Cached : Precedes(order, x, y) => Precedes(log.uses, x, y)

\* The counters account for every lookup and for every payload ever stored.
CountersReconcile ==
  /\ stats["hits"] + stats["misses"] = log.lookups
  /\ log.stored = Cardinality(Cached) + stats["evictions"] + stats["expirations"]
                    + log.replaced

\* Entries, byte total, recency order and counters are kept apart and still tell
\* the same story, through any sequence of hits, stores, replacements, expiries,
\* evictions and refusals (api/cache.py:75-111).
BooksAgree == Bounded /\ OrderIsRecency /\ CountersReconcile

\* The tables were at version v at time t or later.
CurrentSince(v, t) == v = version \/ ended[v] >= t

Answers(w) ==
  /\ ~ At(w, "ready")
  /\ work'[w].phase = "ready"
  /\ work'[w].version # NoVersion

\* An answer the cache gave was the truth less than the TTL and the slowest
\* request so far ago, although a slow request can store an old result over a
\* newer one. Any other answer, and every answer to a request that bypasses the
\* cache, was the truth while the request was served.
AnswersAreRecent ==
  [][\A w \in Workers : Answers(w) =>
       CurrentSince(work'[w].version,
                    IF At(w, "lookup") /\ ~ work[w].bypass
                      THEN now + 1 - TTL - log.slowest ELSE work[w].began)]_vars

\* Keys of the cache that were used after k.
UsedAfter(k) == {x \in Cached : Precedes(order, k, x)}

\* A table, and the one before it where the table has nothing.
Overlaid(table, before) ==
  [x \in DOMAIN table \union DOMAIN before |->
     IF x \in DOMAIN table THEN table[x] ELSE before[x]]

\* A payload leaves the cache because it expired, or because it and all that was
\* used after it had no room together with the payload that is stored; and what
\* stays was used after it.
EvictsForRoom ==
  [][\A k \in Cached \ DOMAIN entries' :
       IF log'.stored = log.stored THEN entries[k].expires <= now
       ELSE LET stored == Last(order')
                wanted == {k, stored} \union UsedAfter(k)
            IN /\ \/ Cardinality(wanted) > MaxEntries
                  \/ BytesIn(Overlaid(entries', entries), wanted) > MaxTotalBytes
               /\ DOMAIN entries' \subseteq UsedAfter(k) \union {stored}]_vars
=============================================================================
