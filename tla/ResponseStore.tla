--------------------------- MODULE ResponseStore ---------------------------
(***************************************************************************)
(* Conversations kept for previous_response_id (src/response-store.js): one *)
(* table for all callers, in the order of use, bounded by a number of       *)
(* entries and by bytes, with a ledger for each tenant that is kept in step *)
(* with the table by hand.                                                 *)
(*                                                                         *)
(* What an entry holds is its size.  It is expired (idle for too long, or   *)
(* too old) when the environment says so.  A put whose preparation fails    *)
(* (the copy, the limits of one entry) changes nothing, and is left out; so *)
(* is the put of an id the store has already: the one caller makes a new id *)
(* for each response, here the least number that is free.                   *)
(***************************************************************************)
EXTENDS Listing, FiniteSets

CONSTANTS Owners,           \* tenants, by API key
          Sizes,            \* sizes of entries that are admitted
          StoreMax,         \* RESPONSE_STORE_MAX
          StoreMaxBytes,    \* RESPONSE_STORE_MAX_BYTES
          MinTenantBytes,   \* the floor of a tenant's share
          MaxExpired        \* bound: entries that are expired at a time

\* No entry is admitted that is larger than the whole store may be.
ASSUME StoreAssumption ==
    /\ IsFiniteSet(Owners) /\ MinTenantBytes \in Nat
    /\ StoreMax \in Nat \ {0} /\ StoreMaxBytes \in Nat /\ Sizes \subseteq 0 .. StoreMaxBytes

VARIABLE store    \* entries: _entries; bytes: _bytes;
                  \* counts, bytesOf: _tenantCounts, _tenantBytes (0: no key)

Ids      == 1 .. StoreMax + 1
NoId     == 0
Response == [id : Ids, tenant : Owners, bytes : Sizes, expired : BOOLEAN]

StoreInit ==
    store = [entries |-> <<>>, bytes |-> 0,
             counts |-> [t \in Owners |-> 0], bytesOf |-> [t \in Owners |-> 0]]

Entries  == store.entries
Known(s) == {e.id : e \in AllOf(s.entries)}
EntryOf(s, id) == CHOOSE e \in AllOf(s.entries) : e.id = id
AllBut(s, id)  == OnlyOf(s.entries, {e \in Response : e.id # id})
Above0(n) == IF n > 0 THEN n ELSE 0

Keepers(s) == {t \in Owners : s.counts[t] > 0}

-----------------------------------------------------------------------------
\* Mistake: the tenant's bytes are not given back.
DroppedCountOnly(s, id) ==
    LET e == EntryOf(s, id) IN
    IF id \notin Known(s) THEN s ELSE
    [entries |-> AllBut(s, id),
     bytes   |-> Above0(s.bytes - e.bytes),
     counts  |-> [s.counts EXCEPT ![e.tenant] = @ - 1],
     bytesOf |-> s.bytesOf]

\* dropEntry
Dropped(s, id) ==
    LET e == EntryOf(s, id)
        n == s.counts[e.tenant] - 1
    IN
    IF id \notin Known(s) THEN s ELSE
    [entries |-> AllBut(s, id),
     bytes   |-> Above0(s.bytes - e.bytes),
     counts  |-> [s.counts EXCEPT ![e.tenant] = n],
     bytesOf |-> [s.bytesOf EXCEPT ![e.tenant] =
                    IF n > 0 THEN Above0(@ - e.bytes) ELSE 0]]

\* trackInsert, and the entry with it.
Inserted(s, e) ==
    [entries |-> Append(s.entries, e),
     bytes   |-> s.bytes + e.bytes,
     counts  |-> [s.counts EXCEPT ![e.tenant] = @ + 1],
     bytesOf |-> [s.bytesOf EXCEPT ![e.tenant] = @ + e.bytes]]

\* oldestId, of the tenants in T, and not the one that is protected.
Candidates(s, T, id) == OnlyOf(s.entries, {e \in Response : e.tenant \in T /\ e.id # id})
OldestId(s, T, id) == Candidates(s, T, id)[1].id

\* The entry that makes room for a new one, by number.
CountVictim(s, t) ==
    LET keepers == Cardinality(Keepers(s))
        share   == IF StoreMax \div keepers > 1 THEN StoreMax \div keepers ELSE 1
    IN  OldestId(s, IF s.counts[t] >= share THEN {t} ELSE Owners, NoId)

OverShare(s, t) ==
    s.bytesOf[t] > MinTenantBytes /\ s.bytesOf[t] * Cardinality(Keepers(s)) > StoreMaxBytes

\* enforceByteBudget for the entry id, just written by tenant t: an entry at a
\* time goes, as long as there are more bytes than may be.
ByteVictim(s, id, t) ==
    OldestId(s, IF OverShare(s, t) /\ Candidates(s, {t}, id) # <<>> THEN {t} ELSE Owners, id)

Relieved(s, id, t) ==
    IF s.bytes > StoreMaxBytes /\ Len(s.entries) > 1 THEN Dropped(s, ByteVictim(s, id, t)) ELSE s

Budgeted(s, id, t) ==
    LET left[i \in 0 .. Len(s.entries)] == IF i = 0 THEN s ELSE Relieved(left[i - 1], id, t)
    IN  left[Len(s.entries)]

\* The count victim goes, the entry comes, and then the bytes.
Stored(s, e) ==
    LET room == IF Len(s.entries) >= StoreMax THEN Dropped(s, CountVictim(s, e.tenant)) ELSE s
    IN  Budgeted(Inserted(room, e), e.id, e.tenant)

-----------------------------------------------------------------------------
\* putResponse
FreshId == CHOOSE id \in Ids \ Known(store) : \A j \in Ids \ Known(store) : id <= j

Put(t, n) ==
    store' = Stored(store, [id |-> FreshId, tenant |-> t, bytes |-> n, expired |-> FALSE])

\* getResponse by tenant t: another one's entry is left alone, dead or not.
Get(t, id) ==
    /\ id \in Known(store) /\ EntryOf(store, id).tenant = t
    /\ IF EntryOf(store, id).expired THEN store' = Dropped(store, id)
       ELSE store' = [store EXCEPT !.entries = Append(AllBut(store, id), EntryOf(store, id))]

\* deleteResponse
Delete(t, id) ==
    /\ id \in Known(store) /\ EntryOf(store, id).tenant = t
    /\ store' = Dropped(store, id)

\* The sweep, every five minutes.
Swept(s) ==
    LET left[i \in 0 .. Len(s.entries)] ==
          IF i = 0 THEN s
          ELSE IF s.entries[i].expired THEN Dropped(left[i - 1], s.entries[i].id) ELSE left[i - 1]
    IN  left[Len(s.entries)]

StoreSweep == store' = Swept(store)

Expires(i) ==
    /\ Cardinality({j \in DOMAIN Entries : Entries[j].expired}) < MaxExpired
    /\ ~Entries[i].expired
    /\ store' = [store EXCEPT !.entries[i].expired = TRUE]

StoreNext ==
    \/ \E t \in Owners, n \in Sizes : Put(t, n)
    \/ \E t \in Owners, id \in Ids : Get(t, id) \/ Delete(t, id)
    \/ \E i \in DOMAIN Entries : Expires(i)
    \/ StoreSweep

StoreSpec == StoreInit /\ [][StoreNext]_store

-----------------------------------------------------------------------------
\* The ledger is what the table says, after any order of writes, reads,
\* expiries and evictions, and both limits hold (response-store.js: the clamps
\* at 0 would hide a drift).
OfTenants(s, T) == OnlyOf(s, {e \in Response : e.tenant \in T})
BytesIn(s)      == Total(s, [e \in Response |-> e.bytes])

LedgerExact ==
    /\ store.bytes = BytesIn(Entries) /\ store.bytes <= StoreMaxBytes
    /\ Len(Entries) <= StoreMax
    /\ \A t \in Owners :
          /\ store.bytesOf[t] = BytesIn(OfTenants(Entries, {t}))
          /\ store.counts[t] = Len(OfTenants(Entries, {t}))

\* A writer that is over its share of the bytes pays itself: where the limit of
\* entries was not met, a put takes an entry of another tenant only if it leaves
\* the writer within its share, or with nothing but what it wrote
\* (response-store.js: one 5MB write must not flush every other tenant).
Lost(T) == {id \in Known(store) : EntryOf(store, id).tenant \in T /\ id \notin Known(store')}
WriterPays ==
    [][ \A t \in Owners, id \in Ids :
          ( /\ Len(Entries) < StoreMax
            /\ id \notin Known(store) /\ id \in Known(store')
            /\ EntryOf(store', id).tenant = t /\ Lost(Owners \ {t}) # {} )
          => ~OverShare(store', t) \/ store'.counts[t] = 1 ]_store
=============================================================================
