------------------------------ MODULE PageCache ------------------------------
(***************************************************************************)
(* LibVMI's page cache (driver/memory_cache.c, built with                  *)
(* ENABLE_PAGE_CACHE): a hash table from page addresses to pages obtained  *)
(* from the driver, and a queue of the same addresses, most recently       *)
(* fetched first, that decides what is evicted.  A cache is a record       *)
(*   lru   the queue memory_cache_lru                                      *)
(*   ent   the table memory_cache, a function on the pages it holds        *)
(* and an entry is whatever the driver returned for the page, stamped with *)
(* the time it was fetched (last_updated).                                 *)
(***************************************************************************)
EXTENDS Naturals, Sequences

EmptyCache == [lru |-> <<>>, ent |-> [p \in {} |-> <<>>]]

PushHead(s, p) == [j \in 1..(Len(s) + 1) |-> IF j = 1 THEN p ELSE s[j - 1]]

Unlink(s, i) == [j \in 1..(Len(s) - 1) |-> IF j < i THEN s[j] ELSE s[j + 1]]

\* Mutant: the addresses are popped and the pages stay.
clean_cache_KeepsPages(c, max) ==
    LET keep == IF Len(c.lru) > max \div 2 THEN max \div 2 ELSE Len(c.lru)
    IN  [lru |-> SubSeq(c.lru, 1, keep), ent |-> c.ent]

\* Entries leave the table with their addresses: the tail of the queue goes
\* until half of the capacity is left.
clean_cache(c, max) ==
    LET keep == IF Len(c.lru) > max \div 2 THEN max \div 2 ELSE Len(c.lru)
        kept == SubSeq(c.lru, 1, keep)
        out  == {c.lru[i] : i \in (keep + 1)..Len(c.lru)}
    IN  [lru |-> kept, ent |-> [q \in DOMAIN c.ent \ out |-> c.ent[q]]]

\* Mutant: the age limit is ignored.
Expired_Never(e, now, age) == FALSE

\* An entry older than the age limit is fetched again and its address moved
\* to the head; a younger one is used as it is, its place unchanged.
Expired(e, now, age) == age # 0 /\ now - e.at > age

validate_and_return_data(c, p, fresh, now, age) ==
    IF Expired(c.ent[p], now, age)
    THEN LET i == CHOOSE j \in 1..Len(c.lru) : c.lru[j] = p
         IN  [lru |-> PushHead(Unlink(c.lru, i), p), ent |-> [c.ent EXCEPT ![p] = fresh]]
    ELSE c

\* create_new_entry refuses a page outside the guest's memory (inside is
\* false); what the driver answers, a failure included, is cached.
create_new_entry(c, p, fresh, inside) ==
    IF inside
    THEN [lru |-> PushHead(c.lru, p),
          ent |-> [q \in DOMAIN c.ent \cup {p} |-> IF q = p THEN fresh ELSE c.ent[q]]]
    ELSE c

\* The cache after a request for page p; fresh is what the driver would
\* return for it now.
memory_cache_insert(c, p, fresh, now, age, max, inside) ==
    IF p \in DOMAIN c.ent
    THEN validate_and_return_data(c, p, fresh, now, age)
    ELSE create_new_entry(IF Len(c.lru) >= max THEN clean_cache(c, max) ELSE c, p, fresh, inside)

\* memory_cache_remove looks the page up under the address of its own
\* parameter, which no entry is stored under: nothing is removed.
memory_cache_remove(c, p) == c

memory_cache_flush(c) == EmptyCache

\* The queue lists every page of the table exactly once, and no more pages
\* than the cache may hold are in it.
Agree(c, max) ==
    /\ Len(c.lru) <= max
    /\ DOMAIN c.ent = {c.lru[i] : i \in 1..Len(c.lru)}
    /\ \A i, j \in 1..Len(c.lru) : i # j => c.lru[i] # c.lru[j]
=============================================================================
