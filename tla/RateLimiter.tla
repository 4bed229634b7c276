----------------------------- MODULE RateLimiter -----------------------------
(***************************************************************************)
(* The in-memory limiter of internal/admin/ratelimit.go, as a value: the   *)
(* hits it remembers for each key it has an entry for, and the allowed     *)
(* calls since it last swept the map.  A mutex makes Allow one step.       *)
(* The slice of a key is filtered and counted, its order is not looked at: *)
(* it is the set of its hits, each with its place among those of its time. *)
(***************************************************************************)
EXTENDS Naturals, FiniteSets

CONSTANTS
    Window,       \* length of the window
    SweepEvery    \* allowed calls between two sweeps

ASSUME LimiterAssumption == Window \in Nat \ {0} /\ SweepEvery \in Nat \ {0}

Hit(T) == [at : T, nth : Nat]

NewMemoryRateLimiter == [hits |-> [k \in {} |-> {}], sweepCount |-> 0]

IsLimiter(l, K, T) ==
    /\ DOMAIN l.hits \subseteq K
    /\ l.hits \in [DOMAIN l.hits -> SUBSET Hit(T)]
    /\ l.sweepCount \in 0..(SweepEvery - 1)

(* t.After(cutoff), the cutoff being a window ago. *)
InWindow(h, now) == h.at + Window > now

Kept(hits, now) == {h \in hits : InWindow(h, now)}

HitsOf(l, key) == IF key \in DOMAIN l.hits THEN l.hits[key] ELSE {}

Record(hits, key, kept) ==
    [k \in DOMAIN hits \cup {key} |-> IF k = key THEN kept ELSE hits[k]]

(* append(kept, now) *)
Appended(kept, now) ==
    kept \cup {[at |-> now, nth |-> Cardinality({h \in kept : h.at = now})]}

SweepExpired(hits, now) ==
    [k \in {d \in DOMAIN hits : \E h \in hits[d] : InWindow(h, now)} |-> hits[k]]

(* Faulty variant: one hit too many. *)
AllowsOneMore(l, key, limit, now) == Cardinality(Kept(HitsOf(l, key), now)) <= limit

Allows(l, key, limit, now) == Cardinality(Kept(HitsOf(l, key), now)) < limit

SweepDue(count) == count >= SweepEvery

(* The limiter after Allow(key). *)
AfterAllow(l, key, limit, now) ==
    LET kept == Kept(HitsOf(l, key), now)
        counted == Record(l.hits, key, Appended(kept, now))
    IN IF ~Allows(l, key, limit, now)
       THEN [l EXCEPT !.hits = Record(l.hits, key, kept)]
       ELSE IF SweepDue(l.sweepCount + 1)
       THEN [hits |-> SweepExpired(counted, now), sweepCount |-> 0]
       ELSE [hits |-> counted, sweepCount |-> l.sweepCount + 1]

=============================================================================
