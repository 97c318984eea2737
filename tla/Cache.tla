-------------------------------- MODULE Cache --------------------------------
(* The worker's document cache, internal/tui/cache.go: the documents of one *)
(* session in order of use, charged against a budget.                       *)
(*                                                                          *)
(* put evicts one entry at a time, so it is a loop here too: the invariants *)
(* hold between its steps. Nothing else runs meanwhile, because only the    *)
(* worker's goroutine touches the cache.                                    *)
EXTENDS Naturals, Sequences, SequencesExt

CONSTANTS
    Session,      \* the sessions documents belong to
    Nil,          \* a nil *session
    Node,
    Charge,       \* a document's charge, entryOverhead included
    Budget

ASSUME CacheAssumption ==
    /\ Nil \notin Session
    /\ Budget \in Nat
    /\ Charge \in [Node -> Nat \ {0}]

VARIABLES
    owner,
    entries,      \* the map: node -> the session whose document it holds
    recent,       \* c.order: the nodes, most recently used first
    used,
    putting,      \* the node put is inserting, << >> when put is not running
    uses          \* nodes of the owner by last use (history)

cacheVars == <<owner, entries, recent, used, putting, uses>>

Idle == putting = << >>
ToFront(s, n) == <<n>> \o RemoveFirst(s, n)

CacheInit ==
    /\ owner = Nil
    /\ entries = << >>
    /\ recent = << >>
    /\ used = 0
    /\ putting = << >>
    /\ uses = << >>

(* Empties the cache and binds it to a session.                             *)
Emptied(s) ==
    /\ owner' = s
    /\ entries' = << >>
    /\ recent' = << >>
    /\ used' = 0
    /\ uses' = << >>

(* reset(nil), before every load and when the width method changes.         *)
Reset ==
    /\ Idle
    /\ Emptied(Nil)
    /\ UNCHANGED putting

(* Fault: a hit leaves the entry where it was.                              *)
HitInPlace(s, n) ==
    /\ Idle
    /\ s = owner
    /\ n \in DOMAIN entries
    /\ uses' = ToFront(uses, n)
    /\ UNCHANGED <<owner, entries, recent, used, putting>>

(* get: a hit moves the entry to the front; a miss changes nothing.         *)
Hit(s, n) ==
    /\ Idle
    /\ s = owner
    /\ n \in DOMAIN entries
    /\ recent' = ToFront(recent, n)
    /\ uses' = ToFront(uses, n)
    /\ UNCHANGED <<owner, entries, used, putting>>

(* Fault: another session's document is put without emptying the cache.     *)
PutForeign(s, n) ==
    /\ Idle
    /\ n \notin DOMAIN entries
    /\ Charge[n] <= Budget
    /\ putting' = <<n>>
    /\ owner' = s
    /\ UNCHANGED <<entries, recent, used, uses>>

(* put, up to its loop. A document already cached, or larger than the whole *)
(* budget, is not kept, but one of another session empties the cache first. *)
Put(s, n) ==
    /\ Idle
    /\ s = owner => n \notin DOMAIN entries
    /\ putting' = (IF Charge[n] <= Budget THEN <<n>> ELSE << >>)
    /\ IF s = owner
       THEN UNCHANGED <<owner, entries, recent, used, uses>>
       ELSE Emptied(s)


(* The loop removes the least recently used entry while the document does   *)
(* not fit ...                                                              *)
Evict ==
    /\ ~Idle
    /\ used + Charge[Head(putting)] > Budget
    /\ recent # << >>
    /\ LET oldest == Last(recent)
       IN /\ entries' = [n \in DOMAIN entries \ {oldest} |-> entries[n]]
          /\ used' = used - Charge[oldest]
    /\ recent' = Front(recent)
    /\ UNCHANGED <<owner, putting, uses>>

(* ... and then the document goes to the front.                             *)
Insert ==
    /\ ~Idle
    /\ LET n == Head(putting)
       IN /\ used + Charge[n] <= Budget
          /\ entries' = [m \in DOMAIN entries \cup {n} |-> IF m = n THEN owner ELSE entries[m]]
          /\ recent' = <<n>> \o recent
          /\ used' = used + Charge[n]
          /\ uses' = ToFront(uses, n)
    /\ putting' = << >>
    /\ UNCHANGED owner

CacheNext ==
    \/ Reset
    \/ \E s \in Session, n \in Node : Hit(s, n) \/ Put(s, n)
    \/ Evict
    \/ Insert

CacheSpec == CacheInit /\ [][CacheNext]_cacheVars

----------------------------------------------------------------------------
Total(nodes) ==
    LET sum[k \in 0 .. Len(nodes)] == IF k = 0 THEN 0 ELSE sum[k-1] + Charge[nodes[k]]
    IN sum[Len(nodes)]

TypeOK ==
    /\ owner \in Session \cup {Nil}
    /\ DOMAIN entries \subseteq Node
    /\ recent \in Seq(Node)
    /\ used \in 0 .. Budget
    /\ putting \in {<< >>} \cup {<<n>> : n \in Node}

(* The map and the list hold the same nodes, each once, so evicting the     *)
(* list's last element always removes a live entry.                         *)
MapAgreesWithList ==
    /\ ToSet(recent) = DOMAIN entries
    /\ IsInjective(recent)

(* used is the charge of what is held, so the eviction loop always finds an *)
(* entry to remove until the document fits: put never gets stuck.           *)
UsedIsTheCharge ==
    /\ used = Total(recent)
    /\ ~Idle /\ recent = << >> => used + Charge[Head(putting)] <= Budget

(* Every document held is its owner's: "entries of an earlier load can      *)
(* never answer for a later one".                                           *)
HeldForOwner == \A n \in DOMAIN entries : entries[n] = owner

(* The parts of the cache agree at every step of put's loop, and it answers *)
(* for one load.                                                            *)
Consistent == TypeOK /\ MapAgreesWithList /\ UsedIsTheCharge /\ HeldForOwner

(* The most recently used documents stay for as long as they fit together:  *)
(* a compared pair within the budget is still there for the next request.   *)
RecentStay ==
    Idle => \A k \in 1 .. Len(uses) :
        Total(SubSeq(uses, 1, k)) <= Budget => uses[k] \in DOMAIN entries
=============================================================================
