---------------------------- MODULE DsegExchange ----------------------------
(***************************************************************************)
(* The full-list request of prosperitynodeman.cpp between syncing nodes   *)
(* (askers) and one peer that serves the list.  An asker's LIST stage     *)
(* calls DsegUpdate, which sends "obseg" with an empty vin unless its own *)
(* mWeAskedForProsperitynodeList says the peer was asked less than        *)
(* PROSPERITYNODES_DSEG_SECONDS ago.  The peer's obseg handler serves the *)
(* list once per DSEG seconds and address (mAskedUsForProsperitynodeList) *)
(* and scores an address that asks again earlier with Misbehaving(34).    *)
(* Both maps are kept in mncache.dat and pruned by CheckAndRemove.  Every *)
(* node reads one clock; a request reaches the peer after any delay.      *)
(***************************************************************************)
EXTENDS Integers, FiniteSets

CONSTANTS
    Askers,       \* syncing nodes that connect to the peer
    AddrOf,       \* AddrOf[a]: the address the peer sees for asker a (askers
                  \* behind one NAT share it)
    Dseg,         \* PROSPERITYNODES_DSEG_SECONDS, in clock units
    BanHits,      \* Misbehaving(34) calls that reach the ban score of 100
    MaxTime,      \* bound on the clock
    MaxRestarts,  \* bound on asker restarts
    None          \* no entry in a map

Addrs == {AddrOf[a] : a \in Askers}
Times == 0..(MaxTime + Dseg)

VARIABLES
    now,        \* GetTime()
    weAsked,    \* weAsked[a]: the asker's mWeAskedForProsperitynodeList entry
                \* for the peer (the time it may ask again), or None
    askedUs,    \* askedUs[x]: the peer's mAskedUsForProsperitynodeList entry
                \* for address x (the time it serves x again), or None
    msgs,       \* obseg requests in flight: [from, sent, and as history: prev]
    scored,     \* scored[a]: Misbehaving(34) calls on a's connection
    lastSent,   \* history: when a last sent obseg, or None
    forgot,     \* history: a lost mncache.dat since it last sent obseg
    restarts

vars == <<now, weAsked, askedUs, msgs, scored, lastSent, forgot, restarts>>

Request == [from : Askers, sent : Times, prev : Times \cup {None}]

TypeOK ==
    /\ now \in 0..MaxTime
    /\ weAsked \in [Askers -> Times \cup {None}]
    /\ askedUs \in [Addrs -> Times \cup {None}]
    /\ msgs \subseteq Request
    /\ scored \in [Askers -> 0..BanHits]
    /\ lastSent \in [Askers -> 0..MaxTime \cup {None}]
    /\ forgot \in [Askers -> BOOLEAN]
    /\ restarts \in 0..MaxRestarts

\* The peer has banned address x: one connection from it reached the score.
Banned(x) == \E a \in Askers : AddrOf[a] = x /\ scored[a] >= BanHits

\* A map entry that has not run out: GetTime() < (*it).second.
Live(t) == t # None /\ now < t

Init ==
    /\ now = 0
    /\ weAsked = [a \in Askers |-> None]
    /\ askedUs = [x \in Addrs |-> None]
    /\ msgs = {}
    /\ scored = [a \in Askers |-> 0]
    /\ lastSent = [a \in Askers |-> None]
    /\ forgot = [a \in Askers |-> FALSE]
    /\ restarts = 0

Tick ==
    /\ now < MaxTime
    /\ now' = now + 1
    /\ UNCHANGED <<weAsked, askedUs, msgs, scored, lastSent, forgot, restarts>>

\* Faulty variant of DsegUpdate: the entry is set one second too long.
DsegUpdateSlack(a) ==
    /\ ~Banned(AddrOf[a])
    /\ ~Live(weAsked[a])
    /\ msgs' = msgs \cup {[from |-> a, sent |-> now, prev |-> lastSent[a]]}
    /\ weAsked' = [weAsked EXCEPT ![a] = now + Dseg + 1]
    /\ lastSent' = [lastSent EXCEPT ![a] = now]
    /\ forgot' = [forgot EXCEPT ![a] = FALSE]
    /\ UNCHANGED <<now, askedUs, scored, restarts>>

\* CProsperitynodeMan::DsegUpdate(pnode), called by the LIST stage of the
\* asker's sync for the peer.  With a live entry it returns without a
\* change; otherwise it pushes obseg and sets its entry to now + DSEG.
DsegUpdate(a) ==
    /\ ~Banned(AddrOf[a])
    /\ ~Live(weAsked[a])
    /\ msgs' = msgs \cup {[from |-> a, sent |-> now, prev |-> lastSent[a]]}
    /\ weAsked' = [weAsked EXCEPT ![a] = now + Dseg]
    /\ lastSent' = [lastSent EXCEPT ![a] = now]
    /\ forgot' = [forgot EXCEPT ![a] = FALSE]
    /\ UNCHANGED <<now, askedUs, scored, restarts>>

\* The peer's obseg handler for an empty vin, on main net, from a public
\* address: a live entry for the sender's address earns Misbehaving(34) and
\* a return; otherwise the entry is set to now + DSEG and every enabled
\* record goes out as an inventory, followed by "ssc" (the records, and the
\* seen-cache entries the handler adds for them, are Registry's state).
Obseg(m) ==
    LET x == AddrOf[m.from] IN
    /\ ~Banned(x)
    /\ msgs' = msgs \ {m}
    /\ IF Live(askedUs[x])
       THEN /\ scored' = [scored EXCEPT ![m.from] = @ + 1]
            /\ UNCHANGED askedUs
       ELSE /\ askedUs' = [askedUs EXCEPT ![x] = now + Dseg]
            /\ UNCHANGED scored
    /\ UNCHANGED <<now, weAsked, lastSent, forgot, restarts>>

\* Faulty variant of Expired: entries are erased while still live.
ExpiredEarly(t) == t # None /\ t >= now

\* CheckAndRemove's test on a list-request entry: (*it).second < GetTime().
Expired(t) == t # None /\ t < now

\* The two loops of CProsperitynodeMan::CheckAndRemove over the list-request
\* maps, on the peer and on an asker.
PrunePeer ==
    /\ \E x \in Addrs : Expired(askedUs[x])
    /\ askedUs' = [x \in Addrs |-> IF Expired(askedUs[x]) THEN None ELSE askedUs[x]]
    /\ UNCHANGED <<now, weAsked, msgs, scored, lastSent, forgot, restarts>>

PruneAsker(a) ==
    /\ Expired(weAsked[a])
    /\ weAsked' = [weAsked EXCEPT ![a] = None]
    /\ UNCHANGED <<now, askedUs, msgs, scored, lastSent, forgot, restarts>>

\* Asker a stops and starts again: its connection to the peer, the requests
\* on it and the connection's misbehaviour score are gone (a ban of its
\* address stays).  CProsperitynodeDB::Read reloads mncache.dat and runs
\* CheckAndRemove(true); a missing or bad file leaves the manager empty.
Restart(a, fileOk) ==
    /\ restarts < MaxRestarts
    /\ restarts' = restarts + 1
    /\ msgs' = {m \in msgs : m.from # a}
    /\ scored' = [scored EXCEPT ![a] = IF Banned(AddrOf[a]) THEN @ ELSE 0]
    /\ weAsked' = [weAsked EXCEPT ![a] =
                     IF fileOk /\ ~Expired(@) THEN @ ELSE None]
    /\ forgot' = [forgot EXCEPT ![a] = @ \/ (~fileOk /\ lastSent[a] # None)]
    /\ UNCHANGED <<now, askedUs, lastSent>>

Next ==
    \/ Tick
    \/ \E a \in Askers : DsegUpdate(a)
    \/ \E m \in msgs : Obseg(m)
    \/ PrunePeer
    \/ \E a \in Askers : PruneAsker(a)
    \/ \E a \in Askers, fileOk \in BOOLEAN : Restart(a, fileOk)

Spec == Init /\ [][Next]_vars

-----------------------------------------------------------------------------
\* An asker never sends the peer a second full-list request less than DSEG
\* seconds after its previous one, unless it lost mncache.dat in between:
\* DsegUpdate's test, the entry kept across a restart by
\* CProsperitynodeDB::Read, and CheckAndRemove erasing only entries that
\* have run out keep it paced.
AskerPaced ==
    [][\A m \in msgs' \ msgs :
          m.prev = None \/ m.sent - m.prev >= Dseg \/ forgot[m.from]]_vars
=============================================================================
