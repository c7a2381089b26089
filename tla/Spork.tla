------------------------------- MODULE Spork -------------------------------
(***************************************************************************)
(* The spork manager of spork.cpp: a network-wide flag signed by the one   *)
(* node that holds the spork key.  Each node keeps, per spork id, the      *)
(* message with the greatest nTimeSigned it has accepted                   *)
(* (mapSporksActive) and writes accepted messages to its spork database    *)
(* (pSporkDB).  One spork id is modelled; the value of a message is a      *)
(* member of a small set and its nTimeSigned the signer's clock.           *)
(***************************************************************************)
EXTENDS Integers, FiniteSets

CONSTANTS
    Nodes,          \* the nodes of the network
    Signer,         \* the node started with -sporkkey (SetPrivKey succeeded)
    Values,         \* the nValue an operator may set
    MaxTime,        \* bound on the signer's GetTime()
    MaxRestarts,    \* bound on restarts and sync resets over the whole behaviour
    StrictSignTimes,\* the operator never signs twice in one second of the
                    \* signer's clock
    None            \* no entry in mapSporksActive or in the database

ASSUME Signer \in Nodes /\ StrictSignTimes \in BOOLEAN

\* A CSporkMessage of the modelled spork id.
Sporks == [value : Values, time : 0..MaxTime]

VARIABLES
    active,    \* active[n] = mapSporksActive[id] of node n, or None
    db,        \* db[n] = what pSporkDB->ReadSpork(id) returns on node n
    msgs,      \* "spork" messages in flight: [from, to, spork]
    pending,   \* pending[n] = peers n has still to send "getsporks" to
    issued,    \* every spork the signer has signed (history)
    restarts

vars == <<active, db, msgs, pending, issued, restarts>>

Peers(n) == Nodes \ {n}

TimeOf(s) == IF s = None THEN -1 ELSE s.time

TypeOK ==
    /\ active \in [Nodes -> Sporks \cup {None}]
    /\ db \in [Nodes -> Sporks \cup {None}]
    /\ msgs \subseteq [from : Nodes, to : Nodes, spork : Sporks]
    /\ pending \in [Nodes -> SUBSET Nodes]
    /\ issued \subseteq Sporks
    /\ restarts \in 0..MaxRestarts

\* CSporkManager::Relay: RelayInv of the message to every connected peer.
Relay(n, s) == {[from |-> n, to |-> p, spork |-> s] : p \in Peers(n)}

\* Synced nodes before the first spork is signed: empty tables and
\* databases, nothing in flight.
Init ==
    /\ active = [n \in Nodes |-> None]
    /\ db = [n \in Nodes |-> None]
    /\ msgs = {}
    /\ pending = [n \in Nodes |-> {}]
    /\ issued = {}
    /\ restarts = 0

\* CSporkManager::UpdateSpork on the signer (the "spork" RPC): nTimeSigned
\* is the signer's GetTime() t; the message is relayed and installed in
\* mapSporks/mapSporksActive without comparing with the active one, and it
\* is not written to the spork database.  The signer's clock is any t; it
\* moves strictly forward between two updates under StrictSignTimes.
UpdateSpork(v, t) ==
    LET s == [value |-> v, time |-> t] IN
    /\ StrictSignTimes => \A m \in issued : m.time < t
    /\ s \notin issued
    /\ active' = [active EXCEPT ![Signer] = s]
    /\ msgs' = msgs \cup Relay(Signer, s)
    /\ issued' = issued \cup {s}
    /\ UNCHANGED <<db, pending, restarts>>

\* Faulty variant of ProcessSpork: an accepted message is not relayed.
ProcessSporkNoRelay(m) ==
    LET n == m.to
        s == m.spork
    IN
    /\ \/ /\ TimeOf(active[n]) >= s.time
          /\ UNCHANGED <<active, db>>
       \/ /\ TimeOf(active[n]) < s.time
          /\ active' = [active EXCEPT ![n] = s]
          /\ db' = [db EXCEPT ![n] = s]
    /\ msgs' = msgs \ {m}
    /\ UNCHANGED <<pending, issued, restarts>>

\* ProcessSpork, "spork": a message whose nTimeSigned is not newer than the
\* active one is dropped; otherwise (the signature checks, as every message
\* of the model is signed by the spork key) it becomes active, is relayed
\* and is written to the spork database.
ProcessSpork(m) ==
    LET n == m.to
        s == m.spork
    IN
    /\ \/ /\ TimeOf(active[n]) >= s.time
          /\ msgs' = msgs \ {m}
          /\ UNCHANGED <<active, db>>
       \/ /\ TimeOf(active[n]) < s.time
          /\ active' = [active EXCEPT ![n] = s]
          /\ db' = [db EXCEPT ![n] = s]
          /\ msgs' = (msgs \ {m}) \cup Relay(n, s)
    /\ UNCHANGED <<pending, issued, restarts>>

\* Faulty variant of GetSporks: the peer answers even with no entry.
GetSporksUnchecked(n, p) ==
    /\ p \in pending[n]
    /\ pending' = [pending EXCEPT ![n] = @ \ {p}]
    /\ msgs' = msgs \cup {[from |-> p, to |-> n, spork |-> active[p]]}
    /\ UNCHANGED <<active, db, issued, restarts>>

\* The SPORKS stage of the requesting node's sync sends "getsporks" to p;
\* ProcessSpork, "getsporks", at p pushes every entry of mapSporksActive.
GetSporks(n, p) ==
    /\ p \in pending[n]
    /\ pending' = [pending EXCEPT ![n] = @ \ {p}]
    /\ msgs' = IF active[p] = None THEN msgs
               ELSE msgs \cup {[from |-> p, to |-> n, spork |-> active[p]]}
    /\ UNCHANGED <<active, db, issued, restarts>>

\* A node stops and starts again: its connections, and the messages queued
\* on them, are gone; LoadSporksFromDB refills mapSporksActive from the
\* spork database; sync starts over and asks its peers for their sporks.
LoadSporksFromDB(n) == db[n]

Restart(n) ==
    /\ restarts < MaxRestarts
    /\ restarts' = restarts + 1
    /\ active' = [active EXCEPT ![n] = LoadSporksFromDB(n)]
    /\ msgs' = {m \in msgs : m.from # n /\ m.to # n}
    /\ pending' = [pending EXCEPT ![n] = Peers(n)]
    /\ UNCHANGED <<db, issued>>

\* A running node's sync starts over (CProsperitynodeSync::Reset after a
\* failure, a sleep or a list gone empty): GetNextAsset from INITIAL runs
\* ClearFulfilledRequest, so the SPORKS stage sends "getsporks" to its
\* peers again.  Nothing is lost; it shares the restart bound.
SyncReset(n) ==
    /\ restarts < MaxRestarts
    /\ restarts' = restarts + 1
    /\ pending' = [pending EXCEPT ![n] = Peers(n)]
    /\ UNCHANGED <<active, db, msgs, issued>>

Next ==
    \/ \E v \in Values, t \in 0..MaxTime : UpdateSpork(v, t)
    \/ \E m \in msgs : ProcessSpork(m)
    \/ \E n \in Nodes, p \in Nodes : GetSporks(n, p)
    \/ \E n \in Nodes : Restart(n)
    \/ \E n \in Nodes : SyncReset(n)

\* Delivery of a queued message and the sync steps of a running node are
\* taken by the net and sync threads; the operator's RPC and
\* crashes are not obliged to happen.
Fairness ==
    /\ \A n, p \in Nodes : WF_vars(GetSporks(n, p))
    /\ WF_vars(\E m \in msgs : ProcessSpork(m))

Spec == Init /\ [][Next]_vars /\ Fairness

-----------------------------------------------------------------------------
\* Once the operator and the crashes stop, every node ends up with the same
\* active spork, and none with a spork older than one some node has in its
\* database: ProcessSpork relays what it accepts, LoadSporksFromDB restores
\* it after a restart and getsporks fetches what a restarted node missed.
Converges ==
    <>[](\A n, p \in Nodes :
            /\ active[n] = active[p]
            /\ TimeOf(active[n]) >= TimeOf(db[p]))
=============================================================================
