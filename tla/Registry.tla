------------------------------ MODULE Registry ------------------------------
(***************************************************************************)
(* The masternode registry of one node and the gossip that feeds it:       *)
(* CProsperitynodeMan (src/src/prosperitynodeman.cpp) with the "fnb" and   *)
(* "fnp" handlers, CProsperitynodeBroadcast::CheckAndUpdate and            *)
(* CheckInputsAndAdd, CProsperitynodePing::CheckAndUpdate and              *)
(* CProsperitynode::Check (src/src/prosperitynode.cpp).                    *)
(*                                                                         *)
(* Each collateral outpoint (vin) is announced by its owner with signed    *)
(* broadcasts carrying an initial ping, and kept alive by pings; the       *)
(* network may lose, repeat and reorder both.  The node keeps at most one  *)
(* record per vin, caches of the broadcasts and pings it has seen, and     *)
(* CProsperitynodeSync's map of broadcasts counted for sync progress.      *)
(*                                                                         *)
(* Time is a counter of abstract units; the thresholds of prosperitynode.h *)
(* (not in this repository) are constants that keep their order:          *)
(* MinMnb < MinMnp - PingSlack < MinMnp < SigWindow < Expiration < Removal.*)
(* Keys and signatures are those of the owner: a broadcast is identified   *)
(* by its vin and sigTime, as GetHash identifies it by sigTime and the     *)
(* collateral key, and a ping by its vin and sigTime.                     *)
(***************************************************************************)
EXTENDS Integers, FiniteSets, Sequences, SequencesExt, TLC

CONSTANTS
    Vins,           \* collateral outpoints of masternodes
    MinMnb,         \* PROSPERITYNODE_MIN_MNB_SECONDS
    MinMnp,         \* PROSPERITYNODE_MIN_MNP_SECONDS
    PingSlack,      \* the 60 seconds the ping throttle forgives
    SigWindow,      \* 60 * 60: how far sigTime may be from the adjusted time
    Expiration,     \* PROSPERITYNODE_EXPIRATION_SECONDS
    Removal,        \* PROSPERITYNODE_REMOVAL_SECONDS
    PingBlockAge,   \* age at which a ping's block is more than 24 blocks deep
    MaxTime,        \* bound: last time explored
    MaxMsgs,        \* bound: messages the owners send
    LastSend,       \* bound: the owners fall silent after this time
    MaxRestarts,    \* bound: restarts of the node
    Cold,           \* vins whose masternode.conf entry (cold wallet) is on this node
    Hot,            \* the vin this node runs as its own masternode, if any
    PingSeconds,    \* PROSPERITYNODE_PING_SECONDS
    MaxManage       \* bound: calls of ManageStatus

ASSUME /\ Cold \subseteq Vins /\ Hot \subseteq Vins /\ Cardinality(Hot) <= 1
       /\ 0 < PingSeconds
       /\ 0 < MinMnb /\ MinMnb < MinMnp - PingSlack /\ 0 < PingSlack
       /\ MinMnp < PingBlockAge /\ PingBlockAge < SigWindow /\ SigWindow < Expiration /\ Expiration < Removal

Times == 0..MaxTime
None == [vin |-> "none"]      \* no record: Find returns NULL

PROSPERITYNODE_PRE_ENABLED == "PROSPERITYNODE_PRE_ENABLED"
PROSPERITYNODE_ENABLED == "PROSPERITYNODE_ENABLED"
PROSPERITYNODE_EXPIRED == "PROSPERITYNODE_EXPIRED"
PROSPERITYNODE_REMOVE == "PROSPERITYNODE_REMOVE"

\* CActiveProsperitynode::status
ACTIVE_PROSPERITYNODE_INITIAL == "ACTIVE_PROSPERITYNODE_INITIAL"
ACTIVE_PROSPERITYNODE_SYNC_IN_PROCESS == "ACTIVE_PROSPERITYNODE_SYNC_IN_PROCESS"
ACTIVE_PROSPERITYNODE_INPUT_TOO_NEW == "ACTIVE_PROSPERITYNODE_INPUT_TOO_NEW"
ACTIVE_PROSPERITYNODE_NOT_CAPABLE == "ACTIVE_PROSPERITYNODE_NOT_CAPABLE"
ACTIVE_PROSPERITYNODE_STARTED == "ACTIVE_PROSPERITYNODE_STARTED"

VARIABLES
    now,         \* GetAdjustedTime()
    reg,         \* vProsperitynodes: vin -> record, or None
    seenMnb,     \* mapSeenProsperitynodeBroadcast: hash -> the lastPing it holds
    syncSeen,    \* prosperitynodeSync.mapSeenSyncMNB, as its set of hashes
    seenPing,    \* mapSeenProsperitynodePing, as its set of ping hashes
    askedEntry,  \* mWeAskedForProsperitynodeListEntry: vin -> ask-again time
    txKnown,     \* GetTransaction finds the vin's collateral transaction
    confAt,      \* time of the block that gave the collateral its
                 \* PROSPERITYNODE_MIN_CONFIRMATIONS, or NotYet
    net,         \* every broadcast and ping the owners have sent
    misbehaved,  \* some peer has been scored with Misbehaving
    restarts,    \* restarts so far
    status,      \* activeProsperitynode.status of this node's own masternode
    activeVin,   \* activeProsperitynode.vin is the vin in Hot (set by
                 \* GetFundamentalNodeVin or EnableHotColdFundamentalNode)
    manageCalls  \* calls of ManageStatus so far

vars == <<now, reg, seenMnb, syncSeen, seenPing, askedEntry, txKnown,
          confAt, net, misbehaved, restarts, status, activeVin, manageCalls>>

NoAsk == -1
NotYet == -1
Record == [vin : Vins, sigTime : Times, ping : Times,
           state : {PROSPERITYNODE_PRE_ENABLED, PROSPERITYNODE_ENABLED, PROSPERITYNODE_EXPIRED, PROSPERITYNODE_REMOVE}]
Hash == [vin : Vins, sigTime : Times]
Broadcast == [kind : {"fnb"}, vin : Vins, sigTime : Times, ping : Times]
Ping == [kind : {"fnp"}, vin : Vins, sigTime : Times]

\* GetHash of a broadcast or a ping.
HashOf(b) == [vin |-> b.vin, sigTime |-> b.sigTime]

\* IsPingedWithin(seconds, t) of the record (prosperitynode.h).
IsPingedWithin(r, seconds, t) == t - r.ping < seconds

\* IsBroadcastedWithin(seconds) of the record (prosperitynode.h).
IsBroadcastedWithin(r, seconds) == now - r.sigTime < seconds

\* CProsperitynode::Check: the state the lifecycle rules give the record
\* (the outpoint-spent test is commented out in the code).
Checked(r) ==
    [r EXCEPT !.state =
        IF ~IsPingedWithin(r, Removal, now) THEN PROSPERITYNODE_REMOVE
        ELSE IF ~IsPingedWithin(r, Expiration, now) THEN PROSPERITYNODE_EXPIRED
        ELSE IF r.ping - r.sigTime < MinMnp THEN PROSPERITYNODE_PRE_ENABLED
        ELSE PROSPERITYNODE_ENABLED]

\* The sigTime window of CProsperitynodePing::CheckAndUpdate (also used
\* alone, with fCheckSigTimeOnly, for the ping inside a broadcast).
PingTimeOk(t) == t <= now + SigWindow /\ t > now - SigWindow

\* The ping's block is in mapBlockIndex (blockKnown: a node behind the
\* chain may not have it yet) and at most 24 blocks deep.
PingBlockOk(t, blockKnown) == blockKnown /\ now - t <= PingBlockAge

\* The record a broadcast creates: CProsperitynode(const CProsperitynodeBroadcast&).
NewRecord(b) == [vin |-> b.vin, sigTime |-> b.sigTime, ping |-> b.ping, state |-> PROSPERITYNODE_ENABLED]

\* Faulty variant of PingCheck: fRequireEnabled is not tested.
PingCheckAnyState(r, t, requireEnabled, blockKnown) ==
    IF ~PingTimeOk(t) THEN [ok |-> FALSE, dos |-> 1, rec |-> r]
    ELSE IF r = None THEN [ok |-> FALSE, dos |-> 0, rec |-> r]
    ELSE IF IsPingedWithin(r, MinMnp - PingSlack, t)
         THEN [ok |-> FALSE, dos |-> 0, rec |-> r]
    ELSE IF ~PingBlockOk(t, blockKnown) THEN [ok |-> FALSE, dos |-> 0, rec |-> r]
    ELSE LET r2 == Checked([r EXCEPT !.ping = t])
         IN  [ok |-> r2.state = PROSPERITYNODE_ENABLED, dos |-> 0, rec |-> r2]

\* CProsperitynodePing::CheckAndUpdate(nDos, requireEnabled) of a ping
\* signed at t for record r (None: no such masternode): whether it is
\* accepted, its nDos, and the record it leaves (lastPing set and the record
\* re-checked once the ping is taken, even when the result is false).
PingCheck(r, t, requireEnabled, blockKnown) ==
    IF ~PingTimeOk(t) THEN [ok |-> FALSE, dos |-> 1, rec |-> r]
    ELSE IF r = None \/ (requireEnabled /\ r.state # PROSPERITYNODE_ENABLED)
         THEN [ok |-> FALSE, dos |-> 0, rec |-> r]
    ELSE IF IsPingedWithin(r, MinMnp - PingSlack, t)
         THEN [ok |-> FALSE, dos |-> 0, rec |-> r]          \* arrived too early
    ELSE IF ~PingBlockOk(t, blockKnown) THEN [ok |-> FALSE, dos |-> 0, rec |-> r]
    ELSE LET r2 == Checked([r EXCEPT !.ping = t])
         IN  [ok |-> r2.state = PROSPERITYNODE_ENABLED, dos |-> 0, rec |-> r2]

\* The seen broadcast of a record takes the record's new lastPing.
SeenWithPing(seen, r) ==
    IF HashOf(r) \in DOMAIN seen THEN [seen EXCEPT ![HashOf(r)] = r.ping] ELSE seen

\* CProsperitynode::UpdateFromNewBroadcast(b) for a record whose sigTime is
\* older: the new sigTime, and the broadcast's ping checked against it;
\* then the Check() the caller runs.  The ping's block is taken as known:
\* a failed check here only leaves the old ping, and nothing is cached.
UpdatePing(r, b) == PingCheck([r EXCEPT !.sigTime = b.sigTime], b.ping, FALSE, TRUE)

UpdateFromNewBroadcast(r, b) == Checked(UpdatePing(r, b).rec)

\* Faulty variant of OlderThanRecord: the sigTime test is missing.
OlderThanRecordUnchecked(r, b) == FALSE

\* CProsperitynodeBroadcast::CheckAndUpdate rejects a broadcast no newer
\* than the record it would update.
OlderThanRecord(r, b) == r.sigTime >= b.sigTime

\* Faulty variant of AskForMN: the re-ask time uses the removal period.
AskForMNRemoval(v) ==
    askedEntry' = IF askedEntry[v] # NoAsk /\ now < askedEntry[v]
                  THEN askedEntry
                  ELSE [askedEntry EXCEPT ![v] = now + Removal]

\* CProsperitynodeMan::AskForMN: obseg for the entry unless asked recently.
AskForMN(v) ==
    askedEntry' = IF askedEntry[v] # NoAsk /\ now < askedEntry[v]
                  THEN askedEntry
                  ELSE [askedEntry EXCEPT ![v] = now + MinMnp]

-----------------------------------------------------------------------------
Init ==
    /\ now = 0
    /\ reg = [v \in Vins |-> None]
    /\ seenMnb = [h \in {} |-> 0]
    /\ syncSeen = {}
    /\ seenPing = {}
    /\ askedEntry = [v \in Vins |-> NoAsk]
    /\ txKnown = [v \in Vins |-> FALSE]
    /\ confAt = [v \in Vins |-> NotYet]
    /\ net = {}
    /\ misbehaved = FALSE
    /\ restarts = 0
    /\ status = ACTIVE_PROSPERITYNODE_INITIAL
    /\ activeVin = FALSE
    /\ manageCalls = 0

CanSend == Cardinality(net) < MaxMsgs /\ now <= LastSend

\* The owner of v (ActiveProsperitynode) signs a broadcast and its ping now.
Announce(v) ==
    /\ CanSend
    /\ net' = net \cup {[kind |-> "fnb", vin |-> v, sigTime |-> now, ping |-> now]}
    /\ UNCHANGED <<now, reg, seenMnb, syncSeen, seenPing, askedEntry, txKnown,
                   confAt, misbehaved, restarts, status, activeVin, manageCalls>>

\* The owner of v signs a ping now.
SendPing(v) ==
    /\ CanSend
    /\ net' = net \cup {[kind |-> "fnp", vin |-> v, sigTime |-> now]}
    /\ UNCHANGED <<now, reg, seenMnb, syncSeen, seenPing, askedEntry, txKnown,
                   confAt, misbehaved, restarts, status, activeVin, manageCalls>>

\* CProsperitynodeSync::AddedProsperitynodeList(hash): the count is kept as
\* membership, since only its presence is read by this model.
AddedProsperitynodeList(h) == syncSeen' = syncSeen \cup {h}

\* CProsperitynodeBroadcast::CheckAndUpdate(nDos) of a broadcast b not seen
\* before: "dos" when its sigTime or its ping's is out of range, "stale"
\* when it is no newer than the record, otherwise "ok" with the record it
\* leaves: an enabled record not announced within MinMnb is updated from b
\* (its ping taken when the check passes) and counted for sync.
MnbCheckAndUpdate(b) ==
    LET r == reg[b.vin]
        updating == r # None /\ r.state = PROSPERITYNODE_ENABLED
                    /\ ~IsBroadcastedWithin(r, MinMnb)
    IN  CASE b.sigTime > now + SigWindow \/ ~PingTimeOk(b.ping) ->
               [verdict |-> "dos", rec |-> r, updated |-> FALSE, pingTaken |-> FALSE]
          [] r # None /\ OlderThanRecord(r, b) ->
               [verdict |-> "stale", rec |-> r, updated |-> FALSE, pingTaken |-> FALSE]
          [] OTHER ->
               [verdict |-> "ok",
                rec |-> IF updating THEN UpdateFromNewBroadcast(r, b) ELSE r,
                updated |-> updating,
                pingTaken |-> updating /\ UpdatePing(r, b).ok]

\* CActiveProsperitynode::EnableHotColdFundamentalNode: the node runs as the
\* masternode whose enabled record it found (vin and service are v's).
EnableHotColdFundamentalNode == ACTIVE_PROSPERITYNODE_STARTED

\* CheckInputsAndAdd's first test: this node is a masternode running b's
\* vin with b's masternode key (every broadcast of the vin in Hot carries
\* this node's key), so there is nothing to do.
OwnBroadcast(b) == b.vin \in Hot /\ activeVin

\* CProsperitynodeBroadcast::CheckInputsAndAdd once CheckAndUpdate has left
\* record r2 and the sync map sync0: this node's own broadcast or an enabled
\* record ends it; otherwise the record is removed and, unless cs_main is
\* busy or the collateral is too young or younger than the broadcast,
\* re-created from b, and a broadcast with this node's key starts it
\* (EnableHotColdFundamentalNode).  A busy lock or a young collateral also
\* forgets the broadcast, so it can come again.
InputsAndAdd(r2, b, lockOk, sync0) ==
    LET h == HashOf(b)
        seen0 == seenMnb @@ (h :> b.ping)
    IN
    IF OwnBroadcast(b) \/ (r2 # None /\ r2.state = PROSPERITYNODE_ENABLED)
    THEN /\ reg' = [reg EXCEPT ![b.vin] = r2]
         /\ seenMnb' = seen0
         /\ syncSeen' = sync0 \cup {h}
         /\ UNCHANGED <<status, activeVin>>
    ELSE IF ~lockOk \/ confAt[b.vin] = NotYet
    THEN /\ reg' = [reg EXCEPT ![b.vin] = None]
         /\ seenMnb' = [x \in DOMAIN seenMnb \ {h} |-> seenMnb[x]]
         /\ syncSeen' = sync0 \ {h}
         /\ UNCHANGED <<status, activeVin>>
    ELSE IF confAt[b.vin] > b.sigTime
    THEN /\ reg' = [reg EXCEPT ![b.vin] = None]
         /\ seenMnb' = seen0
         /\ syncSeen' = sync0
         /\ UNCHANGED <<status, activeVin>>
    ELSE /\ reg' = [reg EXCEPT ![b.vin] = NewRecord(b)]
         /\ seenMnb' = seen0
         /\ syncSeen' = sync0 \cup {h}
         /\ IF b.vin \in Hot
            THEN /\ status' = EnableHotColdFundamentalNode
                 /\ activeVin' = TRUE
            ELSE UNCHANGED <<status, activeVin>>

\* The "fnb" handler of CProsperitynodeMan::ProcessMessage: a seen broadcast
\* only counts for sync; a new one is cached before it is checked, and
\* stays cached when a check fails, except as CheckInputsAndAdd says.
ReceiveBroadcast(b, lockOk) ==
    LET h == HashOf(b)
        c == MnbCheckAndUpdate(b)
        sync0 == IF c.updated THEN syncSeen \cup {h} ELSE syncSeen
        pings == IF c.pingTaken THEN {[vin |-> b.vin, sigTime |-> b.ping]} ELSE {}
    IN
    /\ b \in net
    /\ UNCHANGED <<now, askedEntry, txKnown, confAt, net, restarts, manageCalls>>
    /\ IF h \in DOMAIN seenMnb
       THEN /\ AddedProsperitynodeList(h)
            /\ UNCHANGED <<reg, seenMnb, seenPing, misbehaved, status, activeVin>>
       ELSE IF c.verdict # "ok"
       THEN /\ seenMnb' = seenMnb @@ (h :> b.ping)
            /\ misbehaved' = (misbehaved \/ c.verdict = "dos")
            /\ UNCHANGED <<reg, syncSeen, seenPing, status, activeVin>>
       ELSE IF ~txKnown[b.vin]                  \* IsVinAssociatedWithPubkey
       THEN /\ reg' = [reg EXCEPT ![b.vin] = c.rec]
            /\ seenMnb' = seenMnb @@ (h :> b.ping)
            /\ syncSeen' = sync0
            /\ seenPing' = seenPing \cup pings
            /\ misbehaved' = TRUE
            /\ UNCHANGED <<status, activeVin>>
       ELSE /\ InputsAndAdd(c.rec, b, lockOk, sync0)
            /\ seenPing' = seenPing \cup pings
            /\ UNCHANGED misbehaved

\* The "fnp" handler with CProsperitynodePing::CheckAndUpdate(nDoS) and,
\* for a ping that says nothing or an unknown masternode, AskForMN.
ReceivePing(p, blockKnown) ==
    LET r == reg[p.vin]
        pc == PingCheck(r, p.sigTime, TRUE, blockKnown)
    IN
    /\ p \in net
    /\ UNCHANGED <<now, syncSeen, txKnown, confAt, net, restarts, status, activeVin, manageCalls>>
    /\ IF HashOf(p) \in seenPing
       THEN UNCHANGED <<reg, seenMnb, seenPing, askedEntry, misbehaved>>
       ELSE /\ seenPing' = seenPing \cup {HashOf(p)}
            /\ reg' = [reg EXCEPT ![p.vin] = pc.rec]
            /\ seenMnb' = IF pc.rec # r THEN SeenWithPing(seenMnb, pc.rec) ELSE seenMnb
            /\ misbehaved' = (misbehaved \/ pc.dos > 0)
            /\ IF ~pc.ok /\ (pc.dos > 0 \/ r = None)
               THEN AskForMN(p.vin)
               ELSE UNCHANGED askedEntry

\* The expiry loop over mapSeenProsperitynodeBroadcast in CheckAndRemove,
\* visiting the hashes in the map's order: erase(it3++) moves the iterator
\* before mapSeenSyncMNB.erase reads it, so the sync entry erased is that of
\* the next broadcast in the order.  After the last one it reads end(): the
\* map's header, not a broadcast, so GetHash hashes whatever bytes lie there
\* and matches no key of mapSeenSyncMNB, or the read faults and the node
\* stops, which Restart covers.  Either way no sync entry is erased.
SeenExpiry(seen, sync, order) ==
    LET old(i) == seen[order[i]] < now - 2 * Removal
        gone == {order[i] : i \in {i \in 1..Len(order) : old(i)}}
        next == {order[i + 1] : i \in {i \in 1..Len(order) - 1 : old(i)}}
    IN  [seen |-> [x \in DOMAIN seen \ gone |-> seen[x]], sync |-> sync \ next]

\* CProsperitynodeMan::CheckAndRemove(force): Check every record, remove the
\* REMOVE ones (and the EXPIRED ones if forced) with their seen broadcasts,
\* sync entries and ask timers, then age out ask timers and the seen caches;
\* sync is the CProsperitynodeSync map it works against.
CheckAndRemove(force, sync) ==
    LET checked == [v \in Vins |-> IF reg[v] = None THEN None ELSE Checked(reg[v])]
        gone == {v \in Vins : checked[v] # None
                               /\ \/ checked[v].state = PROSPERITYNODE_REMOVE
                                  \/ force /\ checked[v].state = PROSPERITYNODE_EXPIRED}
        ofGone == {h \in DOMAIN seenMnb : h.vin \in gone}
        seen1 == [h \in DOMAIN seenMnb \ ofGone |-> seenMnb[h]]
    IN
    /\ reg' = [v \in Vins |-> IF v \in gone THEN None ELSE checked[v]]
    /\ askedEntry' = [v \in Vins |-> IF v \in gone \/ askedEntry[v] < now
                                     THEN NoAsk ELSE askedEntry[v]]
    /\ \E order \in SetToSeqs(DOMAIN seen1) :
          LET after == SeenExpiry(seen1, sync \ ofGone, order)
          IN  /\ seenMnb' = after.seen
              /\ syncSeen' = after.sync
    /\ seenPing' = {q \in seenPing : q.sigTime >= now - 2 * Removal}

\* CProsperitynodeMan::Add: a record not yet in vProsperitynodes, when enabled.
Add(r) == IF r.state = PROSPERITYNODE_ENABLED /\ reg[r.vin] = None
          THEN [reg EXCEPT ![r.vin] = r] ELSE reg

\* CProsperitynodeMan::UpdateProsperitynodeList(b): cache b's ping and b
\* (insert keeps an entry already there), count b for sync, then add a new
\* record or update the existing one, with no Check() afterwards.
UpdateProsperitynodeList(b) ==
    LET h == HashOf(b)
        r == reg[b.vin]
    IN  /\ seenPing' = seenPing \cup {[vin |-> b.vin, sigTime |-> b.ping]}
        /\ seenMnb' = IF h \in DOMAIN seenMnb THEN seenMnb ELSE seenMnb @@ (h :> b.ping)
        /\ AddedProsperitynodeList(h)
        /\ reg' = IF r = None THEN Add(NewRecord(b))
                  ELSE IF b.sigTime > r.sigTime
                  THEN [reg EXCEPT ![b.vin] = UpdatePing(r, b).rec]
                  ELSE reg

\* CActiveProsperitynode::GetFundamentalNodeVin: the wallet holds an output
\* of exactly the collateral amount for v, which is v's collateral
\* transaction being known.
GetFundamentalNodeVin(v) == txKnown[v]

\* CActiveProsperitynode::CreateBroadcast(strService, ...): the wallet
\* finds the collateral of v.
CreateBroadcastOk(v) == GetFundamentalNodeVin(v)

\* RPC "startprosperitynode alias" on the cold wallet of v, run on this
\* node: the broadcast it creates (sigTime and ping now) enters this node's
\* registry through UpdateProsperitynodeList, then is relayed.
StartAlias(v) ==
    LET b == [kind |-> "fnb", vin |-> v, sigTime |-> now, ping |-> now]
    IN  /\ CanSend
        /\ CreateBroadcastOk(v)
        /\ UpdateProsperitynodeList(b)
        /\ net' = net \cup {b}
        /\ UNCHANGED <<now, askedEntry, txKnown, confAt, misbehaved, restarts, status, activeVin, manageCalls>>

\* CProsperitynodeMan::Find(vin) and Find(pubKeyProsperitynode): each vin has
\* its own masternode key here, so both find v's record or None.
FindByVin(v) == reg[v]

FindByPubKey(v) == reg[v]

\* CProsperitynodeBroadcast(const CProsperitynode&): the broadcast a record
\* was built from, as far as its hash and lastPing go.
BroadcastOf(r) == [kind |-> "fnb", vin |-> r.vin, sigTime |-> r.sigTime, ping |-> r.ping]

\* Faulty variant of SeenWithLocalPing: the cached broadcast keeps its ping.
SeenWithLocalPingStale(seen, r) == seen

\* mapSeenProsperitynodeBroadcast[hash].lastPing = mnp, when the broadcast
\* of record r is still cached.
SeenWithLocalPing(seen, r) ==
    LET h == HashOf(BroadcastOf(r))
    IN  IF h \in DOMAIN seen THEN [seen EXCEPT ![h] = now] ELSE seen

\* CActiveProsperitynode::SendProsperitynodePing for the started vin v
\* whose record (after ManageStatus's Check) is r: no record stops the
\* pinging service; a record pinged within PingSeconds is left alone;
\* otherwise the ping is set on the record directly, with no Check and no
\* throttle of the fnp handler, cached, copied into the cached broadcast,
\* and relayed (lost when the relay bound is reached).
SendProsperitynodePing(v, r) ==
    LET p == [kind |-> "fnp", vin |-> v, sigTime |-> now]
    IN
    CASE r = None ->
           /\ status' = ACTIVE_PROSPERITYNODE_NOT_CAPABLE
           /\ UNCHANGED <<reg, seenMnb, seenPing, net>>
      [] IsPingedWithin(r, PingSeconds, now) ->
           /\ status' = ACTIVE_PROSPERITYNODE_STARTED
           /\ reg' = [reg EXCEPT ![v] = r]
           /\ UNCHANGED <<seenMnb, seenPing, net>>
      [] OTHER ->
           /\ status' = ACTIVE_PROSPERITYNODE_STARTED
           /\ reg' = [reg EXCEPT ![v] = [r EXCEPT !.ping = now]]
           /\ seenPing' = seenPing \cup {HashOf(p)}
           /\ seenMnb' = SeenWithLocalPing(seenMnb, r)
           /\ net' = IF CanSend THEN net \cup {p} ELSE net

\* CActiveProsperitynode::ManageStatus for this node's own vin v, entered
\* with status st: "synced" is IsBlockchainSynced(), "capable" that the
\* wallet is unlocked and funded, the address and port are valid, the
\* inbound connection succeeds and the keys sign.  An INITIAL node whose
\* record is found enabled after Check() is started by
\* EnableHotColdFundamentalNode; a node not started registers itself when
\* the wallet holds its collateral and it is confirmed (the broadcast is
\* relayed, not entered in its own list); a started node pings.
ManageStatus(v, st, synced, capable) ==
    LET s1 == IF st = ACTIVE_PROSPERITYNODE_SYNC_IN_PROCESS
              THEN ACTIVE_PROSPERITYNODE_INITIAL ELSE st
        found == s1 = ACTIVE_PROSPERITYNODE_INITIAL /\ FindByPubKey(v) # None
        r == IF found THEN Checked(FindByPubKey(v)) ELSE FindByVin(v)
        s2 == IF found /\ r.state = PROSPERITYNODE_ENABLED
              THEN EnableHotColdFundamentalNode ELSE s1
        b == [kind |-> "fnb", vin |-> v, sigTime |-> now, ping |-> now]
    IN
    /\ manageCalls < MaxManage
    /\ manageCalls' = manageCalls + 1
    /\ UNCHANGED <<now, syncSeen, askedEntry, txKnown, confAt, misbehaved, restarts>>
    /\ CASE ~synced ->
             /\ status' = ACTIVE_PROSPERITYNODE_SYNC_IN_PROCESS
             /\ UNCHANGED <<reg, seenMnb, seenPing, net, activeVin>>
        [] s2 = ACTIVE_PROSPERITYNODE_STARTED ->
             /\ activeVin' = TRUE
             /\ SendProsperitynodePing(v, r)
        [] OTHER ->
             /\ reg' = [reg EXCEPT ![v] = r]
             /\ activeVin' = (activeVin \/ (capable /\ GetFundamentalNodeVin(v)))
             /\ UNCHANGED <<seenMnb, seenPing>>
             /\ CASE ~capable \/ ~GetFundamentalNodeVin(v) ->
                      /\ status' = ACTIVE_PROSPERITYNODE_NOT_CAPABLE
                      /\ UNCHANGED net
                 [] confAt[v] = NotYet ->
                      /\ status' = ACTIVE_PROSPERITYNODE_INPUT_TOO_NEW
                      /\ UNCHANGED net
                 [] OTHER ->
                      /\ CanSend
                      /\ status' = ACTIVE_PROSPERITYNODE_STARTED
                      /\ net' = net \cup {b}

\* The sync loop's call of ManageStatus when the last asset is done.
SyncManageStatus(v, synced, capable) == ManageStatus(v, status, synced, capable)

\* RPC "startprosperitynode local": a node not started is put back to
\* INITIAL before ManageStatus, so the hot/cold lookup runs again.
StartLocal(v, synced, capable) ==
    /\ status # ACTIVE_PROSPERITYNODE_STARTED
    /\ ManageStatus(v, ACTIVE_PROSPERITYNODE_INITIAL, synced, capable)

-----------------------------------------------------------------------------
\* The periodic sweep (its caller, the pool-check thread, is not part of
\* this repository).
Sweep ==
    /\ CheckAndRemove(FALSE, syncSeen)
    /\ UNCHANGED <<now, txKnown, confAt, net, misbehaved, restarts, status, activeVin, manageCalls>>

\* CProsperitynodeMan::Clear
Clear ==
    /\ reg' = [v \in Vins |-> None]
    /\ askedEntry' = [v \in Vins |-> NoAsk]
    /\ seenMnb' = [h \in {} |-> 0]
    /\ seenPing' = {}

\* A restart: CProsperitynodeSync starts empty, and mncache.dat is read
\* back by CProsperitynodeDB::Read, which runs CheckAndRemove(true); a file
\* missing or failing its checks leaves the manager empty.
Restart(fileOk) ==
    /\ restarts < MaxRestarts
    /\ restarts' = restarts + 1
    /\ IF fileOk
       THEN CheckAndRemove(TRUE, {})
       ELSE /\ Clear
            /\ syncSeen' = {}
    /\ status' = ACTIVE_PROSPERITYNODE_INITIAL
    /\ activeVin' = FALSE
    /\ UNCHANGED <<now, txKnown, confAt, net, misbehaved, manageCalls>>

\* CProsperitynodeSync::Reset clears mapSeenSyncMNB.
SyncReset ==
    /\ syncSeen' = {}
    /\ UNCHANGED <<now, reg, seenMnb, seenPing, askedEntry, txKnown, confAt,
                   net, misbehaved, restarts, status, activeVin, manageCalls>>

Tick ==
    /\ now < MaxTime
    /\ now' = now + 1
    /\ UNCHANGED <<reg, seenMnb, syncSeen, seenPing, askedEntry, txKnown,
                   confAt, net, misbehaved, restarts, status, activeVin, manageCalls>>

\* The collateral transaction of v reaches this node's chain, and later its
\* PROSPERITYNODE_MIN_CONFIRMATIONS-th block.
TxSeen(v) ==
    /\ ~txKnown[v]
    /\ txKnown' = [txKnown EXCEPT ![v] = TRUE]
    /\ UNCHANGED <<now, reg, seenMnb, syncSeen, seenPing, askedEntry, confAt,
                   net, misbehaved, restarts, status, activeVin, manageCalls>>

Confirm(v) ==
    /\ txKnown[v] /\ confAt[v] = NotYet
    /\ confAt' = [confAt EXCEPT ![v] = now]
    /\ UNCHANGED <<now, reg, seenMnb, syncSeen, seenPing, askedEntry, txKnown,
                   net, misbehaved, restarts, status, activeVin, manageCalls>>

Next ==
    \/ Tick
    \/ \E v \in Vins : TxSeen(v) \/ Confirm(v)
    \/ \E v \in Vins \ Cold : Announce(v)
    \/ \E v \in Vins \ Hot : SendPing(v)
    \/ \E v \in Cold : StartAlias(v)
    \/ \E v \in Hot, synced, capable \in BOOLEAN :
          SyncManageStatus(v, synced, capable) \/ StartLocal(v, synced, capable)
    \/ \E b \in net, lockOk \in BOOLEAN : b.kind = "fnb" /\ ReceiveBroadcast(b, lockOk)
    \/ \E p \in net, blockKnown \in BOOLEAN : p.kind = "fnp" /\ ReceivePing(p, blockKnown)
    \/ Sweep
    \/ \E fileOk \in BOOLEAN : Restart(fileOk)
    \/ SyncReset

Spec == Init /\ [][Next]_vars

-----------------------------------------------------------------------------
TypeOK ==
    /\ now \in Times
    /\ reg \in [Vins -> Record \cup {None}]
    /\ \A v \in Vins : reg[v] # None => reg[v].vin = v
    /\ DOMAIN seenMnb \subseteq Hash /\ \A h \in DOMAIN seenMnb : seenMnb[h] \in Times
    /\ syncSeen \subseteq Hash
    /\ seenPing \subseteq Hash
    /\ askedEntry \in [Vins -> {NoAsk} \cup 0..MaxTime + MinMnp]
    /\ confAt \in [Vins -> {NotYet} \cup Times]
    /\ net \subseteq Broadcast \cup Ping
    /\ misbehaved \in BOOLEAN
    /\ restarts \in 0..MaxRestarts
    /\ status \in {ACTIVE_PROSPERITYNODE_INITIAL, ACTIVE_PROSPERITYNODE_SYNC_IN_PROCESS,
                   ACTIVE_PROSPERITYNODE_INPUT_TOO_NEW, ACTIVE_PROSPERITYNODE_NOT_CAPABLE,
                   ACTIVE_PROSPERITYNODE_STARTED}
    /\ activeVin \in BOOLEAN
    /\ manageCalls \in 0..MaxManage

\* A record is only ever replaced by a newer announcement: while a vin stays
\* in vProsperitynodes its sigTime never decreases, whatever order broadcasts
\* arrive in (CheckAndUpdate's sigTime test, CheckInputsAndAdd's re-add).
AnnounceMonotonic ==
    [][\A v \in Vins : reg[v] # None /\ reg'[v] # None
                         => reg'[v].sigTime >= reg[v].sigTime]_vars

\* Once Check() has found a record PRE_ENABLED or EXPIRED, no ping brings
\* it back: the fnp handler passes fRequireEnabled to
\* CProsperitynodePing::CheckAndUpdate, and CheckAndUpdate of a newer
\* broadcast updates only an enabled record.  The record keeps its lastPing
\* until a broadcast with a newer sigTime re-creates it in
\* CheckInputsAndAdd, so a masternode that missed its pings must be
\* announced again.
NotEnabledKeepsPing ==
    [][\A v \in Vins :
          /\ reg[v] # None /\ reg'[v] # None
          /\ reg[v].state \in {PROSPERITYNODE_PRE_ENABLED, PROSPERITYNODE_EXPIRED}
          /\ reg'[v].sigTime = reg[v].sigTime
          => reg'[v].ping = reg[v].ping]_vars

\* The broadcast a record was last built or updated from stays in
\* mapSeenProsperitynodeBroadcast while the record exists: a repeat of it
\* is dropped as seen instead of being checked again, and the cache's
\* expiry (by the lastPing it holds) never outruns the record's removal.
SeenCoversRecord ==
    \A v \in Vins : reg[v] # None => HashOf(reg[v]) \in DOMAIN seenMnb

\* Spec, testable properties: every accepted ping comes at least
\* MinMnp - PingSlack after the masternode's previous accepted ping.  Pings
\* reach the record by the fnp handler, by the ping inside a newer broadcast
\* and by the record CheckInputsAndAdd re-creates from a broadcast.
PingThrottled ==
    [][\A v \in Vins : reg[v] # None /\ reg'[v] # None /\ reg'[v].ping # reg[v].ping
                         => reg'[v].ping - reg[v].ping >= MinMnp - PingSlack]_vars

\* Every broadcast counted for sync progress (mapSeenSyncMNB) is one the
\* registry still has in mapSeenProsperitynodeBroadcast: the two maps are
\* erased together in CheckInputsAndAdd and in CheckAndRemove.
SyncSeenWithinSeen == syncSeen \subseteq DOMAIN seenMnb
=============================================================================
