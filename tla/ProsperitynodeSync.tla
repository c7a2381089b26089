------------------------- MODULE ProsperitynodeSync -------------------------
(***************************************************************************)
(* The staged bootstrap of a node: CProsperitynodeSync in                  *)
(* src/src/prosperitynode-sync.{h,cpp}.                                    *)
(*                                                                         *)
(* A maintenance thread calls Process() every second; every fifth call it  *)
(* asks one connected peer for the current stage's data (sporks, the      *)
(* masternode list, payment winners, budgets), and moves to the next stage *)
(* when items stop arriving, or on a timeout, or fails.  Items arrive      *)
(* through the message handlers, which call IsBlockchainSynced() and then  *)
(* AddedProsperitynodeList / AddedProsperitynodeWinner / AddedBudgetItem.  *)
(* Peers remember which sync requests they have served on a connection:    *)
(* a second "fnget" earns the requester a misbehaviour score               *)
(* (prosperitynode-payments.cpp, "fnget" handler).                         *)
(*                                                                         *)
(* Time is kept as ages in seconds, advanced by five seconds per working   *)
(* Process() call and saturated just above the largest threshold each age  *)
(* is compared with; one item per kind stands for the hashes counted in    *)
(* mapSeenSyncMNB / MNW / Budget.                                          *)
(***************************************************************************)
EXTENDS Integers, FiniteSets, TLC

CONSTANTS
    NumPeers,       \* connected peers (vNodes), all at the current protocol
    Spork8Active,   \* SPORK_8_PROSPERITYNODE_PAYMENT_ENFORCEMENT
    ClearMayFail,   \* TRY_LOCK(cs_vNodes) in ClearFulfilledRequest may fail
    MaxDisruptions  \* bound on sleeps, reconnects and registry losses

INITIAL == 0
SPORKS == 1
LIST == 2
MNW == 3
BUDGET == 4
FAILED == 998
FINISHED == 999

SyncTimeout == 5        \* PROSPERITYNODE_SYNC_TIMEOUT
SyncThreshold == 2      \* PROSPERITYNODE_SYNC_THRESHOLD
TickSeconds == SyncTimeout  \* Process() works on one call in PROSPERITYNODE_SYNC_TIMEOUT
FailRetrySeconds == 60  \* FAILED is retried once lastFailure is a minute old

\* vNodes, in the order Process() walks it.
Peers == 1..NumPeers

Kinds == {"mnb", "mnw", "budget"}
\* Kinds whose handlers are in this repository; nothing here calls
\* AddedBudgetItem, so the BUDGET stage always ends by its timeout.
ItemKinds == {"mnb", "mnw"}
Never == -1             \* lastProsperitynodeList (etc.) == 0: nothing seen

LastCap == SyncTimeout * 2 + TickSeconds
StartCap == SyncTimeout * 5 + TickSeconds
FailCap == FailRetrySeconds + TickSeconds

\* An age after one more working Process() call, saturated at cap.
Older(a, cap) == IF a = Never THEN Never
                 ELSE IF a + TickSeconds > cap THEN cap ELSE a + TickSeconds

VARIABLES
    sync,         \* the CProsperitynodeSync object (fields below)
    fulfilled,    \* per peer: sync requests marked with FulfilledRequest
    bcSynced,     \* static fBlockchainSynced of IsBlockchainSynced()
    slept,        \* the last IsBlockchainSynced() call is over an hour old
    chainRecent,  \* the tip is less than an hour old
    enabledAny,   \* mnodeman.CountEnabled() > 0
    servedFnget,  \* each peer's HasFulfilledRequest("fnget") for this node
    penalised,    \* some peer has scored this node with Misbehaving
    disruptions,  \* environment disruptions so far (bounded)
    resetDone     \* Reset has started the sync over at least once (history)

vars == <<sync, fulfilled, bcSynced, slept, chainRecent, enabledAny,
          servedFnget, penalised, disruptions, resetDone>>

peerVars == <<servedFnget, penalised>>
envVars == <<chainRecent, enabledAny, disruptions>>

SyncState ==
    [asset : {INITIAL, SPORKS, LIST, MNW, BUDGET, FAILED, FINISHED},
     attempt : 0..(SyncThreshold * 3 + 1),  \* RequestedProsperitynodeAttempt
     last : [Kinds -> {Never} \cup 0..LastCap], \* lastProsperitynodeList, ...
     started : 0..StartCap,                 \* age of nAssetSyncStarted
     failure : 0..FailCap,                  \* age of lastFailure
     seen : [Kinds -> 0..SyncThreshold]]    \* mapSeenSyncMNB/MNW/Budget

\* CProsperitynodeSync::Reset (lastFailure = 0 is older than any age).
Reset == [asset |-> INITIAL, attempt |-> 0, last |-> [k \in Kinds |-> Never],
          started |-> 0, failure |-> FailCap, seen |-> [k \in Kinds |-> 0]]

\* A faulty successor table that skips the payment-winner stage.
NextAssetSkip(a) == CASE a \in {INITIAL, FAILED} -> SPORKS
                      [] a = SPORKS -> LIST
                      [] a = LIST -> BUDGET
                      [] a = MNW -> BUDGET
                      [] a = BUDGET -> FINISHED
                      [] OTHER -> a

\* The switch of CProsperitynodeSync::GetNextAsset.
NextAsset(a) == CASE a \in {INITIAL, FAILED} -> SPORKS
                  [] a = SPORKS -> LIST
                  [] a = LIST -> MNW
                  [] a = MNW -> BUDGET
                  [] a = BUDGET -> FINISHED
                  [] OTHER -> a

\* CProsperitynodeSync::GetNextAsset; from INITIAL it also calls
\* ClearFulfilledRequest (see ClearedFlags).
GetNextAsset(s) == [s EXCEPT !.asset = NextAsset(s.asset), !.attempt = 0, !.started = 0]

\* CProsperitynodeSync::ClearFulfilledRequest; lockOk: TRY_LOCK(cs_vNodes).
ClearedFlags(lockOk) == IF lockOk THEN [p \in Peers |-> {}] ELSE fulfilled

\* Faulty variant of Added: the count of sightings is not capped.
AddedUncapped(s, k) == [s EXCEPT !.last[k] = 0, !.seen[k] = @ + 1]

\* CProsperitynodeSync::AddedProsperitynodeList / Winner / BudgetItem for an
\* item already in the handler's own seen map: every caller (the fnb and fnw
\* handlers, CheckAndUpdate, UpdateProsperitynodeList) has just found or
\* put the hash there, so the branch for a hash not in it is never taken.
Added(s, k) == IF s.seen[k] < SyncThreshold
               THEN [s EXCEPT !.last[k] = 0, !.seen[k] = @ + 1]
               ELSE s

\* IsBlockchainSynced(): the sync object it leaves (Reset after a sleep)
\* and its result, which is also the new value of fBlockchainSynced.  Its
\* early returns on fImporting, fReindex and a busy cs_main are left out:
\* they read a recent tip as not synced for one call, as an old tip does.
AfterSleepCheck(s) == IF slept THEN Reset ELSE s
BlockchainSynced == (bcSynced /\ ~slept) \/ chainRecent

SporksDone(s) == s.attempt >= SyncThreshold

\* No new item of kind k for ten seconds, after at least two requests.
Stale(s, k) == s.last[k] # Never /\ s.last[k] > SyncTimeout * 2
               /\ s.attempt >= SyncThreshold

\* Nothing of kind k ever arrived, and six requests or 25 seconds are spent.
TimedOut(s, k) == s.last[k] = Never
                  /\ (s.attempt >= SyncThreshold * 3 \/ s.started > SyncTimeout * 5)

\* The stage fails: RequestedProsperitynodeAssets = FAILED, lastFailure = now.
Failed(s) == [s EXCEPT !.asset = FAILED, !.attempt = 0, !.failure = 0]

\* Peers not yet sent request r in this stage.
Unasked(fl, r) == {p \in Peers : r \notin fl[p]}

\* The peer the loop over vNodes reaches first among those.
FirstUnasked(fl, r) == CHOOSE p \in Unasked(fl, r) : \A q \in Unasked(fl, r) : p <= q

\* Faulty variant of Mark: the request is not recorded on the peer.
MarkLost(fl, p, r) == fl

\* Peer p marked with FulfilledRequest(r).
Mark(fl, p, r) == [fl EXCEPT ![p] = @ \cup {r}]

\* The request each working stage sends, and the kind of item it counts.
RequestOf == (SPORKS :> "getspork") @@ (LIST :> "fnsync") @@ (MNW :> "fnwsync")
             @@ (BUDGET :> "busync")
KindOf == (LIST :> "mnb") @@ (MNW :> "mnw") @@ (BUDGET :> "budget")

\* The ages after the five seconds up to this working Process() call.
Aged(s) == [s EXCEPT !.last = [k \in Kinds |-> Older(s.last[k], LastCap)],
                     !.started = Older(s.started, StartCap),
                     !.failure = Older(s.failure, FailCap)]

\* The peer's "fnget" handler: on main net a second request on the same
\* connection scores Misbehaving(20) and is not served.  The handler's
\* first return, when the peer itself is not IsBlockchainSynced(), is left
\* out: it neither marks nor scores, so it only removes penalties.
PeerServesFnget(p) ==
    /\ servedFnget' = [servedFnget EXCEPT ![p] = TRUE]
    /\ penalised' = (penalised \/ servedFnget[p])

\* SPORKS: getsporks to the first peer not yet asked; from the third request
\* on the stage moves to LIST (after which the attempt is still counted).
SporksStep(s, fl) ==
    /\ s.asset = SPORKS
    /\ Unasked(fl, "getspork") # {}
    /\ LET p == FirstUnasked(fl, "getspork") IN
         /\ fulfilled' = Mark(fl, p, "getspork")
         /\ sync' = [(IF SporksDone(s) THEN GetNextAsset(s) ELSE s)
                       EXCEPT !.attempt = @ + 1]
    /\ UNCHANGED peerVars

\* LIST, MNW and BUDGET: the stage's items stopped arriving, so move on.
\* The check precedes the per-peer FulfilledRequest test.
StaleStep(s, fl) ==
    /\ s.asset \in {LIST, MNW, BUDGET}
    /\ Stale(s, KindOf[s.asset])
    /\ sync' = GetNextAsset(s)
    /\ fulfilled' = fl
    /\ UNCHANGED peerVars

\* Faulty variant of ListTimeout: the stage is skipped even under SPORK_8.
ListTimeoutSkip(s, fl) ==
    /\ s.asset \in {LIST, MNW}
    /\ ~Stale(s, KindOf[s.asset])
    /\ TimedOut(s, KindOf[s.asset])
    /\ Unasked(fl, RequestOf[s.asset]) # {}
    /\ LET p == FirstUnasked(fl, RequestOf[s.asset]) IN
         fulfilled' = Mark(fl, p, RequestOf[s.asset])
    /\ sync' = GetNextAsset(s)
    /\ UNCHANGED peerVars

\* LIST and MNW: the next unasked peer is marked, and then, with nothing
\* received after six requests or 25 seconds, the stage fails under
\* SPORK_8 and is skipped otherwise.
ListTimeout(s, fl) ==
    /\ s.asset \in {LIST, MNW}
    /\ ~Stale(s, KindOf[s.asset])
    /\ TimedOut(s, KindOf[s.asset])
    /\ Unasked(fl, RequestOf[s.asset]) # {}
    /\ LET p == FirstUnasked(fl, RequestOf[s.asset]) IN
         fulfilled' = Mark(fl, p, RequestOf[s.asset])
    /\ sync' = IF Spork8Active THEN Failed(s) ELSE GetNextAsset(s)
    /\ UNCHANGED peerVars

\* LIST: DsegUpdate to the next unasked peer, attempt + 1.  Whether obseg
\* really goes out (DsegUpdate skips a peer asked within three hours) only
\* changes which items later arrive, and arrivals are Gossip steps.
ListRequest(s, fl) ==
    /\ s.asset = LIST
    /\ ~Stale(s, "mnb") /\ ~TimedOut(s, "mnb")
    /\ Unasked(fl, "fnsync") # {}
    /\ LET p == FirstUnasked(fl, "fnsync") IN
         /\ fulfilled' = Mark(fl, p, "fnsync")
         /\ sync' = IF s.attempt >= SyncThreshold * 3 THEN s
                    ELSE [s EXCEPT !.attempt = @ + 1]
    /\ UNCHANGED peerVars

\* MNW: fnget to the next unasked peer, attempt + 1.
WinnersRequest(s, fl) ==
    /\ s.asset = MNW
    /\ ~Stale(s, "mnw") /\ ~TimedOut(s, "mnw")
    /\ Unasked(fl, "fnwsync") # {}
    /\ LET p == FirstUnasked(fl, "fnwsync") IN
         /\ fulfilled' = Mark(fl, p, "fnwsync")
         /\ IF s.attempt >= SyncThreshold * 3
            THEN sync' = s /\ UNCHANGED <<servedFnget, penalised>>
            ELSE sync' = [s EXCEPT !.attempt = @ + 1] /\ PeerServesFnget(p)

\* BUDGET: the timeout precedes the per-peer test and never fails the sync.
BudgetTimeout(s, fl) ==
    /\ s.asset = BUDGET
    /\ ~Stale(s, "budget") /\ TimedOut(s, "budget")
    /\ sync' = GetNextAsset(s)
    /\ fulfilled' = fl
    /\ UNCHANGED peerVars

\* BUDGET: fnvs to the next unasked peer, attempt + 1.
BudgetRequest(s, fl) ==
    /\ s.asset = BUDGET
    /\ ~Stale(s, "budget") /\ ~TimedOut(s, "budget")
    /\ Unasked(fl, "busync") # {}
    /\ LET p == FirstUnasked(fl, "busync") IN
         /\ fulfilled' = Mark(fl, p, "busync")
         /\ sync' = IF s.attempt >= SyncThreshold * 3 THEN s
                    ELSE [s EXCEPT !.attempt = @ + 1]
    /\ UNCHANGED peerVars

\* Every peer already has this stage's request and no check fired: the loop
\* ends without a change (also the INITIAL state a sleep reset leaves).
NoPeerLeft(s, fl) ==
    /\ \/ s.asset = INITIAL
       \/ /\ s.asset \in DOMAIN RequestOf
          /\ Unasked(fl, RequestOf[s.asset]) = {}
          /\ s.asset \in DOMAIN KindOf => ~Stale(s, KindOf[s.asset])
          /\ s.asset = BUDGET => ~TimedOut(s, "budget")
    /\ sync' = s
    /\ fulfilled' = fl
    /\ UNCHANGED peerVars

\* The BOOST_FOREACH over vNodes in Process().
PeerStep(s, fl) ==
    \/ SporksStep(s, fl)
    \/ StaleStep(s, fl)
    \/ ListTimeout(s, fl)
    \/ ListRequest(s, fl)
    \/ WinnersRequest(s, fl)
    \/ BudgetTimeout(s, fl)
    \/ BudgetRequest(s, fl)
    \/ NoPeerLeft(s, fl)

-----------------------------------------------------------------------------
Init ==
    /\ sync = Reset
    /\ fulfilled = [p \in Peers |-> {}]
    /\ bcSynced = FALSE
    /\ slept = FALSE
    /\ chainRecent = FALSE
    /\ enabledAny = FALSE
    /\ servedFnget = [p \in Peers |-> FALSE]
    /\ penalised = FALSE
    /\ disruptions = 0
    /\ resetDone = FALSE

\* A working call of CProsperitynodeSync::Process(); lockOk is its
\* TRY_LOCK(cs_vNodes), clearOk that of ClearFulfilledRequest.
Process(lockOk, clearOk) ==
    LET s0 == Aged(sync) IN
    \/ /\ s0.asset = FINISHED /\ enabledAny
       /\ sync' = s0
       /\ UNCHANGED <<fulfilled, bcSynced, slept, peerVars, resetDone>>
    \/ /\ s0.asset = FAILED /\ s0.failure <= FailRetrySeconds
       /\ sync' = s0
       /\ UNCHANGED <<fulfilled, bcSynced, slept, peerVars, resetDone>>
    \/ /\ ~(s0.asset = FINISHED /\ enabledAny)
       /\ ~(s0.asset = FAILED /\ s0.failure <= FailRetrySeconds)
       /\ LET s1 == IF s0.asset \in {FINISHED, FAILED} THEN Reset ELSE s0
              s2 == IF s1.asset = INITIAL THEN GetNextAsset(s1) ELSE s1
              fl == IF s1.asset = INITIAL THEN ClearedFlags(clearOk) ELSE fulfilled
              s3 == AfterSleepCheck(s2)
          IN /\ bcSynced' = BlockchainSynced
             /\ slept' = FALSE
             /\ resetDone' = (resetDone \/ s0.asset \in {FINISHED, FAILED} \/ slept)
             /\ \/ /\ (~BlockchainSynced /\ s3.asset > SPORKS) \/ ~lockOk
                   /\ sync' = s3
                   /\ fulfilled' = fl
                   /\ UNCHANGED peerVars
                \/ /\ BlockchainSynced \/ s3.asset <= SPORKS
                   /\ lockOk
                   /\ PeerStep(s3, fl)

\* Process() as scheduled, with the outcomes of both TRY_LOCKs.
Tick(lockOk, clearOk) ==
    /\ Process(lockOk, clearOk)
    /\ UNCHANGED envVars

\* An item of kind k reaches its handler ("fnb" or "fnw"), which returns
\* unless IsBlockchainSynced() and then counts it; an accepted broadcast
\* puts an enabled node in the registry.
Gossip(k) ==
    LET s1 == AfterSleepCheck(sync) IN
    /\ bcSynced' = BlockchainSynced
    /\ slept' = FALSE
    /\ sync' = IF BlockchainSynced THEN Added(s1, k) ELSE s1
    /\ resetDone' = (resetDone \/ slept)
    /\ enabledAny' = (enabledAny \/ (k = "mnb" /\ BlockchainSynced))
    /\ UNCHANGED <<fulfilled, chainRecent, disruptions, peerVars>>

\* One more disruption of the environment, within the bound.
Disrupt == disruptions < MaxDisruptions /\ disruptions' = disruptions + 1

\* The machine sleeps for over an hour: every age saturates and the tip is old.
Sleep ==
    /\ Disrupt
    /\ slept' = TRUE
    /\ chainRecent' = FALSE
    /\ sync' = [sync EXCEPT
                  !.last = [k \in Kinds |-> IF sync.last[k] = Never THEN Never
                                            ELSE LastCap],
                  !.started = StartCap, !.failure = FailCap]
    /\ UNCHANGED <<fulfilled, bcSynced, enabledAny, peerVars, resetDone>>

\* Block download brings the tip within the hour.
CatchUp ==
    /\ ~chainRecent
    /\ chainRecent' = TRUE
    /\ UNCHANGED <<sync, fulfilled, bcSynced, slept, enabledAny, disruptions,
                   peerVars, resetDone>>

\* The registry loses its last enabled node (expiry, or removal by
\* CheckAndRemove).
LoseAllEnabled ==
    /\ Disrupt
    /\ enabledAny
    /\ enabledAny' = FALSE
    /\ UNCHANGED <<sync, fulfilled, bcSynced, slept, chainRecent, peerVars,
                   resetDone>>

\* Peer p disconnects and reconnects: both CNode objects are new.
Reconnect(p) ==
    /\ Disrupt
    /\ fulfilled[p] # {} \/ servedFnget[p]
    /\ fulfilled' = [fulfilled EXCEPT ![p] = {}]
    /\ servedFnget' = [servedFnget EXCEPT ![p] = FALSE]
    /\ UNCHANGED <<sync, bcSynced, slept, chainRecent, enabledAny, penalised,
                   resetDone>>

Next ==
    \/ \E lockOk \in BOOLEAN, clearOk \in (IF ClearMayFail THEN BOOLEAN ELSE {TRUE}) :
         Tick(lockOk, clearOk)
    \/ \E k \in ItemKinds : Gossip(k)
    \/ Sleep
    \/ CatchUp
    \/ LoseAllEnabled
    \/ \E p \in Peers : Reconnect(p)

\* Process() runs every second on its own thread and gets cs_vNodes
\* infinitely often; block download continues while the node is up.  No
\* item is promised: a peer with an empty list, or one DsegUpdate skips as
\* asked within three hours, sends nothing, so Gossip gets no fairness.
Fairness ==
    /\ WF_vars(Tick(TRUE, TRUE))
    /\ WF_vars(CatchUp)

Spec == Init /\ [][Next]_vars /\ Fairness

-----------------------------------------------------------------------------
TypeOK ==
    /\ sync \in SyncState
    /\ fulfilled \in [Peers -> SUBSET {"getspork", "fnsync", "fnwsync", "busync"}]
    /\ bcSynced \in BOOLEAN /\ slept \in BOOLEAN /\ chainRecent \in BOOLEAN
    /\ enabledAny \in BOOLEAN
    /\ servedFnget \in [Peers -> BOOLEAN]
    /\ penalised \in BOOLEAN
    /\ disruptions \in 0..MaxDisruptions
    /\ resetDone \in BOOLEAN

\* The stage machine Process() and GetNextAsset() drive implements the
\* promised order of stages (SyncStages), with sync.asset as the stage.
Abstract == INSTANCE SyncStages WITH stage <- sync.asset
FollowsStageOrder == Abstract!Spec

\* Under SPORK_8 the sync is only FINISHED after this round of it has
\* counted both masternode broadcasts and payment winners (IsSynced() gates
\* payment enforcement): a LIST or MNW stage that saw nothing fails instead.
FinishedOnlyWithData ==
    sync.asset = FINISHED /\ Spork8Active =>
        sync.seen["mnb"] > 0 /\ sync.seen["mnw"] > 0

\* A sync that Process() has under way always comes to an end, FINISHED or
\* FAILED: it never stalls in SPORKS, LIST, MNW or BUDGET.
SyncTerminates ==
    sync.asset \notin {FINISHED, FAILED} ~> sync.asset \in {FINISHED, FAILED}

PenaltyOnlyAfterReset == penalised => resetDone
=============================================================================
