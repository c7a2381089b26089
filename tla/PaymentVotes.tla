---------------------------- MODULE PaymentVotes ----------------------------
(***************************************************************************)
(* The payment-vote ledger of one node: CProsperitynodePayments in         *)
(* src/src/prosperitynode-payments.{h,cpp}.                                *)
(*                                                                         *)
(* Masternodes sign "winner" votes (fnw messages) naming the payee they    *)
(* believe should be paid at a block height.  The modelled node receives   *)
(* them over gossip that may lose, duplicate and reorder them, tallies     *)
(* them per height (mapProsperitynodeBlocks), remembers them by content    *)
(* hash (mapProsperitynodePayeeVotes) and the last height each voter voted *)
(* at (mapProsperitynodesLastVote), casts its own vote (ProcessBlock),     *)
(* checks the payee of new blocks against the tally (IsTransactionValid), *)
(* prunes old votes (CleanPaymentList) and restarts, reloading the ledger  *)
(* from mnpayments.dat.                                                    *)
(*                                                                         *)
(* Data is abstracted: a signature is a flag saying whether the message    *)
(* was signed with the voter's operator key; a vote's hash is the triple   *)
(* (payee, height, voter) that GetHash serialises.                         *)
(***************************************************************************)
EXTENDS Integers, FiniteSets, Sequences, SequencesExt, TLC

CONSTANTS
    Voters,         \* collateral outpoints of masternodes that may vote
    Byzantine,      \* voters whose operator key an adversary holds
    Local,          \* this node's own masternode (activeProsperitynode.vin)
    Known,          \* voters this node's registry holds (mnodeman.Find)
    RankOf,         \* GetProsperitynodeRank of each voter; -1 when skipped
    Payees,         \* payee scripts of masternodes
    NoPayee,        \* CScript(): the payee of a vote with no winner
    VoteHeights,    \* heights that votes are signed for
    SigRequired,    \* MNPAYMENTS_SIGNATURES_REQUIRED
    SigTotal,       \* MNPAYMENTS_SIGNATURES_TOTAL
    EnabledCount,   \* mnodeman.CountEnabled()
    RegistrySize,   \* mnodeman.size()
    FutureWindow,   \* 20: how far above the tip a vote may be
    HashDepth,      \* 100: votes at h are ranked by the block at h - 100
    CleanMinDepth,  \* 1000: CleanPaymentList keeps at least this many blocks
    Spork8Active,   \* SPORK_8_PROSPERITYNODE_PAYMENT_ENFORCEMENT
    InitTip,        \* chain height when the model starts
    MaxTip,         \* bound: highest chain height explored
    MaxMsgs,        \* bound: number of distinct messages put on the network
    Enabled,        \* payees of masternodes that are enabled at a paying protocol
    InputOld,       \* payees whose collateral has at least CountEnabled() confirmations
    Young,          \* payees announced less than CountEnabled() * 2.6 minutes ago
    ScoreOf,        \* CalculateScore of each masternode (its hash distance)
    PayOffset,      \* GetLastPaid's tie-break offset: hash(vin, sigTime) % 150
    TieHash,        \* SecondsSincePayment's hash(vin, sigTime).GetCompact() when unpaid
    BlockSpacing,   \* seconds between blocks (nTargetSpacing)
    GenesisTime,    \* time of block 0
    Month,          \* 60 * 60 * 24 * 30
    LookAhead       \* 8: IsScheduled looks at the tip and 8 heights above it

Honest == Voters \ Byzantine
RemoteHonest == Honest \ {Local}

ASSUME /\ Byzantine \subseteq Voters /\ Known \subseteq Voters
       /\ Local \in Honest /\ NoPayee \notin Payees
       /\ RankOf \in [Voters -> {-1} \cup Nat]
       /\ InitTip \in Nat \ {0} /\ InitTip <= MaxTip
       /\ Enabled \subseteq Payees /\ Cardinality(Enabled) <= EnabledCount
       /\ ScoreOf \in [Payees -> Nat \ {0}]
       /\ \A p, q \in Payees : ScoreOf[p] = ScoreOf[q] => p = q
       /\ PayOffset \in [Payees -> 0..149] /\ TieHash \in [Payees -> Nat]
       /\ GenesisTime >= Month

NoVote == -1    \* no entry in mapProsperitynodesLastVote (heights are >= 0)

VARIABLES
    tip,             \* chainActive.Tip()->nHeight
    net,             \* every fnw message sent so far; any may be delivered, again and again
    votes,           \* mapProsperitynodePayeeVotes, as the set of vote hashes
    blocks,          \* mapProsperitynodeBlocks: height -> vecPayments
    lastVote,        \* mapProsperitynodesLastVote
    lastBlockHeight, \* nLastBlockHeight: last height this node voted for
    sentHeight,      \* nLastBlockHeight of every other honest masternode
    askedFor,        \* outpoints this node has asked its peers about (AskForMN)
    dropped          \* history: messages discarded because CanVote said "already voted"

vars == <<tip, net, votes, blocks, lastVote, lastBlockHeight, sentHeight, askedFor, dropped>>

Vote == [voter : Voters, height : Int, payee : Payees \cup {NoPayee}]
Msg == [voter : Voters, height : Int, payee : Payees \cup {NoPayee}, signed : BOOLEAN]

\* CProsperitynodePaymentWinner::GetHash: payee, height and voter, not the signature.
HashOf(m) == [voter |-> m.voter, height |-> m.height, payee |-> m.payee]

\* The fnw message carrying vote w, signed with the voter's operator key.
Signed(w) == [voter |-> w.voter, height |-> w.height, payee |-> w.payee, signed |-> TRUE]

\* Conversion of a non-negative-divisor quotient to int, rounding toward zero
\* as the C++ double-to-int conversion does.
TruncDiv(a, b) == IF a >= 0 THEN a \div b ELSE -((-a) \div b)

\* nHeight - (mnodeman.CountEnabled() * 1.25), converted to int.
FirstBlock(t) == TruncDiv(4 * t - 5 * EnabledCount, 4)

\* std::max(int(mnodeman.size() * 1.25), 1000)
CleanLimit == IF TruncDiv(5 * RegistrySize, 4) >= CleanMinDepth
              THEN TruncDiv(5 * RegistrySize, 4) ELSE CleanMinDepth

\* GetBlockHash(hash, h) succeeds: the walk back from the tip stops before
\* the genesis block, so heights 1 and tip + 2 and above are never found.
GetBlockHash(t, h) ==
    LET x == IF h = 0 THEN t ELSE h
    IN  /\ t # 0
        /\ x <= t + 1
        /\ x < 0 \/ x >= 2

\* GetProsperitynodeRank(vin, h - 100): -1 when that block is unknown.
Rank(v, h) == IF GetBlockHash(tip, h - HashDepth) THEN RankOf[v] ELSE -1

\* CProsperitynodePaymentWinner::IsValid, for a voter the registry knows.
IsValid(m) == Rank(m.voter, m.height) <= SigTotal

\* CProsperitynodePayments::CanVote: false when the voter's last recorded
\* height is this one; otherwise it records this height (see ReceiveWinner).
CanVote(m) == lastVote[m.voter] # m.height

\* Faulty variant of SignatureValid: finds the voter, skips the signature.
SignatureValidKeyOnly(m) == m.voter \in Known

\* CProsperitynodePaymentWinner::SignatureValid
SignatureValid(m) == m.voter \in Known /\ m.signed

\* Faulty variant of AddPayee: appends without looking for the payee.
AddPayeeAppendOnly(seq, p) == Append(seq, [payee |-> p, votes |-> 1])

\* Faulty variant of AddPayee: a new payee entry starts with no votes.
AddPayeeZeroStart(seq, p) ==
    IF \E i \in DOMAIN seq : seq[i].payee = p
    THEN LET i == CHOOSE j \in DOMAIN seq : seq[j].payee = p
         IN  [seq EXCEPT ![i].votes = @ + 1]
    ELSE Append(seq, [payee |-> p, votes |-> 0])

\* CProsperitynodeBlockPayees::AddPayee(payee, 1)
AddPayee(seq, p) ==
    IF \E i \in DOMAIN seq : seq[i].payee = p
    THEN LET i == CHOOSE j \in DOMAIN seq : seq[j].payee = p
         IN  [seq EXCEPT ![i].votes = @ + 1]
    ELSE Append(seq, [payee |-> p, votes |-> 1])

\* CProsperitynodePayments::AddWinningProsperitynode, when it returns true.
AddWinningProsperitynode(w) ==
    /\ GetBlockHash(tip, w.height - HashDepth)
    /\ w \notin votes
    /\ votes' = votes \cup {w}
    /\ blocks' = IF w.height \in DOMAIN blocks
                 THEN [blocks EXCEPT ![w.height] = AddPayee(@, w.payee)]
                 ELSE blocks @@ (w.height :> AddPayee(<<>>, w.payee))

\* The votes CleanPaymentList removes at tip t.
Stale(t) == {w \in votes : t - w.height > CleanLimit}

\* The ledger CleanPaymentList leaves at tip t.
CleanedVotes(t) == votes \ Stale(t)
CleanedBlocks(t) ==
    LET gone == {w.height : w \in Stale(t)}
    IN  [h \in DOMAIN blocks \ gone |-> blocks[h]]

\* CProsperitynodeBlockPayees::IsTransactionValid of payee list seq for a
\* coinstake paying p; amountOk: the payment is at least the required amount.
BlockPayeesValid(seq, p, amountOk) ==
    LET quorum == {e \in ToSet(seq) : e.votes >= SigRequired}
    IN  quorum = {} \/ (amountOk /\ \E e \in quorum : e.payee = p)

\* CProsperitynodePayments::IsTransactionValid: a height with no payee list
\* accepts any payee.
IsTransactionValid(h, p, amountOk) ==
    h \in DOMAIN blocks => BlockPayeesValid(blocks[h], p, amountOk)


\* Faulty variant of GetPayee: the first entry, whatever its votes.
GetPayeeFirst(seq) == seq[1].payee

\* CProsperitynodeBlockPayees::GetPayee on a non-empty list: the first
\* entry with the most votes (a later entry must have strictly more).
GetPayee(seq) ==
    LET top == CHOOSE i \in DOMAIN seq : \A j \in DOMAIN seq : seq[j].votes <= seq[i].votes
        i == CHOOSE k \in DOMAIN seq :
                seq[k].votes = seq[top].votes /\ \A j \in 1..(k - 1) : seq[j].votes < seq[k].votes
    IN  seq[i].payee

\* CProsperitynodePayments::GetBlockPayee(h): FALSE when nothing is tallied.
HasBlockPayee(h) == h \in DOMAIN blocks /\ blocks[h] # <<>>

\* CProsperitynodeBlockPayees::HasPayeeWithVotes
HasPayeeWithVotes(seq, p, n) == \E i \in DOMAIN seq : seq[i].payee = p /\ seq[i].votes >= n

\* nTime of the block at height hh; GetAdjustedTime() is taken as the tip's time.
BlockTime(hh) == GenesisTime + BlockSpacing * hh
Now == BlockTime(tip)

\* The loop of CProsperitynode::GetLastPaid from height hh after n steps:
\* at most int(CountEnabled() * 1.25) blocks, stopping above height 0, for
\* the first with at least 2 votes for p.
RECURSIVE LastPaidFrom(_, _, _)
LastPaidFrom(p, hh, n) ==
    IF hh <= 0 \/ n >= TruncDiv(5 * EnabledCount, 4) THEN 0
    ELSE IF hh \in DOMAIN blocks /\ HasPayeeWithVotes(blocks[hh], p, 2)
         THEN BlockTime(hh) + PayOffset[p]
         ELSE LastPaidFrom(p, hh - 1, n + 1)

\* CProsperitynode::GetLastPaid
GetLastPaid(p) == LastPaidFrom(p, tip, 0)

\* CProsperitynode::SecondsSincePayment
SecondsSincePayment(p) ==
    LET sec == Now - GetLastPaid(p)
    IN  IF sec < Month THEN sec ELSE Month + TieHash[p]

\* CProsperitynodePayments::IsScheduled(mn, nNotBlockHeight); locked: the
\* TRY_LOCK(cs_main) succeeded (it returns false when it does not).
IsScheduled(p, notHeight, locked) ==
    /\ locked
    /\ \E hh \in tip..(tip + LookAhead) :
          hh # notHeight /\ HasBlockPayee(hh) /\ GetPayee(blocks[hh]) = p

\* CProsperitynode::CalculateScore(1, h - 100): 0 when that block is unknown.
Score(p, h) == IF GetBlockHash(tip, h - HashDepth) THEN ScoreOf[p] ELSE 0

\* The masternodes GetNextProsperitynodeInQueueForPayment puts in its
\* vector; unlocked: those whose IsScheduled call failed to take cs_main.
QueueCandidates(h, filterSigTime, unlocked) ==
    {p \in Enabled \cap InputOld :
        /\ ~IsScheduled(p, h, p \notin unlocked)
        /\ ~(filterSigTime /\ p \in Young)}

\* The vector sorted high to low by seconds since payment; std::sort may
\* leave equal keys in any order.
SortedQueues(c) ==
    {s \in SetToSeqs(c) :
        \A i, j \in DOMAIN s : i < j => SecondsSincePayment(s[i]) >= SecondsSincePayment(s[j])}

\* The loop over the sorted vector: the best score among the first
\* CountEnabled() / 10 entries (at least one), the earliest on a tie.
RECURSIVE BestOfTenth(_, _, _, _, _)
BestOfTenth(s, h, best, high, k) ==
    IF s = <<>> THEN best
    ELSE LET sc == Score(Head(s), h)
             best2 == IF sc > high THEN Head(s) ELSE best
             high2 == IF sc > high THEN sc ELSE high
         IN  IF k + 1 >= EnabledCount \div 10 THEN best2
             ELSE BestOfTenth(Tail(s), h, best2, high2, k + 1)

\* The vector GetNextProsperitynodeInQueueForPayment(h, true) sorts: u1
\* and u2 are the failed TRY_LOCKs of the first pass and of the retry
\* without the sigTime filter, made when fewer than a third of the enabled
\* masternodes qualify.
QueueVector(h, u1, u2) ==
    IF Cardinality(QueueCandidates(h, TRUE, u1)) < EnabledCount \div 3
    THEN QueueCandidates(h, FALSE, u2)
    ELSE QueueCandidates(h, TRUE, u1)

\* CProsperitynodeMan::GetNextProsperitynodeInQueueForPayment(h, true):
\* the payees it may return over every outcome of the TRY_LOCKs and of the
\* sort (NoPayee for NULL).
GetNextInQueue(h) ==
    LET vectors == {QueueVector(h, u1, u2) : u1, u2 \in SUBSET Enabled}
    IN  UNION {{BestOfTenth(s, h, NoPayee, 0, 0) : s \in SortedQueues(c)} : c \in vectors}

\* CProsperitynodeMan::GetCurrentFundamentalNode(1): the enabled masternode
\* with the highest score, NoPayee (NULL) when none is enabled.
GetCurrentFundamentalNode ==
    IF Enabled = {} THEN NoPayee
    ELSE CHOOSE p \in Enabled : \A q \in Enabled : ScoreOf[q] <= ScoreOf[p]

\* The payee FillBlockPayee puts in a coinstake at tip + 1: the tallied
\* winner, else the current winning masternode, else no payment (NoPayee).
FillPayee ==
    IF HasBlockPayee(tip + 1) THEN GetPayee(blocks[tip + 1]) ELSE GetCurrentFundamentalNode

-----------------------------------------------------------------------------

Init ==
    /\ tip = InitTip
    /\ net = {}
    /\ votes = {}
    /\ blocks = [h \in {} |-> <<>>]
    /\ lastVote = [v \in Voters |-> NoVote]
    /\ lastBlockHeight = 0
    /\ sentHeight = [v \in RemoteHonest |-> 0]
    /\ askedFor = {}
    /\ dropped = {}

\* ProcessMessageProsperitynodePayments, "fnw": one delivery of message m.
\* A hash already in the ledger only counts towards sync progress, and a
\* voter ranked below the top SigTotal is ignored; neither changes the ledger.
ReceiveWinner(m) ==
    LET w == HashOf(m) IN
    /\ w \notin votes
    /\ FirstBlock(tip) <= m.height /\ m.height <= tip + FutureWindow
    /\ \/ /\ m.voter \notin Known                     \* IsValid: AskForMN
          /\ askedFor' = askedFor \cup {m.voter}
          /\ UNCHANGED <<votes, blocks, lastVote, dropped>>
       \/ /\ m.voter \in Known /\ IsValid(m)
          /\ \/ /\ ~CanVote(m)                         \* already voted
                /\ dropped' = dropped \cup {m}
                /\ UNCHANGED <<votes, blocks, lastVote, askedFor>>
             \/ /\ CanVote(m)                          \* records the vote
                /\ lastVote' = [lastVote EXCEPT ![m.voter] = m.height]
                /\ UNCHANGED dropped
                /\ \/ /\ ~SignatureValid(m)           \* bad signature: AskForMN
                      /\ askedFor' = askedFor \cup {m.voter}
                      /\ UNCHANGED <<votes, blocks>>
                   \/ /\ SignatureValid(m)
                      /\ AddWinningProsperitynode(w)
                      /\ UNCHANGED askedFor
                   \/ /\ SignatureValid(m)             \* no block hash at h - 100
                      /\ ~GetBlockHash(tip, m.height - HashDepth)
                      /\ UNCHANGED <<votes, blocks, askedFor>>
    /\ UNCHANGED <<tip, net, lastBlockHeight, sentHeight>>

\* CProsperitynodePayments::ProcessBlock(h) on this node, which is a
\* masternode.  The payee is the one GetNextProsperitynodeInQueueForPayment
\* picks; when it finds none (NoPayee) the vote keeps height 0 and the empty
\* payee, and is still signed, added and relayed.
ProcessBlock(h) ==
    /\ Local \in Known
    /\ Rank(Local, h) # -1 /\ Rank(Local, h) <= SigTotal
    /\ h > lastBlockHeight
    /\ \E p \in GetNextInQueue(h) :
          LET w == IF p = NoPayee
                   THEN [voter |-> Local, height |-> 0, payee |-> NoPayee]
                   ELSE [voter |-> Local, height |-> h, payee |-> p]
          IN  /\ AddWinningProsperitynode(w)
              /\ net' = net \cup {Signed(w)}
    /\ lastBlockHeight' = h
    /\ UNCHANGED <<tip, lastVote, sentHeight, askedFor, dropped>>

\* ProcessBlock(h) on another honest masternode: it signs one vote per
\* height, for increasing heights, and relays it.
RemoteVote(v, h, p) ==
    /\ h > sentHeight[v]
    /\ net' = net \cup {IF p = NoPayee
                        THEN Signed([voter |-> v, height |-> 0, payee |-> NoPayee])
                        ELSE Signed([voter |-> v, height |-> h, payee |-> p])}
    /\ sentHeight' = [sentHeight EXCEPT ![v] = h]
    /\ UNCHANGED <<tip, votes, blocks, lastVote, lastBlockHeight, askedFor, dropped>>

\* A masternode whose operator key the adversary holds signs any vote.
ByzantineVote(v, h, p) ==
    /\ net' = net \cup {Signed([voter |-> v, height |-> h, payee |-> p])}
    /\ UNCHANGED <<tip, votes, blocks, lastVote, lastBlockHeight, sentHeight, askedFor, dropped>>

\* Any peer sends a vote in another masternode's name without its key.
\* (Forging for an unknown voter ends at IsValid like any vote of it, and
\* votes in this node's own name are never checked by it, so the model
\* forges for known remote honest masternodes.)
ForgedVote(v, h, p) ==
    /\ net' = net \cup {[voter |-> v, height |-> h, payee |-> p, signed |-> FALSE]}
    /\ UNCHANGED <<tip, votes, blocks, lastVote, lastBlockHeight, sentHeight, askedFor, dropped>>

\* A block at tip + 1 whose coinstake pays p arrives; IsBlockPayeeValid
\* (this node synced, no superblock) accepts it when
\* IsTransactionValid holds or SPORK_8 is off.
NewBlock(p, amountOk) ==
    /\ tip < MaxTip
    /\ IsTransactionValid(tip + 1, p, amountOk) \/ ~Spork8Active
    /\ tip' = tip + 1
    /\ UNCHANGED <<net, votes, blocks, lastVote, lastBlockHeight, sentHeight, askedFor, dropped>>

\* This node stakes the block at tip + 1: FillBlockPayee pays FillPayee,
\* and the block passes through the same IsBlockPayeeValid check.  The
\* amount is computed by the same GetProsperitynodePayment as is checked.
LocalStake ==
    /\ tip < MaxTip
    /\ IsTransactionValid(tip + 1, FillPayee, TRUE) \/ ~Spork8Active
    /\ tip' = tip + 1
    /\ UNCHANGED <<net, votes, blocks, lastVote, lastBlockHeight, sentHeight, askedFor, dropped>>

\* CProsperitynodePayments::CleanPaymentList
CleanPaymentList ==
    /\ Stale(tip) # {}
    /\ votes' = CleanedVotes(tip)
    /\ blocks' = CleanedBlocks(tip)
    /\ UNCHANGED <<tip, net, lastVote, lastBlockHeight, sentHeight, askedFor, dropped>>

\* This node restarts: mnpayments.dat gives back the two maps it stores,
\* CProsperitynodePaymentDB::Read cleans them, and mapProsperitynodesLastVote
\* and nLastBlockHeight, which are not stored, start empty.
RestartLocal ==
    /\ votes' = CleanedVotes(tip)
    /\ blocks' = CleanedBlocks(tip)
    /\ lastVote' = [v \in Voters |-> NoVote]
    /\ lastBlockHeight' = 0
    /\ UNCHANGED <<tip, net, sentHeight, askedFor, dropped>>

\* Another honest masternode restarts and forgets its nLastBlockHeight.
RestartRemote(v) ==
    /\ sentHeight[v] # 0
    /\ sentHeight' = [sentHeight EXCEPT ![v] = 0]
    /\ UNCHANGED <<tip, net, votes, blocks, lastVote, lastBlockHeight, askedFor, dropped>>

CanSend == Cardinality(net) < MaxMsgs

Next ==
    \/ \E m \in net : ReceiveWinner(m)
    \/ \E h \in VoteHeights : ProcessBlock(h) /\ CanSend
    \/ LocalStake
    \/ \E v \in RemoteHonest, h \in VoteHeights, p \in Payees \cup {NoPayee} :
          RemoteVote(v, h, p) /\ CanSend
    \/ \E v \in Byzantine, h \in VoteHeights, p \in Payees : ByzantineVote(v, h, p) /\ CanSend
    \/ \E v \in RemoteHonest \cap Known, h \in VoteHeights, p \in Payees :
          ForgedVote(v, h, p) /\ CanSend
    \/ \E p \in Payees, ok \in BOOLEAN : NewBlock(p, ok)
    \/ CleanPaymentList
    \/ RestartLocal
    \/ \E v \in RemoteHonest : RestartRemote(v)

Spec == Init /\ [][Next]_vars

-----------------------------------------------------------------------------

TypeOK ==
    /\ tip \in InitTip..MaxTip
    /\ net \subseteq Msg
    /\ votes \subseteq Vote
    /\ \A h \in DOMAIN blocks :
          blocks[h] \in Seq([payee : Payees \cup {NoPayee}, votes : Nat \ {0}])
    /\ lastVote \in [Voters -> {NoVote} \cup Int]
    /\ lastBlockHeight \in {0} \cup VoteHeights
    /\ sentHeight \in [RemoteHonest -> {0} \cup VoteHeights]
    /\ askedFor \subseteq Voters
    /\ dropped \subseteq Msg

\* A block this node stakes pays the payee the tally enforces: the winner
\* FillBlockPayee takes from GetPayee (or, with nothing tallied, from
\* GetCurrentFundamentalNode) always passes this node's own
\* IsTransactionValid for that height, whatever votes have arrived.
OwnBlockPayeeValid ==
    tip < MaxTip => IsTransactionValid(tip + 1, FillPayee, TRUE)

\* Votes for payee p at height h held in the ledger.
VotesFor(h, p) == {w \in votes : w.height = h /\ w.payee = p}

\* The tally of every height lists each payee once, with exactly as many
\* votes as the ledger holds for it, and every held vote is tallied:
\* AddWinningProsperitynode, AddPayee and CleanPaymentList keep
\* mapProsperitynodeBlocks and mapProsperitynodePayeeVotes in step through
\* duplicates, pruning and restarts.
TallyMatchesVotes ==
    /\ \A h \in DOMAIN blocks :
          /\ \A i, j \in DOMAIN blocks[h] : blocks[h][i].payee = blocks[h][j].payee => i = j
          /\ \A i \in DOMAIN blocks[h] :
                blocks[h][i].votes = Cardinality(VotesFor(h, blocks[h][i].payee))
    /\ \A w \in votes :
          /\ w.height \in DOMAIN blocks
          /\ \E i \in DOMAIN blocks[w.height] : blocks[w.height][i].payee = w.payee

\* A payee whose tally reaches MNPAYMENTS_SIGNATURES_REQUIRED at a height
\* has been signed for, at that height, by at least that many honest
\* masternodes less the number the adversary controls: forged fnw messages,
\* replays and votes from restarted nodes cannot make IsTransactionValid
\* enforce a payee the honest voters did not choose.
QuorumNeedsHonestSupport ==
    \A h \in DOMAIN blocks : \A i \in DOMAIN blocks[h] :
       blocks[h][i].votes >= SigRequired =>
          Cardinality({v \in Honest :
              Signed([voter |-> v, height |-> h, payee |-> blocks[h][i].payee]) \in net})
            >= SigRequired - Cardinality(Byzantine)

\* Of the votes received from peers, the ledger holds at most one per
\* masternode and height: the "already voted" check of CanVote (spec:
\* one vote per height per voter; this node's own votes skip CanVote).
OneVotePerHeight ==
    \A w1, w2 \in votes :
       w1.voter # Local /\ w1.voter = w2.voter /\ w1.height = w2.height => w1 = w2

\* An honest masternode's signed vote is discarded by CanVote as a second
\* vote only when the ledger already holds its vote at that height.
HonestVoteNotSuppressed ==
    \A m \in dropped :
       m.voter \in Honest /\ m.signed =>
          \E w \in votes : w.voter = m.voter /\ w.height = m.height

\* Every vote the ledger counts comes from a masternode ranked within the
\* top MNPAYMENTS_SIGNATURES_TOTAL, as IsValid's rank check intends.
OnlyTopRankedVotesCounted ==
    \A w \in votes : RankOf[w.voter] \in 1..SigTotal
=============================================================================
