-------------------------- MODULE MC_PaymentVotes --------------------------
(***************************************************************************)
(* Instantiation of PaymentVotes for TLC.  Four masternodes: this node l,  *)
(* an honest peer h1, a masternode b whose key the adversary holds, and an *)
(* honest masternode u this node's registry does not know yet.  Three      *)
(* masternodes are enabled; two of them, paying pA and pB, are old enough  *)
(* to be paid.  The block constants are scaled down with their order kept: *)
(* FutureWindow (20) < HashDepth (100) < CleanLimit (>= 1000 blocks)       *)
(* becomes 1 < 2 <= 2.                                                     *)
(***************************************************************************)
EXTENDS PaymentVotes, ScoreRank

CONSTANTS l, h1, b, u, pA, pB, none

MCVoters == {l, h1, b, u}
MCKnown == {l, h1, b}
MCRankOf == (l :> 1) @@ (h1 :> 2) @@ (b :> 1) @@ (u :> 3)
\* b was announced less than MN_WINNER_MINIMUM_AGE ago: with SPORK_8 on,
\* GetProsperitynodeRank skips it and returns -1.
MCRankOfYoung == (l :> 1) @@ (h1 :> 2) @@ (b :> -1) @@ (u :> 3)
MCPayees == {pA, pB}
MCVoteHeights == 4..5
\* Only the height whose block at h - HashDepth this node always has: a
\* vote then never passes CanVote without being added for want of a block.
MCVoteHeightsKnown == {5}

\* pB was announced within the last CountEnabled() * 2.6 minutes, so the
\* first pass of the payment queue leaves it out.
MCYoung == {pB}
\* Payee scripts are not interchangeable: their hashes order the queue.
\* pA's tie-break offset exceeds pB's by two block spacings (90 s).
MCScoreOf == (pA :> 2) @@ (pB :> 1)
MCPayOffset == (pA :> 100) @@ (pB :> 10)
MCTieHash == (pA :> 7) @@ (pB :> 3)

\* At every height votes are signed for, the rank IsValid and ProcessBlock
\* read of the block at h - 100, as this node's chain has it (known or
\* not), is the reference ranking: GetProsperitynodeRank and the other
\* rankings of ScoreRank agree with it on every small registry whose
\* compact score keys are distinct.
RankMatchesReference ==
    \A h \in VoteHeights :
        IF GetBlockHash(tip, h - HashDepth) THEN RankingsMatchKnown ELSE RankingsMatchUnknown
=============================================================================
