------------------------------ MODULE ScoreRank ------------------------------
(***************************************************************************)
(* The score rankings of CProsperitynodeMan (src/src/prosperitynodeman.cpp):*)
(* GetProsperitynodeRank, which the payment votes are judged by (IsValid,  *)
(* ProcessBlock), GetProsperitynodeRanks, which the "prosperitynode list   *)
(* rank" RPC prints, and GetProsperitynodeByRank.  Each one filters        *)
(* vProsperitynodes, keys every entry left by the compact form of its      *)
(* CalculateScore, sorts the keys from highest to lowest and counts        *)
(* positions from 1.                                                       *)
(*                                                                         *)
(* The operators are pure.  A registry is a function from the vins it      *)
(* holds to what the rankings read of each record.  std::sort is not       *)
(* stable and the order of vProsperitynodes differs from node to node, so  *)
(* entries with equal keys may come out in any order: each ranking is the  *)
(* set of results that the orders of its input can produce.                *)
(***************************************************************************)
EXTENDS Integers, FiniteSets, Sequences, SequencesExt

\* Bounded inputs: three masternodes and scores 1..4 (CalculateScore is 0
\* only when the block is unknown, which is a parameter of its own).
RankVins == {"m1", "m2", "m3"}
ScoreValues == 1..4
NoMN == "none"      \* NULL

\* What the rankings read of a record: protocolVersion below
\* ActiveProtocol(), sigTime less than MN_WINNER_MINIMUM_AGE ago,
\* IsEnabled() after the Check() they run, and CalculateScore(1, h).
RankEntry == [old : BOOLEAN, young : BOOLEAN, enabled : BOOLEAN, score : ScoreValues]
Registries == UNION {[S -> RankEntry] : S \in SUBSET RankVins}

\* uint256::GetCompact(false): the byte length of the score and its top 23
\* bits, an order-preserving map that sends scores differing only in their
\* low bits to one key.  Here it drops the lowest bit.  Every nonzero
\* score's key is above 9999, the key GetProsperitynodeRanks gives a record
\* that is not enabled (DisabledKey), since its length byte is at least 1.
CompactDrop == 2
DisabledKey == 1
Compact(s) == DisabledKey + 1 + s \div CompactDrop

\* The "continue" filters on protocolVersion < minProtocol; minActive says
\* minProtocol is ActiveProtocol() rather than the default 0.
Current(reg, w, minActive) == ~(minActive /\ reg[w].old)

\* Faulty variant of CompareScoreTxIn: sort(v.begin(), v.end(), ...), the
\* lowest key first.
CompareScoreTxInForward(key, s) == \A i \in 1..Len(s) - 1 : key[s[i]] <= key[s[i + 1]]

\* sort(v.rbegin(), v.rend(), CompareScoreTxIn()) and the same with
\* CompareScoreMN: both compare the keys alone, so a result is any order of
\* the vins from the highest key to the lowest, with ties in any order.
CompareScoreTxIn(key, s) == \A i \in 1..Len(s) - 1 : key[s[i]] >= key[s[i + 1]]

SortedByScore(key) == {s \in SetToSeqs(DOMAIN key) : CompareScoreTxIn(key, s)}

\* The loop "rank++; if (s.second.prevout == vin.prevout) return rank;"
\* after the sort, and its "return -1".
PositionOf(s, v) ==
    LET i == SelectInSeq(s, LAMBDA x : x = v) IN IF i = 0 THEN -1 ELSE i

\* GetProsperitynodeRank(vin, h, minProtocol, fOnlyActive): -1 when the
\* block at h is unknown; otherwise the position of v among the records of
\* a current protocol that, with SPORK_8 on, are at least
\* MN_WINNER_MINIMUM_AGE old and, with fOnlyActive, enabled.
GetProsperitynodeRank(reg, v, minActive, fOnlyActive, spork8, hashKnown) ==
    LET kept == {w \in DOMAIN reg : /\ Current(reg, w, minActive)
                                   /\ (spork8 => ~reg[w].young)
                                   /\ (fOnlyActive => reg[w].enabled)}
        key == [w \in kept |-> Compact(reg[w].score)]
    IN  IF ~hashKnown THEN {-1} ELSE {PositionOf(s, v) : s \in SortedByScore(key)}

\* GetProsperitynodeRanks(h, minProtocol): empty when the block at h is
\* unknown; otherwise every record of a current protocol, the ones not
\* enabled keyed 9999, listed in sorted order with rank = position.
GetProsperitynodeRanks(reg, minActive, hashKnown) ==
    LET kept == {w \in DOMAIN reg : Current(reg, w, minActive)}
        key == [w \in kept |-> IF reg[w].enabled THEN Compact(reg[w].score)
                               ELSE DisabledKey]
    IN  IF ~hashKnown THEN {<<>>} ELSE SortedByScore(key)

\* GetProsperitynodeByRank(n, h, minProtocol, fOnlyActive): no block test
\* (CalculateScore gives every record 0 when the block is unknown) and no
\* SPORK_8 age filter; the record at position n, or NULL.
GetProsperitynodeByRank(reg, n, minActive, fOnlyActive, hashKnown) ==
    LET kept == {w \in DOMAIN reg : /\ Current(reg, w, minActive)
                                   /\ (fOnlyActive => reg[w].enabled)}
        key == [w \in kept |-> IF hashKnown THEN Compact(reg[w].score) ELSE 0]
    IN  {IF n \in 1..Len(s) THEN s[n] ELSE NoMN : s \in SortedByScore(key)}

-----------------------------------------------------------------------------
\* The ranking the code means: among the masternodes the filters keep, 1 +
\* the number whose score (not its compact form) is higher.
RefRank(reg, v, minActive, spork8) ==
    LET kept == {w \in DOMAIN reg : /\ Current(reg, w, minActive)
                                   /\ (spork8 => ~reg[w].young)
                                   /\ reg[w].enabled}
    IN  IF v \in kept
        THEN 1 + Cardinality({w \in kept : reg[w].score > reg[v].score})
        ELSE -1

\* No two records share a compact key.
DistinctKeys(reg) ==
    \A w1, w2 \in DOMAIN reg : w1 # w2 => Compact(reg[w1].score) # Compact(reg[w2].score)

\* When no two masternodes share a compact score key, the three rankings
\* compute the reference ranking, for the block at h known or not, on
\* every registry of up to three records: GetProsperitynodeRank as the
\* payment code calls it (ActiveProtocol(), only active, SPORK_8 on or off);
\* GetProsperitynodeByRank, its inverse when SPORK_8 is off and the block
\* is known; and the "list rank" RPC's GetProsperitynodeRanks (minProtocol
\* 0), which lists every enabled masternode at its reference rank, ahead of
\* the ones not enabled.  With the block unknown, every rank is -1 and the
\* list is empty.
RankingsMatch(hashKnown) ==
    \A reg \in Registries : DistinctKeys(reg) =>
       \A v \in RankVins :
          /\ \A spork8 \in BOOLEAN :
                GetProsperitynodeRank(reg, v, TRUE, TRUE, spork8, hashKnown)
                  = {IF hashKnown THEN RefRank(reg, v, TRUE, spork8) ELSE -1}
          /\ hashKnown /\ RefRank(reg, v, TRUE, FALSE) # -1 =>
                GetProsperitynodeByRank(reg, RefRank(reg, v, TRUE, FALSE), TRUE, TRUE, TRUE) = {v}
          /\ \A s \in GetProsperitynodeRanks(reg, FALSE, hashKnown) :
                v \in DOMAIN reg /\ reg[v].enabled /\ hashKnown
                  => PositionOf(s, v) = RefRank(reg, v, FALSE, FALSE)
          /\ ~hashKnown => GetProsperitynodeRanks(reg, FALSE, hashKnown) = {<<>>}

\* The two cases, each evaluated once.
RankingsMatchKnown == RankingsMatch(TRUE)
RankingsMatchUnknown == RankingsMatch(FALSE)
====
