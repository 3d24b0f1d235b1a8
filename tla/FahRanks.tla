------------------------------ MODULE FahRanks ------------------------------
(***************************************************************************)
(* FahRankScheduler of FAH-QLoRA as operators: the average rank of the     *)
(* next round (Stage 1) and the rank of every worker for that average      *)
(* (Stage 2), by the optimizer with rounding or by the heuristic.          *)
(*                                                                         *)
(* Losses and times are data: of them remain the sign of the gradient and  *)
(* the order of the workers by their time per rank unit (B_n), which       *)
(* changes with their bandwidth, and both are arbitrary.  Average ranks    *)
(* are integers because the steps lambda_dec and lambda_inc are (1 in      *)
(* every configuration).                                                   *)
(***************************************************************************)
EXTENDS Integers, SequencesExt

CONSTANTS
  Clients,   \* the workers
  RMin,      \* fah.r_min
  RMax,      \* fah.r_max
  InitRank,  \* fah.init_rank
  RankCap,   \* client_rank_caps, RMax for a worker without an entry
  LambdaDec, \* fah.lambda_dec
  LambdaInc, \* fah.lambda_inc
  Grain      \* bound: the optimizer's solutions are multiples of 1/Grain

ASSUME RanksAssumption ==
  /\ IsFiniteSet(Clients)
  /\ Clients # {}
  /\ InitRank \in RMin .. RMax
  /\ RankCap \in [Clients -> Int]
  /\ {RMin, RMax, LambdaDec, LambdaInc, Grain} \subseteq Nat \ {0}

N == Cardinality(Clients)

\* The idiom max(low, min(high, x)).
Clamp(low, high, x) == Max({low, Min({high, x})})

\* _get_client_rank_cap
Cap(c) == Clamp(RMin, RMax, RankCap[c])

Total(ranks) == SumFunction(ranks)

MaxTotal == Total([c \in Clients |-> Cap(c)])

\* a / b rounded as Python and NumPy do: half to even.
Round(a, b) ==
  LET q == a \div b
      r == 2 * (a % b)
  IN  IF r < b \/ (r = b /\ q % 2 = 0) THEN q ELSE q + 1

\* The evaluation rank that goes with a training rank.
HatRank(c, rank) == Clamp(RMin, Cap(c), rank - 1)

\* Ranks before the first assignment.
WarmupRank(c) == Clamp(RMin, Cap(c), Min({InitRank, Cap(c)}))

-----------------------------------------------------------------------------
(* Stage 1.                                                                *)

\* update_average_rank, equation (11).
NextAverage(avg, sign) ==
  Clamp(RMin, RMax, CASE sign > 0 -> avg - LambdaDec
                      [] sign < 0 -> avg + LambdaInc
                      [] sign = 0 -> avg)

NextHatAverageBelowMin(avg) == avg - 1

\* The evaluation counterpart of the average rank.
NextHatAverage(avg) == Max({RMin, avg - 1})

\* The signs equation (10) may have: none when the denominator is zero.
Signs(avg, hatAvg) == IF avg = hatAvg THEN {0} ELSE {-1, 0, 1}

-----------------------------------------------------------------------------
(* Stage 2.                                                                *)

\* _get_feasible_stage2_target
FeasibleTarget(avg) == Clamp(N * RMin, MaxTotal, N * avg)

ShiftBeyondCap(order, ranks, diff, steps) ==
  LET unit == IF diff > 0 THEN 1 ELSE -1
      turn == IF diff > 0 THEN order ELSE Reverse(order)
      after[i \in 0 .. steps] ==
        IF i = 0 THEN [ranks |-> ranks, diff |-> diff]
        ELSE LET s == after[i - 1]
                 c == turn[((i - 1) % N) + 1]
             IN  IF s.diff # 0 /\ s.ranks[c] + unit \in RMin .. RMax
                   THEN [ranks |-> [s.ranks EXCEPT ![c] = @ + unit],
                         diff  |-> s.diff - unit]
                   ELSE s
  IN  after[steps].ranks

\* The loop all three procedures share: at most steps turns, round robin in order
\* to hand out diff units, and in reverse to take them back, each within its range.
Shift(order, ranks, diff, steps) ==
  LET unit == IF diff > 0 THEN 1 ELSE -1
      turn == IF diff > 0 THEN order ELSE Reverse(order)
      after[i \in 0 .. steps] ==
        IF i = 0 THEN [ranks |-> ranks, diff |-> diff]
        ELSE LET s == after[i - 1]
                 c == turn[((i - 1) % N) + 1]
             IN  IF s.diff # 0 /\ s.ranks[c] + unit \in RMin .. Cap(c)
                   THEN [ranks |-> [s.ranks EXCEPT ![c] = @ + unit],
                         diff  |-> s.diff - unit]
                   ELSE s
  IN  after[steps].ranks

\* The workers in every order.
Orders == SetToSeqs(Clients)

\* Turns enough for every worker to go from RMin to its cap one at a time.
AllTurns == Max({1, MaxTotal - N * RMin}) * N

SlowestFirst(order, target) ==
  LET seed == [c \in Clients |-> Clamp(RMin, Cap(c), Round(target, N))]
  IN  Shift(Reverse(order), seed, target - Total(seed), AllTurns)

\* _solve_p1_heuristic, with the workers in the order of their time per rank unit.
Heuristic(order, target) ==
  LET seed == [c \in Clients |-> Clamp(RMin, Cap(c), Round(target, N))]
  IN  Shift(order, seed, target - Total(seed), AllTurns)

\* What the optimizer of _solve_p1_cvxpy may return, in units of 1/Grain: of all
\* points that meet its constraints it takes a fastest one, by times that are data.
Solutions(target) ==
  {x \in [Clients -> Grain * RMin .. Grain * RMax] :
     /\ \A c \in Clients : x[c] <= Grain * Cap(c)
     /\ Total(x) = Grain * target}

\* _round_to_valid_integers: the largest residuals first; ties in any order.
Rounded(target) ==
  UNION {LET near     == [c \in Clients |-> Clamp(RMin, Cap(c), Round(x[c], Grain))]
             resid(c) == x[c] - Grain * near[c]
         IN  {Shift(order, near, target - Total(near), N) :
                order \in {o \in Orders : \A i \in 1 .. N - 1 :
                             resid(o[i]) >= resid(o[i + 1])}}
         : x \in Solutions(target)}

\* _redistribute_deficit_under_caps: only a deficit is handed out.
Redistribute(order, ranks, target) ==
  Shift(order, ranks, Max({0, target - Total(ranks)}), AllTurns)

\* solve_p1_for_round: the ranks it may assign for this average rank.
Assignments(avg) ==
  LET target  == FeasibleTarget(avg)
      optimal == Rounded(target)
  IN  UNION {{Redistribute(order, [c \in Clients |-> Clamp(RMin, Cap(c), ranks[c])], target) :
                ranks \in optimal \cup {Heuristic(order, target)}}
             : order \in Orders}

\* The same for every average rank, so that TLC computes it once.
Plans == [avg \in RMin .. RMax |-> Assignments(avg)]
=============================================================================
