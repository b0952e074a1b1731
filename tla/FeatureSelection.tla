--------------------------- MODULE FeatureSelection ---------------------------
(***************************************************************************)
(* Where a keyframe gets its new features: GoodFeaturesToTrackDetector on  *)
(* the CPU, which goes through the bins of the image, and GPUSelection,    *)
(* which goes through the local maxima by strength.  A pixel is a pair, a  *)
(* strength a small number.                                                *)
(***************************************************************************)
EXTENDS Integers, FiniteSets, SequencesExt, FiniteSetsExt

CONSTANTS
  Width, Height,  \* of the image
  BinsX, BinsY,   \* nBinX, nBinY
  Burn,           \* burnHalfSize, FLT_WINDOW_HALF_WIDTH
  Block,          \* DSMP_TIMES
  Tile,           \* GFTT_BLOCK_SIZE
  MaxStrength,    \* bound of the strength
  Wanted          \* values of desiredNewFeaturesCount

VARIABLES
  input,     \* [impl, strength, masked, alive, desired]
  bin,       \* the bin in hand, CPU
  heap,      \* pixels that are still to be looked at
  burnt,     \* mask_
  added,     \* nAdded of each bin
  selected,  \* newSelectedFeatures
  done

vars == <<input, bin, heap, burnt, added, selected, done>>

Pixel == (0 .. Width - 1) \X (0 .. Height - 1)
Bin == 0 .. BinsX * BinsY - 1
BinW == Width \div BinsX
BinH == Height \div BinsY

Near(p, q, d) == p[1] - q[1] \in -d .. d /\ p[2] - q[2] \in -d .. d

Sum(f, s) == FoldSet(LAMBDA p, acc : acc + f[p], 0, s)

\* The bin of a pixel; the pixels beyond the last whole bin have none.
BinOf(p) ==
  IF p[1] < BinW * BinsX /\ p[2] < BinH * BinsY THEN (p[2] \div BinH) * BinsX + p[1] \div BinW ELSE -1

PixelsOf(b) == {p \in Pixel : BinOf(p) = b}

\* mask: the pixels around a feature
Burns(s) == {p \in Pixel : \E q \in s : Near(p, q, Burn)}

\* isMaximum3x3, non_max_suppression
IsMaximum(strength, p) == \A q \in Pixel : Near(p, q, 1) => strength[q] <= strength[p]

\* cutBinFromGFFT: a pixel that is weaker than its left neighbour in the bin is left out.
CutBin(strength, b) ==
  {p \in PixelsOf(b) : <<p[1] - 1, p[2]>> \in PixelsOf(b) => strength[p] >= strength[<<p[1] - 1, p[2]>>]}

\* accumulateGFTT adds the whole of a tile to the bin of its centre.
TileBin(p) ==
  LET centre(x) == (x \div Tile) * Tile + Tile \div 2
      bx == centre(p[1]) \div BinW
      by == centre(p[2]) \div BinH
  IN IF bx < BinsX /\ by < BinsY THEN by * BinsX + bx ELSE -1

\* accGFTT, bins_array_
Goodness(i, b) ==
  Sum(i.strength, IF i.impl = "cpu" THEN PixelsOf(b) ELSE {p \in Pixel : TileBin(p) = b})

Total(i) == Sum([b \in Bin |-> Goodness(i, b)], Bin)

Rounded(n, d) == (2 * n + d) \div (2 * d)

\* isInside: the bin and the first row and column after it
InsideBin(p, b) ==
  LET x == (b % BinsX) * BinW
      y == (b \div BinsX) * BinH
  IN p[1] \in x .. x + BinW /\ p[2] \in y .. y + BinH

\* nFeaturesFromPrevFrame
Previous(i, b) ==
  Cardinality({p \in i.alive : IF i.impl = "cpu" THEN InsideBin(p, b) ELSE BinOf(p) = b})

\* Every bin may have all the features that are asked for.
Quota_all(i, b) == i.desired

\* nFeatures: every bin has the share of its strength.
Quota(i, b) ==
  LET expected == Rounded((Cardinality(i.alive) + i.desired) * Goodness(i, b), Total(i))
  IN IF Total(i) = 0 \/ expected <= Previous(i, b) THEN 0 ELSE expected - Previous(i, b)

\* non_max_suppression
LocalMaxima(i) == {p \in Pixel : IsMaximum(i.strength, p)}

\* filter_maximums: nothing stays around the tracks that are alive.
Filtered(i) == LocalMaxima(i) \ Burns(i.alive)

\* downsample_gftt_x8: the strongest pixel of a block, of those equal the first one
Strongest(strength, s) ==
  LET first(p, q) == p[2] < q[2] \/ (p[2] = q[2] /\ p[1] <= q[1])
  IN {p \in s : \A q \in s : strength[q] < strength[p] \/ (strength[q] = strength[p] /\ first(p, q))}

\* select_features: those of the whole blocks that have any strength
Maxima(i) ==
  LET block(x, y) == {p \in Filtered(i) : p[1] \div Block = x /\ p[2] \div Block = y}
      strongest == UNION {Strongest(i.strength, block(x, y)) :
                            x \in 0 .. Width \div Block - 1, y \in 0 .. Height \div Block - 1}
  IN {p \in strongest : i.strength[p] > 0}

-----------------------------------------------------------------------------
Init ==
  /\ input \in [impl : {"cpu", "gpu"}, strength : [Pixel -> 0 .. MaxStrength],
                masked : {{}, {<<0, 0>>}}, alive : {{}} \cup {{p} : p \in Pixel}, desired : Wanted]
  /\ input.masked = {} \/ input.alive = {}   \* a bound of the model
  /\ bin = 0
  /\ heap = IF input.impl = "cpu" THEN CutBin(input.strength, 0) ELSE Maxima(input)
  /\ burnt = input.masked \cup (IF input.impl = "cpu" THEN Burns(input.alive) ELSE {})
  /\ added = [b \in Bin |-> 0]
  /\ selected = <<>>
  /\ done = FALSE

\* Any pixel that is left
Best_any == heap

\* The strongest of the pixels that are left; equal ones in any order
Best == {p \in heap : \A q \in heap : input.strength[q] <= input.strength[p]}

\* An accepted pixel leaves its surroundings free.
BurnAfter_none(p) == burnt

\* mask(c, burnHalfSize)
BurnAfter(p) == burnt \cup Burns({p})

\* One feature too many is needed to stop.
Enough_late(s) == Len(s) > input.desired

\* newSelectedFeatures.size() == desiredNewFeaturesCount
Enough(s) == Len(s) = input.desired

\* selectFeatures takes the best pixel of a bin.
TakeOnCPU ==
  /\ ~done /\ input.impl = "cpu"
  /\ heap # {} /\ added[bin] < Quota(input, bin)
  /\ \E p \in Best :
       /\ heap' = heap \ {p}
       /\ IF p \in burnt \/ ~IsMaximum(input.strength, p)
          THEN UNCHANGED <<burnt, added, selected, done>>
          ELSE /\ selected' = Append(selected, p)
               /\ done' = Enough(selected')
               /\ burnt' = BurnAfter(p)
               /\ added' = [added EXCEPT ![bin] = @ + 1]
  /\ UNCHANGED <<input, bin>>

\* The bin has no pixel left or enough features.
NextBin ==
  /\ ~done /\ input.impl = "cpu"
  /\ heap = {} \/ added[bin] >= Quota(input, bin)
  /\ IF bin + 1 \in Bin
     THEN bin' = bin + 1 /\ heap' = CutBin(input.strength, bin + 1) /\ UNCHANGED done
     ELSE done' = TRUE /\ UNCHANGED <<bin, heap>>
  /\ UNCHANGED <<input, burnt, added, selected>>

\* newSelectedFeatures.size() < num_desired_new_features
Room(s) == Len(s) < input.desired

\* computeGFTTAndSelectFeatures goes on with the strongest maximum.
TakeOnGPU ==
  /\ ~done /\ input.impl = "gpu"
  /\ IF heap = {} THEN done' = TRUE /\ UNCHANGED <<heap, added, selected>>
     ELSE \E p \in Best :
            /\ heap' = heap \ {p}
            /\ IF p \in burnt \/ BinOf(p) = -1 \/ added[BinOf(p)] >= Quota(input, BinOf(p))
               THEN UNCHANGED <<added, selected, done>>
               ELSE /\ added' = [added EXCEPT ![BinOf(p)] = @ + 1]
                    /\ IF Room(selected) THEN selected' = Append(selected, p) /\ UNCHANGED done
                       ELSE done' = TRUE /\ UNCHANGED selected
  /\ UNCHANGED <<input, bin, burnt>>

Next == TakeOnCPU \/ NextBin \/ TakeOnGPU

Spec == Init /\ [][Next]_vars

-----------------------------------------------------------------------------
(* Properties                                                              *)

\* Features are local maxima outside of the mask, away from the tracks that are alive, and on
\* the CPU from one another.
FeaturesApart ==
  /\ \A p \in ToSet(selected) :
       /\ p \notin input.masked /\ IsMaximum(input.strength, p)
       /\ \A q \in input.alive : ~Near(p, q, Burn)
  /\ \A i, j \in DOMAIN selected :
       i # j => IF input.impl = "cpu" THEN ~Near(selected[i], selected[j], Burn) ELSE selected[i] # selected[j]

\* No more features than are asked for, if any is, and no more in a bin than its share of the
\* strength leaves beside the tracks that are there.
FeaturesShared ==
  /\ input.desired > 0 \/ input.impl = "gpu" => Len(selected) <= input.desired
  /\ \A b \in Bin :
       LET new == Cardinality({i \in DOMAIN selected : BinOf(selected[i]) = b})
           old == Cardinality({p \in input.alive : BinOf(p) = b})
       IN new > 0 => (2 * (new + old) - 1) * Total(input)
                       <= 2 * (Cardinality(input.alive) + input.desired) * Goodness(input, b)

\* The features of a bin are its strongest ones: what is stronger was masked, near another, or
\* no maximum.
StrongestFirst ==
  \A p \in ToSet(selected) : \A q \in PixelsOf(BinOf(p)) :
    input.strength[q] > input.strength[p] =>
      \/ q \in ToSet(selected) \/ q \in input.masked \/ ~IsMaximum(input.strength, q)
      \/ \E a \in input.alive \cup ToSet(selected) : Near(a, q, Burn)
      \/ input.impl = "gpu" /\ q \notin Maxima(input)
=============================================================================
