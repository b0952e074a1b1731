----------------------------- MODULE DeviceWork -----------------------------
(***************************************************************************)
(* What the kernels of the solvers have in common: the threads of a        *)
(* launch, the item each of them handles, the sums over warps and blocks,  *)
(* and what an operation in the stream of a solver leaves in the arrays of *)
(* the device.  The numbers themselves are in GpuNormalEquations; here an  *)
(* array only has what went into it, and how often.                        *)
(***************************************************************************)
EXTENDS Integers, Sequences, FiniteSets, SequencesExt

WarpSize == 32
MaxThreads == 256

\* The blocks of `dim` threads that have a thread for each of n items.
Blocks(n, dim) == (n + dim - 1) \div dim

\* A launch of a kernel for a problem of size n, or an operation on one array.
Launch(kernel, blocks, threads, n) ==
  [kernel |-> kernel, blocks |-> blocks, threads |-> threads, n |-> n]

Line(kernel, count, dim, n) == Launch(kernel, <<Blocks(count, dim), 1>>, <<dim, 1>>, n)

Memory(what, array) == Launch(what, <<1, 1>>, <<1, 1>>, array)

\* A device takes blocks of at most 1024 threads and refuses an empty grid.
Legal(g) ==
  /\ g.threads[1] * g.threads[2] \in 1 .. 1024
  /\ g.blocks[1] >= 1 /\ g.blocks[2] >= 1

-----------------------------------------------------------------------------
(* Who handles what                                                        *)

\* `by` has the items with the thread that handles them, `of` all there are.
Once(d) ==
  /\ {p[1] : p \in d.by} = d.of
  /\ Cardinality(d.by) = Cardinality(d.of)

Same(S) == {<<x, x>> : x \in S}
Up(n) == 0 .. n - 1
Smaller(a, b) == IF a < b THEN a ELSE b

\* Thread x + X * dim handles item x + X * dim, if there is one.
Guarded(g, n) == [by |-> Same(Up(Smaller(g.blocks[1] * g.threads[1], n))), of |-> Up(n)]

\* The same in two dimensions.
Cells(g, rows, columns) ==
  [by |-> Same(Up(Smaller(g.blocks[1] * g.threads[1], rows)) \X
               Up(Smaller(g.blocks[2] * g.threads[2], columns))),
   of |-> Up(rows) \X Up(columns)]

\* Thread x of a block handles x, x + dim, x + 2 * dim...
Strided(dim, n) ==
  [by |-> {p \in {<<x + dim * k, x>> : x \in Up(dim), k \in Up(Blocks(n, dim))} : p[1] < n},
   of |-> Up(n)]

\* A block for each item; no thread checks whether there is one.
BlockEach(g, n) == [by |-> Same(Up(g.blocks[1])), of |-> Up(n)]
BlockCells(g, rows, columns) ==
  [by |-> Same(Up(g.blocks[1]) \X Up(g.blocks[2])), of |-> Up(rows) \X Up(columns)]

\* How often the value of each lane is in that of lane 0, once each lane has
\* added that of the lane `offset` further for each of the offsets.
Offsets == <<16, 8, 4, 2, 1>>
Copies(offsets) ==
  FoldLeft(LAMBDA c, o : [l \in Up(WarpSize) |-> c[l] + (IF l >= o THEN c[l - o] ELSE 0)],
           [l \in Up(WarpSize) |-> IF l = 0 THEN 1 ELSE 0], Reverse(offsets))

\* Every warp sums, lane 0 stores the sum in a slot of shared memory, and the
\* first warp sums the slots: `slots` of its lanes read one, the others take 0.
WarpSum(threads) ==
  LET copies == Copies(Offsets)
  IN [by |-> UNION {{<<x, c>> : c \in 1 .. copies[x]} : x \in Up(threads)}, of |-> Up(threads)]

Slots == MaxThreads \div WarpSize
BlockSum(threads, slots) ==
  LET copies == Copies(Offsets)
      times(x) == copies[x % WarpSize] *
                    (IF x \div WarpSize < slots THEN copies[x \div WarpSize] ELSE 0)
  IN [by |-> UNION {{<<x, c>> : c \in 1 .. times(x)} : x \in Up(threads)}, of |-> Up(threads)]

\* The slots that are read are those a warp has written.
SlotsWritten(threads, slots) ==
  [by |-> Same(Up(Blocks(threads, WarpSize))), of |-> Up(slots)]

Summed(threads) == <<BlockSum(threads, Slots), SlotsWritten(threads, Slots)>>

-----------------------------------------------------------------------------
(* What is in the arrays                                                   *)

Unknown == -1
Moving == 99
NoArray == [n |-> Unknown, from |-> {}]

\* What an operation does: who handles what, the arrays it reads, those it
\* sets, adds to, clears or spoils, and the parameters it moves.
Idle == [did |-> <<>>, reads |-> {}, sets |-> {}, adds |-> {}, clears |-> {}, ruins |-> {},
         moves |-> {}]

\* All the arrays that what is now computed from these arrays depends on.
Sources(memory, reads) == reads \cup UNION {memory[a].from : a \in reads}

\* The parameters move together: what depends on them is out of date once all
\* of `movable` have moved.
AfterMove(memory, w, movable) ==
  LET moving == w.moves \cup {a \in movable : memory[a].n = Moving}
      all == moving = movable
  IN [a \in DOMAIN memory |->
        CASE a \in moving -> [n |-> IF all THEN 1 ELSE Moving, from |-> {}]
          [] all /\ memory[a].from \cap movable /= {} -> [memory[a] EXCEPT !.n = Unknown]
          [] OTHER -> memory[a]]

\* What was computed from an array that is written anew is out of date; adding
\* to an array only makes it differ from what was read.
After(memory, w, movable) ==
  LET written == w.sets \cup w.clears \cup w.ruins
      from == Sources(memory, w.reads)
  IN IF w.moves /= {} THEN AfterMove(memory, w, movable)
     ELSE [a \in DOMAIN memory |->
       CASE a \in w.ruins -> NoArray
         [] a \in w.clears -> [n |-> 0, from |-> {}]
         [] a \in w.sets -> [n |-> 1, from |-> from]
         [] a \in w.adds -> [n |-> IF memory[a].n = Unknown THEN Unknown ELSE memory[a].n + 1,
                             from |-> memory[a].from \cup from]
         [] a \notin written /\ memory[a].from \cap written /= {} ->
              [memory[a] EXCEPT !.n = Unknown]
         [] OTHER -> memory[a]]
=============================================================================
