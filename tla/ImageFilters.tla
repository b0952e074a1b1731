----------------------------- MODULE ImageFilters -----------------------------
(***************************************************************************)
(* What the pixels of the pyramids of an image are computed from, on the   *)
(* CPU and by the kernels.  All filters are separable, so an image is one  *)
(* row or column of it, and the value of a pixel is the sequence of the    *)
(* pixels it is a weighted sum of, in the order of the weights; <<>> is 0. *)
(* The gradients of the finest level are computed on the CPU where a patch *)
(* reads them, into memory that holds those of an earlier image.           *)
(***************************************************************************)
EXTENDS Integers, FiniteSets, SequencesExt

CONSTANTS
  Lengths,     \* widths and heights of images
  Patch,       \* size of a patch
  LazyLength,  \* bound of the model: longest row of which patches are read
  MaxImages    \* bound of the model

VARIABLES
  length,  \* length of the row
  pass,    \* the last filter, with what the CPU and what the threads store
  image,   \* number of images of the context
  cell,    \* gradX_[0]: [of: the image it is the gradient of, done: evaluated_]
  seen     \* images whose gradients the last patch has

vars == <<length, pass, image, cell, seen>>

Pixels(n) == 0 .. n - 1
Zero == <<>>
Blocks(n, size) == (n + size - 1) \div size

-----------------------------------------------------------------------------
(* Gradients and the box filter                                            *)

TileWidth == 16
ColTileHeight == 4
HaloTiles == 1
ResultTiles == 8

\* A texture is read at its last pixel beyond the end: the mode that prepare_texture asks
\* for takes normalised coordinates.
Texel(n, i) == IF i < 0 THEN 0 ELSE IF i >= n THEN n - 1 ELSE i

\* Shared memory without the tiles beyond the results: the last threads read what they load.
SharedOf_no_halo(n, tile, block) ==
  [c \in 0 .. (ResultTiles + 2 * HaloTiles) * tile - 1 |-> Texel(n, block * ResultTiles * tile + c)]

\* What the threads of a block load: the tiles of its results and one on either side
SharedOf(n, tile, block) ==
  [c \in 0 .. (ResultTiles + 2 * HaloTiles) * tile - 1 |->
     Texel(n, (block * ResultTiles - HaloTiles) * tile + c)]

\* What the threads of a block store, each a pixel of every result tile; where the window
\* leaves the image they store 0.
StoredByBlock(n, tile, radius, block) ==
  LET shared == SharedOf(n, tile, block)
      out(t, i) == (block * ResultTiles - HaloTiles + i) * tile + t
      value(t, i) ==
        IF out(t, i) > radius - 1 /\ out(t, i) < n - radius
        THEN [j \in 1 .. 2 * radius + 1 |-> shared[t + i * tile + j - radius - 1]] ELSE Zero
  IN {[by |-> <<block, t, i>>, at |-> out(t, i), value |-> value(t, i)] :
        t \in 0 .. tile - 1,
        i \in HaloTiles .. HaloTiles + ResultTiles - 1}

Within(n, stores) == {s \in stores : s.at < n}

Tiled(n, tile, radius) ==
  UNION {Within(n, StoredByBlock(n, tile, radius, b)) : b \in Pixels(Blocks(n, tile * ResultTiles))}

GradXKernel(n) == Tiled(n, TileWidth, 3)       \* conv_grad_x_kernel
GradYKernel(n) == Tiled(n, ColTileHeight, 3)   \* conv_grad_y_kernel
BoxXKernel(n) == Tiled(n, TileWidth, 1)        \* box_blur_x_kernel
BoxYKernel(n) == Tiled(n, ColTileHeight, 1)    \* box_blur_y_kernel

\* CalcPixelGradients
OnDemand(x) == [i \in 1 .. 7 |-> x - 4 + i]

\* BasicConvolutor::convKernelGradDerivX and convKernelGradDerivY
Gradient(n) == [x \in Pixels(n) |-> IF 3 <= x /\ x < n - 3 THEN OnDemand(x) ELSE Zero]

\* CudaBoxPrefilter::prefilter: both passes, then the border of the image itself
BoxFilter(n) ==
  LET border == {x \in Pixels(n) : x < 1 \/ x >= n - 1}
      inner(stores) == {s \in stores : s.at \notin border}
      copied == {[by |-> <<-1, 0, x>>, at |-> x, value |-> <<x>>] : x \in border}
  IN <<inner(BoxXKernel(n)) \cup copied, inner(BoxYKernel(n)) \cup copied>>

\* BoxBlur3Cpu
BoxBlur(n) == [x \in Pixels(n) |-> IF 1 <= x /\ x < n - 1 THEN <<x - 1, x, x + 1>> ELSE <<x>>]

-----------------------------------------------------------------------------
(* Good features to track                                                  *)

BlockHeight == 32
KernelSize == 7
NTileWidth == 16
NTileHeight == BlockHeight - (KernelSize - 1)

Mirror(n, i) == LET j == IF i >= 0 THEN i ELSE -i - 1 IN IF j < n THEN j ELSE 2 * n - j - 1

\* Cells of the tile that are loaded before the first barrier: in two rounds of all threads,
\* in the second of which those beyond the tile are left out.
TileLoaded ==
  LET columns == NTileWidth + KernelSize - 1
      threads == NTileWidth * BlockHeight
  IN {<<f \div columns, f % columns>> : f \in {g \in 0 .. 2 * threads - 1 : g < threads \/ g \div columns < BlockHeight}}

\* gftt_values_kernel along a row: the cells right of a thread, and where they were loaded from
GfttRow(n) ==
  LET loaded == TileLoaded
      filled == {t \in 0 .. NTileWidth - 1 :
                   \A j \in 0 .. KernelSize - 1, r \in 0 .. BlockHeight - 1 : <<r, t + j>> \in loaded}
  IN {[by |-> <<b, t>>, at |-> b * NTileWidth + t,
       value |-> IF t \in filled
                 THEN [j \in 1 .. KernelSize |-> Mirror(n, t + j - 1 + b * NTileWidth - KernelSize \div 2)]
                 ELSE Zero] : b \in Pixels(Blocks(n, NTileWidth)), t \in 0 .. NTileWidth - 1}

\* Along a column: only the threads that have six rows of the block below them store, and the
\* rows below hold sums of the first pass.
GfttColumn(n) ==
  {[by |-> <<b, t>>, at |-> b * NTileHeight + t,
    value |-> [i \in 1 .. KernelSize |-> Mirror(n, t + i - 1 + b * NTileHeight - KernelSize \div 2)]]
     : b \in Pixels(Blocks(n, NTileHeight)), t \in {s \in 0 .. BlockHeight - 1 : s < NTileHeight}}

GfttKernel(n) == <<Within(n, GfttRow(n)), Within(n, GfttColumn(n))>>

\* convW and convH, which treat the three pixels at either end apart
Convolved(n) ==
  [x \in Pixels(n) |->
     CASE x = 0 -> <<2, 1, 0, 0, 1, 2, 3>>
       [] x = 1 -> <<1, 0, 0, 1, 2, 3, 4>>
       [] x = 2 -> <<0, 0, 1, 2, 3, 4, 5>>
       [] x = n - 3 -> <<x - 3, x - 2, x - 1, x, x + 1, x + 2, x + 2>>
       [] x = n - 2 -> <<x - 3, x - 2, x - 1, x, x + 1, x + 1, x>>
       [] x = n - 1 -> <<x - 3, x - 2, x - 1, x, x, x - 1, x - 2>>
       [] OTHER -> [i \in 1 .. 7 |-> x + i - 4]]

-----------------------------------------------------------------------------
(* Pyramids                                                                *)

MinImageDimSize == 15
MaxPyramidLevels == 10

\* ScaleDownDim, of the kernels and of the float pyramid, and compute_new_size of the other
ScaleDownDim(n) == (n + 1) \div 2
NewSize(n) == n \div 2

\* GPUImagePyramid::prepare_levels: sizes of the levels
GpuLevels(n) ==
  LET size[l \in 0 .. MaxPyramidLevels] == IF l = 0 THEN n ELSE ScaleDownDim(size[l - 1])
      more(l) == l < MaxPyramidLevels /\ \A k \in 1 .. l : size[k] >= MinImageDimSize
  IN {<<l, size[l]>> : l \in {k \in 0 .. MaxPyramidLevels - 1 : more(k)}}

\* ImagePyramidU8::build
CpuLevels(n) ==
  LET size[l \in 0 .. MaxPyramidLevels] == IF l = 0 THEN n ELSE NewSize(size[l - 1])
  IN {<<l, size[l]>> : l \in {k \in 0 .. MaxPyramidLevels - 1 : \A j \in 1 .. k : size[j] >= MinImageDimSize}}

\* gaussian_scaling_kernel: five pixels around every second one, mirrored at the ends.  A
\* product of two that are both outside is left out; whether one is is kept with it.
ScaledKernel(n) ==
  LET taps(x) == [k \in 1 .. 5 |-> [at |-> Mirror(n, 2 * x - 3 + k), outside |-> 2 * x - 3 + k \notin Pixels(n)]]
  IN {[by |-> <<b, t>>, at |-> 16 * b + t, value |-> taps(16 * b + t)] :
        b \in Pixels(Blocks(ScaleDownDim(n), 16)), t \in 0 .. 15}

\* SmoothImage and ImageGaussianScaler of the float pyramid: the image is extended by two
\* pixels on either side, which are 0 in the corners.
Extended(n) ==
  [e \in 0 .. n + 3 |->
     CASE e = 0 -> 1 [] e = 1 -> 0 [] e = n + 3 -> n - 2 [] e = n + 2 -> n - 1 [] OTHER -> e - 2]

ScaledFloat(n) ==
  LET ext == Extended(n)
  IN [x \in Pixels(ScaleDownDim(n)) |->
        [k \in 1 .. 5 |-> [at |-> ext[2 * x + k - 1], outside |-> 2 * x + k - 1 \in {0, 1, n + 2, n + 3}]]]

\* scale_down_w and scale_down_h
ScaledU8(n) ==
  [x \in Pixels(NewSize(n)) |->
     IF x = 0 THEN <<1, 0, 0, 1, 2>>
     ELSE IF x = NewSize(n) - 1 /\ 2 * NewSize(n) = n
     THEN <<2 * x - 2, 2 * x - 1, 2 * x, 2 * x + 1, 2 * x + 1>>
     ELSE [k \in 1 .. 5 |-> 2 * x - 3 + k]]

-----------------------------------------------------------------------------
(* Conversions and masks                                                   *)

\* The grid is rounded down.
CastKernel_rounded(n) == {[by |-> <<b, t>>, at |-> 16 * b + t, value |-> <<16 * b + t>>] : b \in Pixels(n \div 16), t \in 0 .. 15}

\* cast_image, cast_image_rgb, cast_depth_u16, burn_depth_mask: a thread per pixel
CastKernel(n) ==
  {[by |-> <<b, t>>, at |-> 16 * b + t, value |-> <<16 * b + t>>] : b \in Pixels(Blocks(n, 16)), t \in 0 .. 15}

\* resize_mask: one block more than fills the row
ResizeKernel(from, n) ==
  {[by |-> <<b, t>>, at |-> 32 * b + t, value |-> <<((32 * b + t) * from) \div n>>] :
     b \in 0 .. n \div 32, t \in 0 .. 31}

\* resize_mask_cpu
ResizeCpu(from, n) ==
  [x \in Pixels(n) |-> LET at == (x * from) \div n IN <<IF at < from - 1 THEN at ELSE from - 1>>]

\* process_mask_cpu and process_mask_gpu
MaskCpu(source, same) ==
  IF source.memory # "host" \/ source.encoding # "mono" THEN "invalid" ELSE IF same THEN "copied" ELSE "resized"
MaskGpu(source, same) ==
  IF same THEN "copied" ELSE IF source.encoding # "mono" THEN "invalid" ELSE "resized"

-----------------------------------------------------------------------------
(* Gradients where they are needed                                         *)

Border == 3

\* calcPatchGradients with a frame that is one pixel too wide
Evaluated_narrow(n, first, last) == {x \in Pixels(n) : Border < x /\ x < n - 1 - Border /\ first <= x /\ x <= last}

\* calcPatchGradients: pixels of the bound box of a patch that are inside of the frame of zeros
Evaluated(n, first, last) == {x \in Pixels(n) : Border <= x /\ x <= n - 1 - Border /\ first <= x /\ x <= last}

\* compute_patch_bbox at a position in half pixels; the cast to an integer rounds towards 0.
FirstOf(p) == (IF p = 0 THEN 0 ELSE (p - 1) \div 2) - Patch \div 2
LastOf(p) == FirstOf(p) + Patch + 1

\* computePatch interpolates between a pixel and the next.
Reads(p) == FirstOf(p) .. FirstOf(p) + Patch
InImage(p) == FirstOf(p) >= 0 /\ LastOf(p) < length

-----------------------------------------------------------------------------
None == [name |-> "none"]
Frame == -1   \* in place of an image: the zeros of the frame

Init ==
  /\ length \in Lengths
  /\ pass = None /\ image = 0 /\ seen = {}
  /\ cell = <<>>

Pass(name, stores, cpu) ==
  /\ image = 0 /\ pass = None
  /\ pass' = [name |-> name, stores |-> stores, cpu |-> cpu]
  /\ UNCHANGED <<length, image, cell, seen>>

Filters ==
  \/ Pass("grad x", GradXKernel(length), Gradient(length))
  \/ Pass("grad y", GradYKernel(length), Gradient(length))
  \/ Pass("box x", BoxFilter(length)[1], BoxBlur(length))
  \/ Pass("box y", BoxFilter(length)[2], BoxBlur(length))
  \/ Pass("gftt row", GfttKernel(length)[1], Convolved(length))
  \/ Pass("gftt column", GfttKernel(length)[2], Convolved(length))
  \/ Pass("scale", Within(ScaleDownDim(length), ScaledKernel(length)), ScaledFloat(length))
  \/ Pass("cast", Within(length, CastKernel(length)), [x \in Pixels(length) |-> <<x>>])
  \/ \E from \in Lengths :
       Pass("resize", Within(length, ResizeKernel(from, length)), ResizeCpu(from, length))

\* GradientPyramidT::set for the finest level: the frame is set to zero, the rest is left.
SetImage ==
  /\ length <= LazyLength /\ image < MaxImages
  /\ image' = image + 1
  /\ cell' = [x \in Pixels(length) |->
                [of |-> IF x < Border \/ x >= length - Border THEN Frame ELSE IF cell = <<>> THEN 0 ELSE cell[x].of,
                 done |-> FALSE]]
  /\ seen' = {} /\ pass' = None
  /\ UNCHANGED length

\* getGradXPatch at a position of the finest level
GetPatch(p) ==
  /\ cell # <<>> /\ p <= 2 * length
  /\ cell' = [x \in Pixels(length) |->
                IF x \in Evaluated(length, FirstOf(p), LastOf(p)) /\ ~cell[x].done
                THEN [of |-> image, done |-> TRUE] ELSE cell[x]]
  /\ seen' = IF InImage(p) THEN {cell'[x].of : x \in Reads(p)} ELSE {}
  /\ UNCHANGED <<length, pass, image>>

\* forceNonLazyEvaluation, after which the selection of features reads the whole level
GetAll ==
  /\ cell # <<>>
  /\ cell' = [x \in Pixels(length) |->
                [of |-> IF Gradient(length)[x] = Zero THEN Frame ELSE image, done |-> TRUE]]
  /\ seen' = {cell'[x].of : x \in Pixels(length)}
  /\ UNCHANGED <<length, pass, image>>

Next == Filters \/ SetImage \/ GetAll \/ \E p \in 0 .. 2 * LazyLength : GetPatch(p)

Spec == Init /\ [][Next]_vars

-----------------------------------------------------------------------------
(* Properties                                                              *)

\* The threads of a kernel store every pixel of the result once, whatever the size of the
\* image, and from the same pixels in the same order as the CPU does.
KernelsFilterLikeTheCPU ==
  pass # None =>
    /\ {s.at : s \in pass.stores} = DOMAIN pass.cpu
    /\ Cardinality(pass.stores) = Cardinality({s.at : s \in pass.stores})
    /\ \A s \in pass.stores : s.value = pass.cpu[s.at]

\* The levels of the kernels are not smaller nor fewer than those of the CPU, which rounds a
\* size down; where both have a pixel they compute it from the same ones.
LevelsAlike ==
  pass # None /\ pass.name = "scale" =>
    LET gpu == GpuLevels(length)
        cpu == ScaledU8(length)
    IN /\ Cardinality(CpuLevels(length)) <= Cardinality(gpu)
       /\ \A c \in CpuLevels(length) : \E g \in gpu : g[1] = c[1] /\ g[2] - c[2] \in {0, 1}
       /\ \A s \in pass.stores :
            s.at < NewSize(length) => [k \in 1 .. 5 |-> s.value[k].at] = cpu[s.at]

\* A mask that the CPU takes is taken by the GPU in the same way.
MasksAlike ==
  \A source \in [memory : {"host", "device"}, encoding : {"mono", "rgb"}], same \in BOOLEAN :
    MaskCpu(source, same) # "invalid" => MaskGpu(source, same) = MaskCpu(source, same)

\* A patch has gradients of the image it is read from, and zeros of the frame: none that an
\* earlier image or the memory has left.
GradientsOfThisImage == seen \subseteq {image, Frame}
=============================================================================
