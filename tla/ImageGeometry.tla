---------------------------- MODULE ImageGeometry ----------------------------
(***************************************************************************)
(* Where the pixels go: one image through preprocess and postprocess of    *)
(* YoloDetector (letterbox, decoding of a box), NAFNet (padding, cropping) *)
(* or ResNet (resize and centre crop), in coordinates.                     *)
(*                                                                         *)
(* Scales are fractions <<n, d>>, exact where the code has floats.  Pixel  *)
(* values are abstracted to the place they come from, and for NAFNet to    *)
(* the order of the channels.                                              *)
(***************************************************************************)
EXTENDS Integers, SequencesExt

CONSTANTS
    Pictures,  \* the images, as <<columns, rows>>
    Canvases,  \* the model's input sizes
    Marks      \* the canvas coordinates at which a detection may have its edges

VARIABLES
    runner,    \* "yolo", "nafnet" one image at a time, "nafnet_rows" (BatchScheduler), "resnet"
    cuda,      \* ENABLE_CUDA
    option,    \* auto_aspect_ratio_ of YOLO, bgr2rgb_ of NAFNet
    picture, canvas,
    stage,     \* "loaded", "prepared", "finished", "rejected" (throws), "undefined"
    placed,    \* the scale and place of the picture on the canvas
    found,     \* what the model reports: the box's edges, per axis
    result     \* what postprocess makes of it

vars == <<runner, cuda, option, picture, canvas, stage, placed, found, result>>

Nothing == <<>>
Axes == {1, 2}
Stride == 32

\* std::round of n/d, n >= 0.
Round(n, d) == (2 * n + d) \div (2 * d)
Clamp(n, low, high) == IF n < low THEN low ELSE IF n > high THEN high ELSE n

\* The largest scale at which picture p fits into size s.
FitScale(p, s) == IF s[1] * p[2] <= s[2] * p[1] THEN <<s[1], p[1]>> ELSE <<s[2], p[2]>>
ScaledTo(p, scale) == [a \in Axes |-> Round(p[a] * scale[1], scale[2])]
AlignDown(s) == [a \in Axes |-> s[a] - (s[a] % Stride)]

\* (mutant) the scale of the first fit is kept after the alignment.
LetterboxKeepsScale(p, c, align) ==
    LET fit == FitScale(p, c)
        new == IF align THEN AlignDown(ScaledTo(p, fit)) ELSE ScaledTo(p, fit)
    IN  [scale |-> fit, new |-> new, pad |-> [a \in Axes |-> (c[a] - new[a]) \div 2]]

\* letterbox_resize, and the same computation in YoloDetector::preprocess, which
\* always aligns.
Letterbox(p, c, align) ==
    LET fit == FitScale(p, c)
        scale == IF align THEN FitScale(p, AlignDown(ScaledTo(p, fit))) ELSE fit
        new == ScaledTo(p, scale)
    IN  [scale |-> scale, new |-> new, pad |-> [a \in Axes |-> (c[a] - new[a]) \div 2]]

\* pad_to_size, where the picture fits.
PadToSize(p, c) ==
    [scale |-> <<0, 1>>, new |-> p, pad |-> [a \in Axes |-> (c[a] - p[a]) \div 2]]

\* ResNet::resize_256 rounds its scale to a whole number, and center_crop cuts.
Resize256(p) ==
    LET low == IF p[1] < p[2] THEN p[1] ELSE p[2]
    IN  [a \in Axes |-> Round(256, low) * p[a]]
CenterCrop(resized) ==
    [scale |-> <<0, 1>>, new |-> resized, pad |-> [a \in Axes |-> (resized[a] - 224) \div 2]]

Init ==
    /\ runner \in {"yolo", "nafnet", "nafnet_rows", "resnet"}
    /\ cuda \in BOOLEAN /\ option \in BOOLEAN
    /\ runner = "nafnet_rows" => cuda
    /\ picture \in Pictures /\ canvas \in Canvases
    /\ stage = "loaded"
    /\ placed = Nothing /\ found = Nothing /\ result = Nothing

Prepared(p) == stage' = "prepared" /\ placed' = p
Inputs == <<runner, cuda, option, picture, canvas>>

\* A side shorter than the stride on the canvas is aligned to nothing: cv::resize
\* throws, the CUDA build fills the canvas with padding and later decodes with
\* divisions by the scale 0.
YoloPreprocess ==
    /\ runner = "yolo" /\ stage = "loaded"
    /\ LET p == Letterbox(picture, canvas, cuda \/ option)
       IN  IF \E a \in Axes : p.new[a] = 0
           THEN stage' = (IF cuda THEN "undefined" ELSE "rejected") /\ UNCHANGED placed
           ELSE Prepared(p)
    /\ UNCHANGED <<Inputs, found, result>>

\* An edge of a box, back on the picture: a fraction over scale[1].
Edge(mark, a) ==
    Clamp((mark - placed.pad[a]) * placed.scale[2], 0, picture[a] * placed.scale[1])

\* The CPU build rounds corner and size and drops an empty box, the CUDA build
\* truncates both.
Decode(low, high, a) ==
    LET n == placed.scale[1]
        from == Edge(low, a)
        to == Edge(high, a)
    IN  IF cuda THEN <<from \div n, (to - from) \div n>>
        ELSE <<Round(from, n), Round(to - from, n)>>

YoloPostprocess ==
    /\ runner = "yolo" /\ stage = "prepared"
    /\ \E x1, x2, y1, y2 \in Marks :
        /\ x1 < x2 /\ y1 < y2 /\ x2 <= canvas[1] /\ y2 <= canvas[2]
        /\ found' = <<<<x1, x2>>, <<y1, y2>>>>
    /\ LET box == [a \in Axes |-> Decode(found'[a][1], found'[a][2], a)]
           empty == \E a \in Axes : Edge(found'[a][1], a) >= Edge(found'[a][2], a)
       IN  result' = IF ~cuda /\ empty THEN Nothing ELSE box
    /\ stage' = "finished"
    /\ UNCHANGED <<Inputs, placed>>

NafPreprocess ==
    /\ runner = "nafnet" /\ stage = "loaded"
    /\ IF \E a \in Axes : canvas[a] < picture[a]
       THEN stage' = "rejected" /\ UNCHANGED placed
       ELSE Prepared(PadToSize(picture, canvas))
    /\ UNCHANGED <<Inputs, found, result>>

\* What a batch's letterbox_params are, value-initialised, until something is stored there.
Unset == [scale |-> <<0, 1>>, new |-> <<0, 0>>, pad |-> <<0, 0>>]

\* The preprocess for a row pads in a TensorBuffer of its own, and leaves what
\* pad_to_size says there: the batch's parameters are never set.
NafRowPreprocess ==
    /\ runner = "nafnet_rows" /\ stage = "loaded"
    /\ IF \E a \in Axes : canvas[a] < picture[a]
       THEN stage' = "rejected" /\ UNCHANGED placed
       ELSE Prepared(Unset)
    /\ UNCHANGED <<Inputs, found, result>>

\* The planes of the model's input, for an image in order BGR: cvtColor, then
\* convert_and_normalize, which turns them around once more if bgr2rgb_ is set.
Planes == IF option THEN <<"B", "G", "R">> ELSE <<"R", "G", "B">>

\* What pad_to_size put at an index of a plane.
PaddedAt(index) ==
    LET at == <<index % canvas[1], index \div canvas[1]>>
    IN  IF \A a \in Axes : at[a] - placed.pad[a] \in 0 .. picture[a] - 1
        THEN [a \in Axes |-> at[a] - placed.pad[a]]
        ELSE Nothing

\* A pixel of the restored image, if that is so large, from a model that returns what
\* it is given: the corners stand for all, as the index is linear.
NafPostprocess ==
    /\ runner \in {"nafnet", "nafnet_rows"} /\ stage = "prepared"
    /\ \E w \in {0, picture[1] - 1}, h \in {0, picture[2] - 1} :
        /\ found' = <<w, h>>
        /\ result' = [pixel |-> IF w < placed.new[1] /\ h < placed.new[2]
                                 THEN PaddedAt((h + placed.pad[2]) * canvas[1] + placed.pad[1] + w)
                                 ELSE Nothing,
                      colours |-> Reverse(Planes)]
    /\ stage' = "finished"
    /\ UNCHANGED <<Inputs, placed>>

\* A picture whose scale rounds to 0, or that stays below 224, throws in resize
\* or in the crop.
ResPreprocess ==
    /\ runner = "resnet" /\ stage = "loaded"
    /\ LET p == CenterCrop(Resize256(picture))
       IN  IF \E a \in Axes : p.new[a] < 224
           THEN stage' = "rejected" /\ UNCHANGED placed
           ELSE Prepared(p)
    /\ UNCHANGED <<Inputs, found, result>>

Over ==
    /\ stage \in {"finished", "rejected", "undefined"} \/ (runner = "resnet" /\ stage = "prepared")
    /\ UNCHANGED vars

Next ==
    \/ YoloPreprocess \/ YoloPostprocess
    \/ NafPreprocess \/ NafRowPreprocess \/ NafPostprocess
    \/ ResPreprocess
    \/ Over

------------------------------------------------------------------------------
Abs(n) == IF n < 0 THEN -n ELSE n

\* The area that is drawn, in canvas pixels: the resized image on the CPU; in the
\* kernel what two equal margins leave, one more where the padding is odd.
Drawn(a) == IF cuda THEN canvas[a] - 2 * placed.pad[a] ELSE placed.new[a]

\* The source pixel to the left of the point a canvas pixel is sampled at: by the
\* kernel with the letterbox scale, by cv::resize with the ratio of the sizes.
SampledFrom(mark, a) ==
    LET rate == IF cuda THEN placed.scale ELSE <<placed.new[a], picture[a]>>
        l == mark - placed.pad[a]
    IN  Clamp(((2 * l + 1) * rate[2] - rate[1]) \div (2 * rate[1]), 0, picture[a] - 1)

\* m and n are within one canvas pixel and three picture pixels of each other.
Near(m, n) == Abs(m - n) * placed.scale[1] <= placed.scale[2] + 3 * placed.scale[1]

\* The whole picture lies on the canvas, and a box the model finds around something
\* there is decoded to where that was sampled from, in both builds.
LetterboxInverts ==
    runner = "yolo" /\ stage = "finished" /\ result # Nothing => \A a \in Axes :
        /\ placed.pad[a] >= 0 /\ placed.pad[a] + Drawn(a) <= canvas[a]
        /\ Near(SampledFrom(placed.pad[a], a), 0)
        /\ Near(SampledFrom(placed.pad[a] + Drawn(a) - 1, a), picture[a] - 1)
        /\ found[a][1] \in placed.pad[a] .. placed.pad[a] + Drawn(a) - 1 =>
            Near(SampledFrom(found[a][1], a), result[a][1])
        /\ found[a][2] - 1 \in placed.pad[a] .. placed.pad[a] + Drawn(a) - 1 =>
            Near(SampledFrom(found[a][2] - 1, a), result[a][1] + result[a][2])

\* NAFNet crops out the pixel it padded, in its colours unless bgr2rgb_ has turned
\* the planes around, and an image alone: of one in a batch nothing is left, as the
\* batch's parameters were never set.  ResNet's crop lies in the middle of the
\* resized image.
CropsUndoPadding ==
    /\ runner = "nafnet" /\ stage = "finished" =>
        /\ result.pixel = found
        /\ ~option => result.colours = <<"B", "G", "R">>
    /\ runner = "nafnet_rows" /\ stage = "finished" => result.pixel = Nothing
    /\ runner = "resnet" /\ stage = "prepared" => \A a \in Axes :
        LET margin == placed.new[a] - 224 - placed.pad[a]
        IN  placed.pad[a] >= 0 /\ margin - placed.pad[a] \in {0, 1}
==============================================================================
