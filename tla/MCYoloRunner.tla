----------------------------- MODULE MCYoloRunner -----------------------------
(***************************************************************************)
(* The three sides of the image runners, one per behaviour: aspect says    *)
(* which one moves.                                                        *)
(*   "buffers"   YoloDetector, as MCYoloDetector describes it.             *)
(*   "kernel"    GpuFilter: three predictions on two blocks of two         *)
(*               threads, so that one block may count before the other one *)
(*               resets; two slots, so that candidates may be too many;    *)
(*               scores tie, and may be 0 with threshold 0.                *)
(*   "geometry"  ImageGeometry: narrow, tall, small and large pictures,    *)
(*               with odd paddings, on square, wide and tall canvases.     *)
(***************************************************************************)
EXTENDS YoloDetector, Integers

CONSTANTS
    Predictions, ThreadsPerBlock, MaxDet, Classes, Scores, Thresholds,  \* GpuFilter
    Sides, Widths, Heights, Marks                                       \* ImageGeometry

VARIABLES
    aspect,
    scores, threshold, counter, slots, thread, claimed, resetDone, countedEarly,
    runner, cuda, option, picture, canvas, stage, placed, found, result

Kernel == INSTANCE GpuFilter WITH count <- counter, at <- thread
Geometry == INSTANCE ImageGeometry WITH
    Pictures <- Sides \X Sides,
    Canvases <- Widths \X Heights

\* There is something to filter and something to filter it with; scores are
\* probabilities, in whatever unit, and not negative.
ASSUME KernelAssumption ==
    /\ Predictions \in Nat \ {0} /\ ThreadsPerBlock \in Nat \ {0}
    /\ MaxDet \in Nat /\ Classes \in Nat \ {0}
    /\ Scores \subseteq Nat /\ Thresholds \subseteq Int

\* No picture and no canvas is empty.
ASSUME GeometryAssumption ==
    /\ Sides \subseteq Nat \ {0} /\ Marks \subseteq Nat
    /\ Widths \subseteq Nat \ {0} /\ Heights \subseteq Nat \ {0}

kernelVars == <<scores, threshold, counter, slots, thread, claimed, resetDone, countedEarly>>
geometryVars == <<runner, cuda, option, picture, canvas, stage, placed, found, result>>
allVars == <<aspect, vars, kernelVars, geometryVars>>

\* A component that does not move keeps one of its initial states.
MCInit ==
    /\ aspect \in {"buffers", "kernel", "geometry"}
    /\ Init
    /\ Kernel!Init
    /\ aspect # "kernel" => counter = 0 /\ threshold = 1 /\ \A i \in DOMAIN scores, c \in 1 .. Classes : scores[i][c] = 0
    /\ Geometry!Init
    /\ aspect # "geometry" =>
        runner = "yolo" /\ cuda /\ option /\ picture = <<640, 640>> /\ canvas = <<640, 640>>

MCNext ==
    /\ UNCHANGED aspect
    /\ \/ aspect = "buffers" /\ Next /\ UNCHANGED <<kernelVars, geometryVars>>
       \/ aspect = "kernel" /\ Kernel!Next /\ UNCHANGED <<vars, geometryVars>>
       \/ aspect = "geometry" /\ Geometry!Next /\ UNCHANGED <<vars, kernelVars>>

\* FairSpec of YoloDetector, while it is the one that moves.
MCSpec ==
    /\ MCInit /\ [][MCNext]_allVars
    /\ \A f \in Frames : WF_vars(aspect = "buffers" /\ Call(f))

------------------------------------------------------------------------------
\* A filter kernel that counted nothing before the counter was reset leaves the
\* detections the CPU build selects.
FilterMatchesCpu == Kernel!CompactedUnlessCountedEarly

\* Pixels come back to where they were: YOLO's boxes are decoded to where their
\* pixels were sampled, in both builds; NAFNet's and ResNet's crops are where
\* padding and resizing put the picture, except that nothing comes back of an image
\* in a NAFNet batch.
PixelsComeBack == Geometry!LetterboxInverts /\ Geometry!CropsUndoPadding

\* When it is YoloDetector that moves, every frame comes to an end.
EveryFrameOfRunnerEnds == aspect = "buffers" => EveryFrameEnds
==============================================================================
