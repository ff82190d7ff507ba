-------------------------- MODULE YoloRunner_proofs ---------------------------
(***************************************************************************)
(* Theorems about the three sides of the image runners, as MCYoloRunner    *)
(* puts them together.                                                     *)
(*                                                                         *)
(* YoloDetector, for any frames, any batch size and any buffer_size.  The  *)
(* inductive invariant is Inv.  Lending says of one pool that its free     *)
(* list and the calls' handles are all different; Places ties the handles  *)
(* to where a call is, the handles that early returns leave behind         *)
(* included; Data follows a frame's detections from the filter buffer to   *)
(* the host copy.  That a release is of a buffer the caller does hold, and *)
(* that nobody else writes it before, comes from the three together.       *)
(*                                                                         *)
(* GpuFilter (Kernel), for any grid, classes, scores and thresholds:       *)
(* KernelInv.  ImageGeometry (Geometry), for pictures, canvases and boxes  *)
(* of any size: GeometryInv, and arithmetic.                               *)
(***************************************************************************)
EXTENDS MCYoloRunner, QueueLemmas

\* A pool of the buffers in S, and the calls' handles on them.
Lending(S, free, held) ==
    /\ free \in Seq(S)
    /\ held \in [Frames -> S \union {None}]
    /\ \A i, k \in DOMAIN free : free[i] = free[k] => i = k
    /\ \A f \in Frames : held[f] \notin Items(free)
    /\ \A f, g \in Frames : held[f] = held[g] /\ held[f] # None => f = g

Pools ==
    /\ Lending(ImageBuffers, imageFree, image)
    /\ Lending(Buffers, filterFree, filter)
    /\ Lending(Buffers, countFree, count)
    /\ Lending(Buffers, hostFree, host)

Before == {"new", "stream", "upload", "failed", "ready"}
Filtered == {"launch", "host", "copy", "release"}
Labels == Before \union Filtered \union {"filter", "count", "decode", "done"}

Places ==
    /\ pc \in [Frames -> Labels]
    /\ \A f \in Frames :
        /\ image[f] # None <=> pc[f] \in {"stream", "upload", "failed"}
        /\ host[f] # None <=> pc[f] \in {"copy", "release", "decode"}
        /\ pc[f] \in Before \union {"filter"} => filter[f] = None
        /\ pc[f] \in Before \union {"filter", "count"} => count[f] = None
        /\ pc[f] \in Filtered \union {"count"} => filter[f] # None
        /\ pc[f] \in Filtered => count[f] # None

Data ==
    /\ filterData \in [Buffers -> Frames \union {None}]
    /\ hostData \in [Buffers -> Frames \union {None}]
    /\ decoded \in [Frames -> Frames \union {None}]
    /\ \A f \in Frames :
        /\ pc[f] \in {"host", "copy"} => filterData[filter[f]] = f
        /\ pc[f] \in {"release", "decode"} => hostData[host[f]] = f
    /\ DecodesItsOwn

Rest ==
    /\ StreamsAtFirst \subseteq streams /\ streams \subseteq ImageBuffers
    /\ imagesLost \in 0 .. MaxImagesLost
    /\ filtersLost \in 0 .. MaxFiltersLost

Inv == Pools /\ Places /\ Data /\ Rest

------------------------------------------------------------------------------
(* One pool. *)

\* Acquire: a call that holds nothing takes the first buffer.
LEMMA Acquired ==
    ASSUME NEW S, None \notin S, NEW free, NEW held, Lending(S, free, held), free # <<>>,
           NEW f \in Frames, held[f] = None
    PROVE  /\ Lending(S, Tail(free), [held EXCEPT ![f] = Head(free)])
           /\ Head(free) \in S
<1> DEFINE h == [held EXCEPT ![f] = Head(free)]
<1>1. /\ Head(free) \in S /\ Head(free) \in Items(free)
      /\ Dequeued(free) \in Seq(S)
      /\ Items(Dequeued(free)) = Items(free) \ {Head(free)}
      /\ \A i, k \in DOMAIN Dequeued(free) : Dequeued(free)[i] = Dequeued(free)[k] => i = k
    BY PopDistinct DEF Lending
<1>2. /\ h \in [Frames -> S \union {None}]
      /\ h[f] = Head(free) /\ \A g \in Frames \ {f} : h[g] = held[g]
    BY <1>1 DEF Lending
<1> HIDE DEF h
<1>3. \A g \in Frames : h[g] \notin Items(Dequeued(free))
    BY <1>1, <1>2 DEF Lending
<1>4. \A g, e \in Frames : h[g] = h[e] /\ h[g] # None => g = e
    BY <1>1, <1>2 DEF Lending
<1>5. Lending(S, Dequeued(free), h)
    BY <1>1, <1>2, <1>3, <1>4 DEF Lending
<1> QED BY <1>1, <1>5 DEF Dequeued, h

\* Release of a buffer the call holds.
LEMMA Released ==
    ASSUME NEW S, None \notin S, NEW free, NEW held, Lending(S, free, held),
           NEW f \in Frames, held[f] # None
    PROVE  Lending(S, Append(free, held[f]), [held EXCEPT ![f] = None])
<1> DEFINE h == [held EXCEPT ![f] = None]
           q == Append(free, held[f])
<1>1. /\ q \in Seq(S)
      /\ Items(q) = Items(free) \union {held[f]}
      /\ \A i, k \in DOMAIN q : q[i] = q[k] => i = k
  <2>1. free \in Seq(S) /\ held[f] \in S /\ held[f] \notin Items(free)
    BY DEF Lending
  <2>2. \A i, k \in DOMAIN free : free[i] = free[k] => i = k
    BY DEF Lending
  <2> QED BY <2>1, <2>2, PushItems
<1>2. /\ h \in [Frames -> S \union {None}]
      /\ h[f] = None /\ \A g \in Frames \ {f} : h[g] = held[g]
    BY DEF Lending
<1> HIDE DEF h, q
<1>3. held[f] \in S
    BY DEF Lending
<1>4. None \notin Items(q)
    BY <1>1, <1>3 DEF Items, Lending
<1>5. \A g \in Frames : h[g] \notin Items(q)
    BY <1>1, <1>2, <1>3, <1>4 DEF Lending
<1>6. \A g, e \in Frames : h[g] = h[e] /\ h[g] # None => g = e
    BY <1>2 DEF Lending
<1>7. Lending(S, q, h)
    BY <1>1, <1>2, <1>5, <1>6 DEF Lending
<1> QED BY <1>7 DEF h, q

\* None is no buffer.
LEMMA NoBuffer == None \notin ImageBuffers /\ None \notin Buffers
BY NoneAssumption, SizeAssumption DEF ImageBuffers, Buffers

\* The free list of all the buffers there are, held by nobody.
LEMMA FirstLending ==
    ASSUME NEW n \in Nat, None \notin 1 .. n
    PROVE  Lending(1 .. n, [i \in 1 .. n |-> i], [f \in Frames |-> None])
<1> DEFINE q == [i \in 1 .. n |-> i]
<1>1. q \in Seq(1 .. n) /\ DOMAIN q = 1 .. n
    OBVIOUS
<1>2. Items(q) = 1 .. n
    BY DEF Items
<1> QED BY <1>1, <1>2 DEF Lending

\* A free list is no longer than there are buffers.
LEMMA FreeWithinCapacity ==
    ASSUME NEW n \in Nat, NEW free, NEW held, Lending(1 .. n, free, held)
    PROVE  Len(free) <= n
<1>1. free \in Seq(1 .. n) /\ DOMAIN free = 1 .. Len(free) /\ Len(free) \in Nat
    BY DEF Lending
<1>2. free \in Injection(1 .. Len(free), 1 .. n)
    BY <1>1, SMTT(30) DEF Lending, Injection, IsInjective
<1>3. \A m \in Nat : IsFiniteSet(1 .. m) /\ Cardinality(1 .. m) = m
    BY FS_Interval
<1> DEFINE places == 1 .. Len(free)
           buffers == 1 .. n
<1>4. Cardinality(places) <= Cardinality(buffers)
  <2>1. free \in Injection(places, buffers) /\ IsFiniteSet(buffers)
    BY <1>2, <1>3
  <2> HIDE DEF places, buffers
  <2> QED BY <2>1, FS_Injection
<1> QED BY <1>1, <1>3, <1>4

------------------------------------------------------------------------------
(* The invariant. *)

\* All buffers are free, and no frame has been seen.
LEMMA InitInv == Init => Inv
<1> SUFFICES ASSUME Init PROVE Inv
    OBVIOUS
<1> DEFINE n == IF BatchSize > BufferSize THEN BatchSize ELSE BufferSize
<1>1. n \in Nat /\ ImageBuffers = 1 .. n /\ Cardinality(ImageBuffers) = n
  <2>1. n \in Nat /\ ImageBuffers = 1 .. n
    BY SizeAssumption DEF ImageBuffers
  <2>2. \A m \in Nat : Cardinality(1 .. m) = m
    BY FS_Interval
  <2> QED BY <2>1, <2>2
<1> HIDE DEF n
<1>2. Lending(ImageBuffers, imageFree, image)
    BY <1>1, NoBuffer, FirstLending DEF Init
<1>3. /\ Lending(Buffers, filterFree, filter) /\ Lending(Buffers, countFree, count)
      /\ Lending(Buffers, hostFree, host)
    BY NoBuffer, SizeAssumption, FirstLending DEF Init, Buffers
<1>4. Places
    BY DEF Init, Places, Labels, Before, Filtered
<1>5. Data
    BY DEF Init, Data, DecodesItsOwn
<1>6. Rest
    BY SizeAssumption, BoundAssumption DEF Init, Rest, StreamsAtFirst, ImageBuffers
<1> QED BY <1>2, <1>3, <1>4, <1>5, <1>6 DEF Inv, Pools

\* The handles' types, and what Places says of one call.
LEMMA CallTypes ==
    ASSUME Inv
    PROVE  /\ pc \in [Frames -> Labels]
           /\ image \in [Frames -> ImageBuffers \union {None}]
           /\ filter \in [Frames -> Buffers \union {None}]
           /\ count \in [Frames -> Buffers \union {None}]
           /\ host \in [Frames -> Buffers \union {None}]
BY DEF Inv, Places, Pools, Lending

\* preprocess takes an image buffer.
LEMMA AcquireImageInv ==
    ASSUME Inv, NEW f \in Frames, AcquireImage(f)
    PROVE  Inv'
<1>1. Lending(ImageBuffers, imageFree', image') /\ image'[f] \in ImageBuffers
  <2>1. image[f] = None /\ imageFree # <<>> /\ Lending(ImageBuffers, imageFree, image)
    BY DEF AcquireImage, Inv, Places, Pools, Before
  <2>2. image' = [image EXCEPT ![f] = Head(imageFree)] /\ imageFree' = Tail(imageFree)
    BY DEF AcquireImage
  <2>3. Lending(ImageBuffers, Tail(imageFree), [image EXCEPT ![f] = Head(imageFree)]) /\ Head(imageFree) \in ImageBuffers
    BY <2>1, NoBuffer, Acquired
  <2>4. Lending(ImageBuffers, imageFree', image')
    BY <2>2, <2>3
  <2> QED BY <2>2, <2>3, <2>4, CallTypes
<1>2. Pools'
    BY <1>1 DEF AcquireImage, Inv, Pools, imageVars, filterVars, hostVars
<1>3. Places'
    BY <1>1, CallTypes, NoBuffer DEF AcquireImage, Goto, Inv, Places, Labels, Before, Filtered, imageVars, filterVars, hostVars
<1>4. Data'
    BY <1>1, CallTypes, NoBuffer DEF AcquireImage, Goto, Inv, Places, Pools, Lending, Data, DecodesItsOwn, Filtered, imageVars, filterVars, hostVars
<1>5. Rest'
    BY <1>1, CallTypes, BoundAssumption DEF AcquireImage, Inv, Places, Rest, imageVars, filterVars, hostVars
<1> QED BY <1>2, <1>3, <1>4, <1>5 DEF Inv

\* It looks its stream up.
LEMMA FindStreamInv ==
    ASSUME Inv, NEW f \in Frames, FindStream(f)
    PROVE  Inv'
<1>1. Pools'
    BY DEF FindStream, Inv, Pools, imageVars, filterVars, hostVars
<1>2. Places'
    BY CallTypes, NoBuffer DEF FindStream, Goto, Inv, Places, Labels, Before, Filtered, imageVars, filterVars, hostVars
<1>3. Data'
    BY CallTypes, NoBuffer DEF FindStream, Goto, Inv, Places, Pools, Lending, Data, DecodesItsOwn, Filtered, imageVars, filterVars, hostVars
<1>4. Rest'
    BY CallTypes, BoundAssumption DEF FindStream, Inv, Places, Rest, imageVars, filterVars, hostVars
<1> QED BY <1>1, <1>2, <1>3, <1>4 DEF Inv

\* It gives the image buffer back.
LEMMA PreprocessInv ==
    ASSUME Inv, NEW f \in Frames, Preprocess(f)
    PROVE  Inv'
<1>1. Lending(ImageBuffers, imageFree', image')
  <2>1. image[f] # None /\ Lending(ImageBuffers, imageFree, image)
    BY DEF Preprocess, Inv, Places, Pools, Filtered
  <2>2. image' = [image EXCEPT ![f] = None] /\ imageFree' = Append(imageFree, image[f])
    BY DEF Preprocess
  <2>3. Lending(ImageBuffers, Append(imageFree, image[f]), [image EXCEPT ![f] = None])
    BY <2>1, NoBuffer, Released
  <2> QED BY <2>2, <2>3
<1>2. Pools'
    BY <1>1 DEF Preprocess, Inv, Pools, imageVars, filterVars, hostVars
<1>3. Places'
    BY <1>1, CallTypes, NoBuffer DEF Preprocess, Goto, Inv, Places, Labels, Before, Filtered, imageVars, filterVars, hostVars
<1>4. Data'
    BY <1>1, CallTypes, NoBuffer DEF Preprocess, Goto, Inv, Places, Pools, Lending, Data, DecodesItsOwn, Filtered, imageVars, filterVars, hostVars
<1>5. Rest'
    BY <1>1, CallTypes, BoundAssumption DEF Preprocess, Inv, Places, Rest, imageVars, filterVars, hostVars
<1> QED BY <1>2, <1>3, <1>4, <1>5 DEF Inv

\* It throws, and the image buffer stays with the call.
LEMMA PreprocessThrowsInv ==
    ASSUME Inv, NEW f \in Frames, PreprocessThrows(f)
    PROVE  Inv'
<1>1. Pools'
    BY DEF PreprocessThrows, Inv, Pools, imageVars, filterVars, hostVars
<1>2. Places'
    BY CallTypes, NoBuffer DEF PreprocessThrows, Goto, Inv, Places, Labels, Before, Filtered, imageVars, filterVars, hostVars
<1>3. Data'
    BY CallTypes, NoBuffer DEF PreprocessThrows, Goto, Inv, Places, Pools, Lending, Data, DecodesItsOwn, Filtered, imageVars, filterVars, hostVars
<1>4. Rest'
    BY CallTypes, BoundAssumption DEF PreprocessThrows, Inv, Places, Rest, imageVars, filterVars, hostVars
<1> QED BY <1>1, <1>2, <1>3, <1>4 DEF Inv

\* postprocess begins.
LEMMA PostprocessInv ==
    ASSUME Inv, NEW f \in Frames, Postprocess(f)
    PROVE  Inv'
<1>1. Pools'
    BY DEF Postprocess, Inv, Pools, imageVars, filterVars, hostVars
<1>2. Places'
    BY CallTypes, NoBuffer DEF Postprocess, Goto, Inv, Places, Labels, Before, Filtered, imageVars, filterVars, hostVars
<1>3. Data'
    BY CallTypes, NoBuffer DEF Postprocess, Goto, Inv, Places, Pools, Lending, Data, DecodesItsOwn, Filtered, imageVars, filterVars, hostVars
<1>4. Rest'
    BY CallTypes, BoundAssumption DEF Postprocess, Inv, Places, Rest, imageVars, filterVars, hostVars
<1> QED BY <1>1, <1>2, <1>3, <1>4 DEF Inv

\* postprocess takes a filter buffer.
LEMMA AcquireFilterInv ==
    ASSUME Inv, NEW f \in Frames, AcquireFilter(f)
    PROVE  Inv'
<1>1. Lending(Buffers, filterFree', filter') /\ filter'[f] \in Buffers
  <2>1. filter[f] = None /\ filterFree # <<>> /\ Lending(Buffers, filterFree, filter)
    BY DEF AcquireFilter, Inv, Places, Pools, Before
  <2>2. filter' = [filter EXCEPT ![f] = Head(filterFree)] /\ filterFree' = Tail(filterFree)
    BY DEF AcquireFilter
  <2>3. Lending(Buffers, Tail(filterFree), [filter EXCEPT ![f] = Head(filterFree)]) /\ Head(filterFree) \in Buffers
    BY <2>1, NoBuffer, Acquired
  <2>4. Lending(Buffers, filterFree', filter')
    BY <2>2, <2>3
  <2> QED BY <2>2, <2>3, <2>4, CallTypes
<1>2. Pools'
    BY <1>1 DEF AcquireFilter, Inv, Pools, imageVars, filterVars, hostVars
<1>3. Places'
    BY <1>1, CallTypes, NoBuffer DEF AcquireFilter, Goto, Inv, Places, Labels, Before, Filtered, imageVars, filterVars, hostVars
<1>4. Data'
    BY <1>1, CallTypes, NoBuffer DEF AcquireFilter, Goto, Inv, Places, Pools, Lending, Data, DecodesItsOwn, Filtered, imageVars, filterVars, hostVars
<1>5. Rest'
    BY <1>1, CallTypes, BoundAssumption DEF AcquireFilter, Inv, Places, Rest, imageVars, filterVars, hostVars
<1> QED BY <1>2, <1>3, <1>4, <1>5 DEF Inv

\* postprocess takes a count buffer.
LEMMA AcquireCountInv ==
    ASSUME Inv, NEW f \in Frames, AcquireCount(f)
    PROVE  Inv'
<1>1. Lending(Buffers, countFree', count') /\ count'[f] \in Buffers
  <2>1. count[f] = None /\ countFree # <<>> /\ Lending(Buffers, countFree, count)
    BY DEF AcquireCount, Inv, Places, Pools, Before
  <2>2. count' = [count EXCEPT ![f] = Head(countFree)] /\ countFree' = Tail(countFree)
    BY DEF AcquireCount
  <2>3. Lending(Buffers, Tail(countFree), [count EXCEPT ![f] = Head(countFree)]) /\ Head(countFree) \in Buffers
    BY <2>1, NoBuffer, Acquired
  <2>4. Lending(Buffers, countFree', count')
    BY <2>2, <2>3
  <2> QED BY <2>2, <2>3, <2>4, CallTypes
<1>2. Pools'
    BY <1>1 DEF AcquireCount, Inv, Pools, imageVars, filterVars, hostVars
<1>3. Places'
    BY <1>1, CallTypes, NoBuffer DEF AcquireCount, Goto, Inv, Places, Labels, Before, Filtered, imageVars, filterVars, hostVars
<1>4. Data'
    BY <1>1, CallTypes, NoBuffer DEF AcquireCount, Goto, Inv, Places, Pools, Lending, Data, DecodesItsOwn, Filtered, imageVars, filterVars, hostVars
<1>5. Rest'
    BY <1>1, CallTypes, BoundAssumption DEF AcquireCount, Inv, Places, Rest, imageVars, filterVars, hostVars
<1> QED BY <1>2, <1>3, <1>4, <1>5 DEF Inv

\* The kernel writes a filter buffer nobody else holds.
LEMMA FilterInv ==
    ASSUME Inv, NEW f \in Frames, Filter(f)
    PROVE  Inv'
<1>1. Pools'
    BY DEF Filter, Inv, Pools, imageVars, filterVars, hostVars
<1>2. Places'
    BY CallTypes, NoBuffer DEF Filter, Goto, Inv, Places, Labels, Before, Filtered, imageVars, filterVars, hostVars
<1>3. Data'
    BY CallTypes, NoBuffer DEF Filter, Goto, Inv, Places, Pools, Lending, Data, DecodesItsOwn, Filtered, imageVars, filterVars, hostVars
<1>4. Rest'
    BY CallTypes, BoundAssumption DEF Filter, Inv, Places, Rest, imageVars, filterVars, hostVars
<1> QED BY <1>1, <1>2, <1>3, <1>4 DEF Inv

\* postprocess returns early, and both device buffers stay with the call.
LEMMA FilterReturnsEarlyInv ==
    ASSUME Inv, NEW f \in Frames, FilterReturnsEarly(f)
    PROVE  Inv'
<1>1. Pools'
    BY DEF FilterReturnsEarly, Inv, Pools, imageVars, filterVars, hostVars
<1>2. Places'
    BY CallTypes, NoBuffer DEF FilterReturnsEarly, Goto, Inv, Places, Labels, Before, Filtered, imageVars, filterVars, hostVars
<1>3. Data'
    BY CallTypes, NoBuffer DEF FilterReturnsEarly, Goto, Inv, Places, Pools, Lending, Data, DecodesItsOwn, Filtered, imageVars, filterVars, hostVars
<1>4. Rest'
    BY CallTypes, BoundAssumption DEF FilterReturnsEarly, Inv, Places, Rest, imageVars, filterVars, hostVars
<1> QED BY <1>1, <1>2, <1>3, <1>4 DEF Inv

\* postprocess takes a host buffer.
LEMMA AcquireHostInv ==
    ASSUME Inv, NEW f \in Frames, AcquireHost(f)
    PROVE  Inv'
<1>1. Lending(Buffers, hostFree', host') /\ host'[f] \in Buffers
  <2>1. host[f] = None /\ hostFree # <<>> /\ Lending(Buffers, hostFree, host)
    BY DEF AcquireHost, Inv, Places, Pools, Before
  <2>2. host' = [host EXCEPT ![f] = Head(hostFree)] /\ hostFree' = Tail(hostFree)
    BY DEF AcquireHost
  <2>3. Lending(Buffers, Tail(hostFree), [host EXCEPT ![f] = Head(hostFree)]) /\ Head(hostFree) \in Buffers
    BY <2>1, NoBuffer, Acquired
  <2>4. Lending(Buffers, hostFree', host')
    BY <2>2, <2>3
  <2> QED BY <2>2, <2>3, <2>4, CallTypes
<1>2. Pools'
    BY <1>1 DEF AcquireHost, Inv, Pools, imageVars, filterVars, hostVars
<1>3. Places'
    BY <1>1, CallTypes, NoBuffer DEF AcquireHost, Goto, Inv, Places, Labels, Before, Filtered, imageVars, filterVars, hostVars
<1>4. Data'
    BY <1>1, CallTypes, NoBuffer DEF AcquireHost, Goto, Inv, Places, Pools, Lending, Data, DecodesItsOwn, Filtered, imageVars, filterVars, hostVars
<1>5. Rest'
    BY <1>1, CallTypes, BoundAssumption DEF AcquireHost, Inv, Places, Rest, imageVars, filterVars, hostVars
<1> QED BY <1>2, <1>3, <1>4, <1>5 DEF Inv

\* The copy writes a host buffer nobody else holds.
LEMMA CopyInv ==
    ASSUME Inv, NEW f \in Frames, Copy(f)
    PROVE  Inv'
<1>1. Pools'
    BY DEF Copy, Inv, Pools, imageVars, filterVars, hostVars
<1>2. Places'
    BY CallTypes, NoBuffer DEF Copy, Goto, Inv, Places, Labels, Before, Filtered, imageVars, filterVars, hostVars
<1>3. Data'
    BY CallTypes, NoBuffer DEF Copy, Goto, Inv, Places, Pools, Lending, Data, DecodesItsOwn, Filtered, imageVars, filterVars, hostVars
<1>4. Rest'
    BY CallTypes, BoundAssumption DEF Copy, Inv, Places, Rest, imageVars, filterVars, hostVars
<1> QED BY <1>1, <1>2, <1>3, <1>4 DEF Inv

\* The copy fails, and both device buffers stay with the call.
LEMMA CopyFailsInv ==
    ASSUME Inv, NEW f \in Frames, CopyFails(f)
    PROVE  Inv'
<1>1. Lending(Buffers, hostFree', host')
  <2>1. host[f] # None /\ Lending(Buffers, hostFree, host)
    BY DEF CopyFails, Inv, Places, Pools, Filtered
  <2>2. host' = [host EXCEPT ![f] = None] /\ hostFree' = Append(hostFree, host[f])
    BY DEF CopyFails
  <2>3. Lending(Buffers, Append(hostFree, host[f]), [host EXCEPT ![f] = None])
    BY <2>1, NoBuffer, Released
  <2> QED BY <2>2, <2>3
<1>2. Pools'
    BY <1>1 DEF CopyFails, Inv, Pools, imageVars, filterVars, hostVars
<1>3. Places'
    BY <1>1, CallTypes, NoBuffer DEF CopyFails, Goto, Inv, Places, Labels, Before, Filtered, imageVars, filterVars, hostVars
<1>4. Data'
    BY <1>1, CallTypes, NoBuffer DEF CopyFails, Goto, Inv, Places, Pools, Lending, Data, DecodesItsOwn, Filtered, imageVars, filterVars, hostVars
<1>5. Rest'
    BY <1>1, CallTypes, BoundAssumption DEF CopyFails, Inv, Places, Rest, imageVars, filterVars, hostVars
<1> QED BY <1>2, <1>3, <1>4, <1>5 DEF Inv

\* Both device buffers go back before decoding.
LEMMA ReleaseFiltersInv ==
    ASSUME Inv, NEW f \in Frames, ReleaseFilters(f)
    PROVE  Inv'
<1>1. Lending(Buffers, filterFree', filter')
  <2>1. filter[f] # None /\ Lending(Buffers, filterFree, filter)
    BY DEF ReleaseFilters, Inv, Places, Pools, Filtered
  <2>2. filter' = [filter EXCEPT ![f] = None] /\ filterFree' = Append(filterFree, filter[f])
    BY DEF ReleaseFilters
  <2>3. Lending(Buffers, Append(filterFree, filter[f]), [filter EXCEPT ![f] = None])
    BY <2>1, NoBuffer, Released
  <2> QED BY <2>2, <2>3
<1>2. Lending(Buffers, countFree', count')
  <2>1. count[f] # None /\ Lending(Buffers, countFree, count)
    BY DEF ReleaseFilters, Inv, Places, Pools, Filtered
  <2>2. count' = [count EXCEPT ![f] = None] /\ countFree' = Append(countFree, count[f])
    BY DEF ReleaseFilters
  <2>3. Lending(Buffers, Append(countFree, count[f]), [count EXCEPT ![f] = None])
    BY <2>1, NoBuffer, Released
  <2> QED BY <2>2, <2>3
<1>3. Pools'
    BY <1>1, <1>2 DEF ReleaseFilters, Inv, Pools, imageVars, filterVars, hostVars
<1>4. Places'
    BY <1>1, <1>2, CallTypes, NoBuffer DEF ReleaseFilters, Goto, Inv, Places, Labels, Before, Filtered, imageVars, filterVars, hostVars
<1>5. Data'
    BY <1>1, <1>2, CallTypes, NoBuffer DEF ReleaseFilters, Goto, Inv, Places, Pools, Lending, Data, DecodesItsOwn, Filtered, imageVars, filterVars, hostVars
<1>6. Rest'
    BY <1>1, <1>2, CallTypes, BoundAssumption DEF ReleaseFilters, Inv, Places, Rest, imageVars, filterVars, hostVars
<1> QED BY <1>3, <1>4, <1>5, <1>6 DEF Inv

\* The host buffer is decoded, and then goes back.
LEMMA DecodeInv ==
    ASSUME Inv, NEW f \in Frames, Decode(f)
    PROVE  Inv'
<1>1. Lending(Buffers, hostFree', host')
  <2>1. host[f] # None /\ Lending(Buffers, hostFree, host)
    BY DEF Decode, Inv, Places, Pools, Filtered
  <2>2. host' = [host EXCEPT ![f] = None] /\ hostFree' = Append(hostFree, host[f])
    BY DEF Decode
  <2>3. Lending(Buffers, Append(hostFree, host[f]), [host EXCEPT ![f] = None])
    BY <2>1, NoBuffer, Released
  <2> QED BY <2>2, <2>3
<1>2. Pools'
    BY <1>1 DEF Decode, Inv, Pools, imageVars, filterVars, hostVars
<1>3. Places'
    BY <1>1, CallTypes, NoBuffer DEF Decode, Goto, Inv, Places, Labels, Before, Filtered, imageVars, filterVars, hostVars
<1>4. Data'
    BY <1>1, CallTypes, NoBuffer DEF Decode, Goto, Inv, Places, Pools, Lending, Data, DecodesItsOwn, Filtered, imageVars, filterVars, hostVars
<1>5. Rest'
    BY <1>1, CallTypes, BoundAssumption DEF Decode, Inv, Places, Rest, imageVars, filterVars, hostVars
<1> QED BY <1>2, <1>3, <1>4, <1>5 DEF Inv

\* Every step keeps the invariant.
LEMMA NextInv == Inv /\ [Next]_vars => Inv'
<1> SUFFICES ASSUME Inv, [Next]_vars PROVE Inv'
    OBVIOUS
<1>1. ASSUME NEW f \in Frames, Call(f) PROVE Inv'
  <2>1. CASE AcquireImage(f) \/ FindStream(f) \/ Preprocess(f)
    BY <2>1, AcquireImageInv, FindStreamInv, PreprocessInv
  <2>2. CASE Postprocess(f) \/ AcquireFilter(f) \/ AcquireCount(f) \/ Filter(f)
    BY <2>2, PostprocessInv, AcquireFilterInv, AcquireCountInv, FilterInv
  <2>3. CASE AcquireHost(f) \/ Copy(f) \/ ReleaseFilters(f) \/ Decode(f)
    BY <2>3, AcquireHostInv, CopyInv, ReleaseFiltersInv, DecodeInv
  <2> QED BY <1>1, <2>1, <2>2, <2>3 DEF Call
<1>2. ASSUME NEW f \in Frames, Fails(f) PROVE Inv'
    BY <1>2, PreprocessThrowsInv, FilterReturnsEarlyInv, CopyFailsInv DEF Fails
<1>3. CASE UNCHANGED vars
    BY <1>3 DEF vars, imageVars, filterVars, hostVars, Inv, Pools, Places, Data, DecodesItsOwn, Rest
<1> QED BY <1>1, <1>2, <1>3 DEF Next

\* The inductive invariant holds of every behaviour.
THEOREM Invariant == Spec => []Inv
<1>1. Init => Inv
    BY InitInv
<1>2. Inv /\ [Next]_vars => Inv'
    BY NextInv
<1> QED BY <1>1, <1>2, PTL DEF Spec

\* The variables keep their types, and no free list outgrows its buffers, although
\* releases are not counted and several exits release nothing.
THEOREM TypeCorrect == Spec => []TypeOK
<1>1. Inv => TypeOK
  <2> SUFFICES ASSUME Inv PROVE TypeOK
    OBVIOUS
  <2> DEFINE n == IF BatchSize > BufferSize THEN BatchSize ELSE BufferSize
  <2>1. n \in Nat /\ ImageBuffers = 1 .. n /\ Cardinality(ImageBuffers) = n
    <3>1. n \in Nat /\ ImageBuffers = 1 .. n
      BY SizeAssumption DEF ImageBuffers
    <3>2. \A m \in Nat : Cardinality(1 .. m) = m
      BY FS_Interval
    <3> QED BY <3>1, <3>2
  <2> HIDE DEF n
  <2>2. Len(imageFree) <= Cardinality(ImageBuffers)
    BY <2>1, FreeWithinCapacity DEF Inv, Pools
  <2>3. Len(filterFree) <= BufferSize /\ Len(countFree) <= BufferSize /\ Len(hostFree) <= BufferSize
    BY SizeAssumption, FreeWithinCapacity DEF Inv, Pools, Buffers
  <2>4. /\ imageFree \in Seq(ImageBuffers) /\ image \in [Frames -> ImageBuffers \union {None}]
        /\ \A q \in {filterFree, countFree, hostFree} : q \in Seq(Buffers) /\ Len(q) <= BufferSize
        /\ \A held \in {filter, count, host} : held \in [Frames -> Buffers \union {None}]
    BY <2>3 DEF Inv, Pools, Lending
  <2>5. pc \in [Frames -> {"new", "stream", "upload", "failed", "ready", "filter", "count",
                           "launch", "host", "copy", "release", "decode", "done"}]
    BY DEF Inv, Places, Labels, Before, Filtered
  <2> QED BY <2>2, <2>4, <2>5 DEF Inv, Data, Rest, TypeOK
<1> QED BY <1>1, Invariant, PTL

\* A frame's result is decoded from its own detections, though its device buffers
\* are released before decoding starts.
THEOREM OwnDetections == Spec => []DecodesItsOwn
<1>1. Inv => DecodesItsOwn
    BY DEF Inv, Data
<1> QED BY <1>1, Invariant, PTL

\* As long as buffer_size is at most batch, every key of cuStreams_ is there
\* before preprocess looks one up: no two calls write the table.
THEOREM StreamTableComplete ==
    ASSUME BufferSize <= BatchSize
    PROVE  Spec => []StreamTableNotWrittenConcurrently
<1>1. ImageBuffers = StreamsAtFirst
    BY SizeAssumption DEF ImageBuffers, StreamsAtFirst
<1>2. Inv => StreamTableNotWrittenConcurrently
    BY <1>1, CallTypes DEF Inv, Places, Rest, At, StreamTableNotWrittenConcurrently
<1> QED BY <1>2, Invariant, PTL

------------------------------------------------------------------------------
(* What early returns cost. *)

Losses ==
    /\ \A f \in Frames : pc[f] = "decode" => filter[f] = None /\ count[f] = None
    /\ IsFiniteSet(Leaking) /\ Cardinality(Leaking) = filtersLost

\* A step of a call that does not return with a buffer.
LEMMA NothingLeaks ==
    ASSUME Losses, NEW f \in Frames, pc[f] # "done", UNCHANGED filtersLost,
           \A g \in Frames : g # f => pc'[g] = pc[g] /\ filter'[g] = filter[g] /\ count'[g] = count[g],
           pc'[f] \in {"decode", "done"} => filter'[f] = None /\ count'[f] = None
    PROVE  Losses'
<1>1. Leaking' = Leaking
    BY DEF Leaking
<1>2. \A g \in Frames : pc'[g] = "decode" => filter'[g] = None /\ count'[g] = None
    BY DEF Losses
<1> QED BY <1>1, <1>2 DEF Losses

\* An early return leaves its two buffers with nobody: one more.
LEMMA OneLeaks ==
    ASSUME Inv, Losses, NEW f \in Frames, pc[f] # "done", filtersLost' = filtersLost + 1,
           pc' = [pc EXCEPT ![f] = "done"], UNCHANGED <<filter, count>>, filter[f] # None
    PROVE  Losses'
<1>1. pc'[f] = "done" /\ \A g \in Frames : g # f => pc'[g] = pc[g]
    BY DEF Inv, Places
<1>2. Leaking' = Leaking \union {f} /\ f \notin Leaking
    BY <1>1 DEF Leaking
<1>3. IsFiniteSet(Leaking') /\ Cardinality(Leaking') = Cardinality(Leaking) + 1
    BY <1>2, FS_AddElement DEF Losses
<1>4. \A g \in Frames : pc'[g] = "decode" => filter'[g] = None /\ count'[g] = None
    BY <1>1 DEF Losses
<1> QED BY <1>3, <1>4 DEF Losses

\* Every step keeps the account.
LEMMA NextLosses == Inv /\ Losses /\ [Next]_vars => Losses'
<1> SUFFICES ASSUME Inv, Losses, [Next]_vars PROVE Losses'
    OBVIOUS
<1>1. CASE UNCHANGED vars
    BY <1>1 DEF vars, filterVars, Losses, Leaking
<1>2. ASSUME NEW f \in Frames, Call(f) \/ Fails(f) PROVE Losses'
  <2> USE CallTypes DEF Goto, imageVars, filterVars, hostVars
  <2>1. CASE AcquireImage(f) \/ FindStream(f) \/ Preprocess(f) \/ PreprocessThrows(f)
    BY <2>1, NothingLeaks DEF AcquireImage, FindStream, Preprocess, PreprocessThrows
  <2>2. CASE Postprocess(f) \/ AcquireFilter(f) \/ AcquireCount(f) \/ Filter(f)
    BY <2>2, NothingLeaks DEF Postprocess, AcquireFilter, AcquireCount, Filter
  <2>3. CASE AcquireHost(f) \/ Copy(f) \/ ReleaseFilters(f)
    BY <2>3, NothingLeaks DEF AcquireHost, Copy, ReleaseFilters
  <2>4. CASE Decode(f)
    <3>1. filter[f] = None /\ count[f] = None
      BY <2>4 DEF Decode, Losses
    <3> QED BY <2>4, <3>1, NothingLeaks DEF Decode
  <2>5. CASE FilterReturnsEarly(f) \/ CopyFails(f)
    <3>1. pc[f] \in {"launch", "copy"}
      BY <2>5 DEF FilterReturnsEarly, CopyFails
    <3>2. filter[f] # None
      BY <3>1 DEF Inv, Places, Filtered
    <3> QED BY <2>5, <3>1, <3>2, OneLeaks DEF FilterReturnsEarly, CopyFails
  <2> QED BY <1>2, <2>1, <2>2, <2>3, <2>4, <2>5 DEF Call, Fails
<1> QED BY <1>1, <1>2 DEF Next

\* As many calls hold device buffers after their return as have returned early,
\* and no other exit of postprocess keeps one.
THEOREM EarlyReturnsLeak ==
    Spec => [](/\ Cardinality(Leaking) = filtersLost
               /\ filtersLost = 0 => NothingHeldAfterReturn)
<1>1. Init => Inv /\ Losses
  <2> SUFFICES ASSUME Init PROVE Losses
    BY InitInv
  <2>1. Leaking = {}
    BY DEF Init, Leaking
  <2> QED BY <2>1, FS_EmptySet DEF Init, Losses
<1>2. Inv /\ Losses /\ [Next]_vars => Inv' /\ Losses'
    BY NextInv, NextLosses
<1>3. Losses => /\ Cardinality(Leaking) = filtersLost
                /\ filtersLost = 0 => NothingHeldAfterReturn
  <2> SUFFICES ASSUME Losses, filtersLost = 0 PROVE NothingHeldAfterReturn
    BY DEF Losses
  <2>1. Leaking = {}
    BY FS_EmptySet DEF Losses
  <2> QED BY <2>1 DEF Leaking, NothingHeldAfterReturn
<1> QED BY <1>1, <1>2, <1>3, PTL DEF Spec

\* In each of the four pools a buffer is on offer or with one call, and the calls that
\* keep theirs for good are those that returned early.
THEOREM Exclusive == Spec => []BuffersExclusive
<1>1. Inv /\ Cardinality(Leaking) = filtersLost => BuffersExclusive
    BY DEF Inv, Pools, Lending, Items, Elements, BuffersExclusive
<1> QED BY <1>1, Invariant, EarlyReturnsLeak, PTL

------------------------------------------------------------------------------
(* The filter kernel: what it leaves is what the CPU build selects.  Claimants *)
(* are the threads that have been through atomicAdd; as long as none of them   *)
(* was there before the reset, the counter counts them, and their slots are    *)
(* the numbers below it.                                                       *)

KernelSpec == Kernel!Init /\ [][Kernel!Next]_(Kernel!vars)

Selected(t) == Kernel!Detection(Kernel!Index(t), Kernel!KernelBest(Kernel!Index(t)))
Detections == {Selected(t) : t \in Kernel!Threads}

Claimants == {t \in Kernel!Threads : Kernel!IsCandidate(t) /\ thread[t] \in {"write", "done"}}

KernelTypes ==
    /\ scores \in [0 .. Predictions - 1 -> Kernel!ScoreVectors]
    /\ counter \in Nat
    /\ slots \in [0 .. MaxDet - 1 -> Detections \union {Kernel!Empty}]
    /\ thread \in [Kernel!Threads -> {"reset", "barrier", "scan", "write", "done"}]
    /\ claimed \in [Kernel!Threads -> Nat]
    /\ resetDone \in BOOLEAN /\ countedEarly \in BOOLEAN

KernelOrder ==
    /\ thread[<<0, 0>>] = "reset" <=> ~resetDone
    /\ \A t \in Kernel!Threads : thread[t] = "write" => Kernel!IsCandidate(t)

KernelCounts ==
    ~countedEarly =>
        /\ ~resetDone => Claimants = {}
        /\ resetDone => counter = Cardinality(Claimants)
        /\ \A t \in Claimants : claimed[t] < counter
        /\ \A t, u \in Claimants : claimed[t] = claimed[u] => t = u
        /\ \A t \in Claimants :
            thread[t] = "done" /\ claimed[t] < MaxDet => slots[claimed[t]] = Selected(t)

KernelInv == KernelTypes /\ KernelOrder /\ KernelCounts

------------------------------------------------------------------------------
(* The grid, and the search for the best class. *)

\* GpuFilter counts with the Cardinality of this module.
LEMMA KernelCount == \A S : Kernel!Cardinality(S) = Cardinality(S)
BY DEF Kernel!Cardinality, Cardinality

\* The grid is finite, and the first thread is in it.
LEMMA Grid ==
    /\ IsFiniteSet(Kernel!Threads)
    /\ <<0, 0>> \in Kernel!Threads
    /\ \A t \in Kernel!Threads :
        /\ t = <<t[1], t[2]>>
        /\ t[1] \in Nat /\ t[2] \in 0 .. ThreadsPerBlock - 1
        /\ Kernel!Index(t) \in Nat
<1> DEFINE q == (Predictions + ThreadsPerBlock - 1) \div ThreadsPerBlock
<1>1. q \in Nat \ {0}
  <2>1. Predictions + ThreadsPerBlock - 1 \in Nat /\ Predictions + ThreadsPerBlock - 1 >= ThreadsPerBlock
    BY KernelAssumption
  <2>2. \A a, b \in Nat : b > 0 /\ a >= b => a \div b \in Nat \ {0}
    OBVIOUS
  <2> QED BY <2>1, <2>2, KernelAssumption
<1> HIDE DEF q
<1>2. Kernel!Blocks = 0 .. q - 1 /\ Kernel!Threads = (0 .. q - 1) \X (0 .. ThreadsPerBlock - 1)
    BY DEF Kernel!Blocks, Kernel!Threads, q
<1>3. IsFiniteSet(0 .. q - 1) /\ IsFiniteSet(0 .. ThreadsPerBlock - 1)
    BY <1>1, KernelAssumption, FS_Interval
<1>4. IsFiniteSet(Kernel!Threads)
    BY <1>2, <1>3, FS_Product
<1>5. <<0, 0>> \in Kernel!Threads
    BY <1>1, <1>2, KernelAssumption
<1>6. \A t \in Kernel!Threads :
        t = <<t[1], t[2]>> /\ t[1] \in 0 .. q - 1 /\ t[2] \in 0 .. ThreadsPerBlock - 1
    BY <1>2
<1>7. \A a, b \in Nat : a * b \in Nat
    OBVIOUS
<1>8. ASSUME NEW t \in Kernel!Threads PROVE t[1] \in Nat /\ t[2] \in Nat /\ Kernel!Index(t) \in Nat
  <2>1. t[1] \in Nat /\ t[2] \in Nat /\ ThreadsPerBlock \in Nat
    BY <1>1, <1>6, KernelAssumption
  <2>2. t[1] * ThreadsPerBlock \in Nat
    BY <1>7, <2>1
  <2> QED BY <2>1, <2>2 DEF Kernel!Index
<1> QED BY <1>4, <1>5, <1>6, <1>8

\* Each prediction has one thread.
LEMMA OneThreadEach ==
    /\ \A t, u \in Kernel!Threads : Kernel!Index(t) = Kernel!Index(u) => t = u
    /\ \A i \in 0 .. Predictions - 1 : \E t \in Kernel!Threads : Kernel!Index(t) = i
<1>1. ASSUME NEW t \in Kernel!Threads, NEW u \in Kernel!Threads, Kernel!Index(t) = Kernel!Index(u)
      PROVE  t = u
  <2>1. \A m \in Nat, a, b, x, y \in Nat :
          x < m /\ y < m /\ x + a * m = y + b * m => ~(a < b)
    <3> SUFFICES ASSUME NEW m \in Nat, NEW a \in Nat, NEW b \in Nat, NEW x \in Nat, NEW y \in Nat,
                        x < m, y < m, x + a * m = y + b * m, a < b
                 PROVE  FALSE
      OBVIOUS
    <3>1. PICK d \in Nat : b = a + 1 + d
      <4>1. b - a - 1 \in Nat /\ b = a + 1 + (b - a - 1)
        OBVIOUS
      <4> QED BY <4>1
    <3>2. b * m = a * m + m + d * m
      BY <3>1
    <3>3. d * m \in Nat /\ a * m \in Nat
      BY <3>1
    <3> QED BY <3>2, <3>3
  <2>2. /\ t = <<t[1], t[2]>> /\ u = <<u[1], u[2]>>
        /\ t[1] \in Nat /\ u[1] \in Nat /\ t[2] \in Nat /\ u[2] \in Nat
        /\ t[2] < ThreadsPerBlock /\ u[2] < ThreadsPerBlock /\ ThreadsPerBlock \in Nat
    BY Grid, KernelAssumption
  <2>3. t[2] + t[1] * ThreadsPerBlock = u[2] + u[1] * ThreadsPerBlock
    BY <1>1 DEF Kernel!Index
  <2>4. ~(t[1] < u[1]) /\ ~(u[1] < t[1])
    BY <2>1, <2>2, <2>3
  <2>5. t[1] = u[1]
    BY <2>2, <2>4
  <2>6. t[2] = u[2]
    <3>1. t[1] * ThreadsPerBlock \in Nat
      BY <2>2
    <3> QED BY <2>2, <2>3, <2>5, <3>1
  <2> QED BY <2>2, <2>5, <2>6
<1>2. ASSUME NEW i \in 0 .. Predictions - 1
      PROVE  \E t \in Kernel!Threads : Kernel!Index(t) = i
  <2> DEFINE m == ThreadsPerBlock
             b == i \div m
             x == i % m
             q == (Predictions + m - 1) \div m
  <2>1. m \in Nat \ {0} /\ i \in Nat /\ Predictions \in Nat /\ i <= Predictions - 1
    BY KernelAssumption
  <2>2. b \in Nat /\ x \in 0 .. m - 1 /\ i = x + b * m
    BY <2>1
  <2>3. b <= q - 1
    <3>1. q \in Int /\ Predictions + m - 1 < q * m + m
      BY <2>1
    <3>2. b * m <= i
      BY <2>1, <2>2
    <3>3. b * m < q * m
      BY <2>1, <2>2, <3>1, <3>2
    <3>4. ~(q <= b)
      <4>1. \A c, d \in Int, k \in Nat : c <= d => c * k <= d * k
        OBVIOUS
      <4> QED BY <2>1, <2>2, <3>1, <3>3, <4>1
    <3> QED BY <2>2, <3>1, <3>4
  <2>4. q \in Int
    BY <2>1
  <2> HIDE DEF b, x
  <2>5. <<b, x>> \in Kernel!Threads
    BY <2>2, <2>3, <2>4 DEF Kernel!Threads, Kernel!Blocks
  <2>6. Kernel!Index(<<b, x>>) = i
    BY <2>2 DEF Kernel!Index
  <2> QED BY <2>5, <2>6
<1> QED BY <1>1, <1>2

\* Of finitely many scores one is the largest.
LEMMA LargestScore ==
    ASSUME NEW v \in [1 .. Classes -> Nat]
    PROVE  \E c \in 1 .. Classes : \A d \in 1 .. Classes : v[d] <= v[c]
<1> DEFINE S == 1 .. Classes
           Above(c) == {d \in S : v[d] > v[c]}
           T == {Above(c) : c \in S}
<1>1. IsFiniteSet(S) /\ 1 \in S
  <2>1. 1 \in Int /\ Classes \in Int /\ 1 <= Classes
    BY KernelAssumption
  <2> QED BY <2>1, FS_Interval
<1>2. T \subseteq FiniteSubsetsOf(S) /\ T # {}
  <2>1. T \subseteq SUBSET S
    OBVIOUS
  <2>2. Above(1) \in T
    BY <1>1
  <2>3. FiniteSubsetsOf(S) = SUBSET S
    BY <1>1, FS_FiniteSubsetsOfFinite
  <2> QED BY <2>1, <2>2, <2>3
<1>3. PICK least \in T : \A x \in T : <<x, least>> \notin StrictSubsetOrdering(S)
    BY <1>2, WFMin, FS_StrictSubsetOrderingWellFounded
<1>4. PICK c \in S : least = Above(c)
    BY <1>3
<1>5. ASSUME NEW d \in S, ~(v[d] <= v[c]) PROVE FALSE
  <2>1. v[d] \in Nat /\ v[c] \in Nat
    OBVIOUS
  <2>2. d \in Above(c) /\ d \notin Above(d)
    BY <1>5, <2>1
  <2>3. Above(d) \subseteq Above(c)
    <3>1. \A e \in S : v[e] \in Nat
      OBVIOUS
    <3> QED BY <1>5, <2>1, <3>1
  <2>4. <<Above(d), Above(c)>> \in StrictSubsetOrdering(S)
    BY <2>2, <2>3 DEF StrictSubsetOrdering
  <2> QED BY <1>3, <1>4, <2>4
<1> QED BY <1>5

\* The kernel's search, which starts below every score, and the CPU's, which starts
\* at score 0 and class 0 (1 here), come to the same class and score.
LEMMA SameBest ==
    ASSUME KernelTypes, NEW i \in 0 .. Predictions - 1
    PROVE  Kernel!KernelBest(i) = Kernel!CpuBest(i)
<1> DEFINE v == scores[i]
           V == {v[c] : c \in DOMAIN v}
<1>1. v \in [1 .. Classes -> Nat] /\ DOMAIN v = 1 .. Classes
    BY KernelAssumption DEF KernelTypes, Kernel!ScoreVectors
<1> HIDE DEF v
<1>2. PICK top \in 1 .. Classes : \A d \in 1 .. Classes : v[d] <= v[top]
    BY <1>1, LargestScore
<1> DEFINE m == v[top]
<1>3. m \in Nat /\ m \in V /\ \A n \in V : n \in Nat /\ n <= m
    BY <1>1, <1>2
<1> HIDE DEF m, V
<1>4. \A s \in {-1, 0} : Kernel!Max(V \union {s}) = m
  <2> SUFFICES ASSUME NEW s \in {-1, 0} PROVE Kernel!Max(V \union {s}) = m
    OBVIOUS
  <2>1. m \in V \union {s} /\ \A n \in V \union {s} : m >= n
    BY <1>3
  <2>2. \A x \in V \union {s} : (\A n \in V \union {s} : x >= n) => x = m
    BY <1>3
  <2> QED BY <2>1, <2>2 DEF Kernel!Max
<1>5. Kernel!KernelBest(i) = [score |-> m, class |-> Kernel!Min({c \in DOMAIN v : v[c] = m})]
  <2>1. Kernel!Max(V \union {-1}) = m /\ m # -1
    BY <1>3, <1>4
  <2> QED BY <2>1 DEF Kernel!KernelBest, Kernel!Best, v, V
<1>6. CASE m # 0
  <2>1. Kernel!Max(V \union {0}) = m
    BY <1>4
  <2>2. Kernel!CpuBest(i) = [score |-> m, class |-> Kernel!Min({c \in DOMAIN v : v[c] = m})]
    BY <1>6, <2>1 DEF Kernel!CpuBest, Kernel!Best, v, V
  <2> QED BY <1>5, <2>2
<1>7. CASE m = 0
  <2>1. Kernel!Max(V \union {0}) = 0
    BY <1>4, <1>7
  <2>2. Kernel!CpuBest(i) = [score |-> 0, class |-> 1]
    BY <2>1 DEF Kernel!CpuBest, Kernel!Best, v, V
  <2>3. {c \in DOMAIN v : v[c] = m} = 1 .. Classes
    BY <1>1, <1>3, <1>7 DEF V
  <2>4. 1 \in 1 .. Classes /\ \A c \in 1 .. Classes : c \in Int /\ 1 <= c
    BY KernelAssumption
  <2>5. Kernel!Min(1 .. Classes) = 1
    <3>1. \A x \in 1 .. Classes : (\A c \in 1 .. Classes : x =< c) => x = 1
      BY <2>4
    <3> QED BY <2>4, <3>1 DEF Kernel!Min
  <2> QED BY <1>5, <1>7, <2>2, <2>3, <2>5
<1> QED BY <1>6, <1>7

------------------------------------------------------------------------------
(* Every step keeps the invariant. *)

\* No thread has been through atomicAdd when the kernel starts.
LEMMA KernelInitInv == Kernel!Init => KernelInv
<1> SUFFICES ASSUME Kernel!Init PROVE KernelInv
    OBVIOUS
<1>1. KernelTypes
  <2>1. thread \in [Kernel!Threads -> {"reset", "barrier", "scan", "write", "done"}]
    BY DEF Kernel!Init
  <2>2. slots \in [0 .. MaxDet - 1 -> Detections \union {Kernel!Empty}]
    BY DEF Kernel!Init
  <2>3. resetDone \in BOOLEAN /\ countedEarly \in BOOLEAN
    BY DEF Kernel!Init
  <2>4. /\ scores \in [0 .. Predictions - 1 -> Kernel!ScoreVectors]
        /\ counter \in Nat /\ claimed \in [Kernel!Threads -> Nat]
    BY DEF Kernel!Init
  <2> QED BY <2>1, <2>2, <2>3, <2>4 DEF KernelTypes
<1>2. \A t \in Kernel!Threads : thread[t] \in {"reset", "barrier"}
    BY DEF Kernel!Init
<1>3. Claimants = {}
    BY <1>2 DEF Claimants
<1>4. KernelOrder
    BY <1>2, Grid DEF Kernel!Init, KernelOrder
<1>5. KernelCounts
    BY <1>3 DEF Kernel!Init, KernelCounts
<1> QED BY <1>1, <1>4, <1>5 DEF KernelInv

\* What is a candidate, and what it looks like, does not change.
LEMMA KernelInputs ==
    ASSUME UNCHANGED <<scores, threshold>>
    PROVE  /\ \A t : Kernel!IsCandidate(t)' <=> Kernel!IsCandidate(t)
           /\ \A t : Selected(t)' = Selected(t)
           /\ Detections' = Detections
BY DEF Kernel!IsCandidate, Kernel!KernelBest, Selected, Detections

\* Steps after which the same threads have claimed the same slots, and nothing else
\* that is counted has changed.
LEMMA SameClaimants ==
    ASSUME KernelInv, UNCHANGED <<scores, threshold, slots, counter, claimed, resetDone, countedEarly>>,
           thread' \in [Kernel!Threads -> {"reset", "barrier", "scan", "write", "done"}],
           \A t \in Kernel!Threads :
             /\ thread'[t] = "write" <=> thread[t] = "write"
             /\ Kernel!IsCandidate(t) => (thread'[t] = "done" <=> thread[t] = "done"),
           thread'[<<0, 0>>] = "reset" <=> thread[<<0, 0>>] = "reset"
    PROVE  KernelInv'
<1>1. /\ \A t : Kernel!IsCandidate(t)' <=> Kernel!IsCandidate(t)
      /\ \A t : Selected(t)' = Selected(t)
      /\ Detections' = Detections
    BY KernelInputs
<1>2. Claimants' = Claimants
    BY <1>1 DEF Claimants
<1>3. KernelTypes'
    BY <1>1 DEF KernelInv, KernelTypes
<1>4. KernelOrder'
    BY <1>1 DEF KernelInv, KernelOrder
<1>5. KernelCounts'
    BY <1>1, <1>2 DEF KernelInv, KernelCounts, Claimants
<1> QED BY <1>3, <1>4, <1>5 DEF KernelInv

\* The counter is reset: before that nothing was counted, or all bets are off.
LEMMA KernelResetInv ==
    ASSUME KernelInv, Kernel!Reset
    PROVE  KernelInv'
<1>1. /\ UNCHANGED <<scores, threshold, slots, claimed, countedEarly>>
      /\ counter' = 0 /\ resetDone' = TRUE /\ thread[<<0, 0>>] = "reset"
      /\ thread' = [thread EXCEPT ![<<0, 0>>] = "barrier"]
    BY DEF Kernel!Reset
<1>2. /\ \A t : Kernel!IsCandidate(t)' <=> Kernel!IsCandidate(t)
      /\ \A t : Selected(t)' = Selected(t)
      /\ Detections' = Detections
    BY <1>1, KernelInputs
<1>3. ~resetDone
    BY <1>1 DEF KernelInv, KernelOrder
<1>4. Claimants' = Claimants
    BY <1>1, <1>2 DEF KernelInv, KernelTypes, Claimants
<1>5. KernelTypes'
    BY <1>1, <1>2 DEF KernelInv, KernelTypes
<1>6. KernelOrder'
    BY <1>1, <1>2, Grid DEF KernelInv, KernelTypes, KernelOrder
<1>7. KernelCounts'
  <2>1. ~countedEarly => Claimants = {}
    BY <1>3 DEF KernelInv, KernelCounts
  <2>2. Cardinality({}) = 0
    BY FS_EmptySet
  <2> QED BY <1>1, <1>4, <2>1, <2>2 DEF KernelCounts
<1> QED BY <1>5, <1>6, <1>7 DEF KernelInv

\* A thread claims a slot: the counter's value, which no thread has.
LEMMA KernelClaimInv ==
    ASSUME KernelInv, NEW t \in Kernel!Threads, Kernel!Claim(t)
    PROVE  KernelInv'
<1>1. /\ UNCHANGED <<scores, threshold, slots, resetDone>>
      /\ thread[t] = "scan" /\ Kernel!IsCandidate(t)
      /\ claimed' = [claimed EXCEPT ![t] = counter] /\ counter' = counter + 1
      /\ thread' = [thread EXCEPT ![t] = "write"]
      /\ countedEarly' = (countedEarly \/ ~resetDone)
    BY DEF Kernel!Claim
<1>2. /\ \A u : Kernel!IsCandidate(u)' <=> Kernel!IsCandidate(u)
      /\ \A u : Selected(u)' = Selected(u)
      /\ Detections' = Detections
    BY <1>1, KernelInputs
<1>3. /\ thread \in [Kernel!Threads -> {"reset", "barrier", "scan", "write", "done"}]
      /\ claimed \in [Kernel!Threads -> Nat] /\ counter \in Nat
    BY DEF KernelInv, KernelTypes
<1>4. Claimants' = Claimants \union {t} /\ t \notin Claimants
    BY <1>1, <1>2, <1>3 DEF Claimants
<1>5. KernelTypes'
  <2>1. countedEarly' \in BOOLEAN
    BY <1>1 DEF KernelInv, KernelTypes
  <2>2. /\ thread' \in [Kernel!Threads -> {"reset", "barrier", "scan", "write", "done"}]
        /\ claimed' \in [Kernel!Threads -> Nat] /\ counter' \in Nat
    BY <1>1, <1>3
  <2> QED BY <1>1, <1>2, <2>1, <2>2 DEF KernelInv, KernelTypes
<1>6. KernelOrder'
    BY <1>1, <1>2, <1>3, Grid DEF KernelInv, KernelOrder
<1>7. KernelCounts'
  <2> SUFFICES ASSUME ~countedEarly'
               PROVE  /\ ~resetDone' => Claimants' = {}
                      /\ resetDone' => counter' = Cardinality(Claimants')
                      /\ \A u \in Claimants' : claimed'[u] < counter'
                      /\ \A u, w \in Claimants' : claimed'[u] = claimed'[w] => u = w
                      /\ \A u \in Claimants' :
                          thread'[u] = "done" /\ claimed'[u] < MaxDet => slots'[claimed'[u]] = Selected(u)'
    BY DEF KernelCounts
  <2>1. ~countedEarly /\ resetDone
    BY <1>1
  <2>2. /\ counter = Cardinality(Claimants)
        /\ \A u \in Claimants : claimed[u] < counter
        /\ \A u, w \in Claimants : claimed[u] = claimed[w] => u = w
        /\ \A u \in Claimants : thread[u] = "done" /\ claimed[u] < MaxDet => slots[claimed[u]] = Selected(u)
    BY <2>1 DEF KernelInv, KernelCounts
  <2>3. \A u \in Claimants : u \in Kernel!Threads /\ u # t
    BY <1>4 DEF Claimants
  <2>4. /\ claimed'[t] = counter /\ thread'[t] = "write"
        /\ \A u \in Claimants : claimed'[u] = claimed[u] /\ thread'[u] = thread[u] /\ claimed[u] \in Nat
    BY <1>1, <1>3, <2>3
  <2>5. counter' = Cardinality(Claimants')
    <3>1. IsFiniteSet(Claimants)
      BY Grid, FS_Subset DEF Claimants
    <3>2. Cardinality(Claimants \union {t}) = Cardinality(Claimants) + 1
      BY <1>4, <3>1, FS_AddElement
    <3> QED BY <1>1, <1>4, <2>2, <3>2
  <2>6. \A u \in Claimants' : claimed'[u] < counter'
    BY <1>1, <1>3, <1>4, <2>2, <2>4
  <2>7. \A u, w \in Claimants' : claimed'[u] = claimed'[w] => u = w
    BY <1>3, <1>4, <2>2, <2>4
  <2>8. \A u \in Claimants' :
          thread'[u] = "done" /\ claimed'[u] < MaxDet => slots'[claimed'[u]] = Selected(u)'
    BY <1>1, <1>2, <1>4, <2>2, <2>4
  <2> QED BY <1>1, <2>1, <2>5, <2>6, <2>7, <2>8
<1> QED BY <1>5, <1>6, <1>7 DEF KernelInv

\* A thread fills the slot it has claimed, which is no other thread's.
LEMMA KernelWriteInv ==
    ASSUME KernelInv, NEW t \in Kernel!Threads, Kernel!Write(t)
    PROVE  KernelInv'
<1>1. /\ UNCHANGED <<scores, threshold, counter, claimed, resetDone, countedEarly>>
      /\ thread[t] = "write" /\ thread' = [thread EXCEPT ![t] = "done"]
    BY DEF Kernel!Write
<1>2. slots' = IF claimed[t] < MaxDet THEN [slots EXCEPT ![claimed[t]] = Selected(t)] ELSE slots
    BY DEF Kernel!Write, Selected
<1>3. /\ \A u : Kernel!IsCandidate(u)' <=> Kernel!IsCandidate(u)
      /\ \A u : Selected(u)' = Selected(u)
      /\ Detections' = Detections
    BY <1>1, KernelInputs
<1>4. /\ thread \in [Kernel!Threads -> {"reset", "barrier", "scan", "write", "done"}]
      /\ claimed \in [Kernel!Threads -> Nat]
      /\ slots \in [0 .. MaxDet - 1 -> Detections \union {Kernel!Empty}]
    BY DEF KernelInv, KernelTypes
<1>5. Claimants' = Claimants /\ t \in Claimants
    BY <1>1, <1>3, <1>4 DEF KernelInv, KernelOrder, Claimants
<1>6. slots' \in [0 .. MaxDet - 1 -> Detections \union {Kernel!Empty}]
  <2>1. Selected(t) \in Detections
    BY DEF Detections
  <2> QED BY <1>2, <1>4, <2>1
<1>7. KernelTypes'
    BY <1>1, <1>3, <1>4, <1>6 DEF KernelInv, KernelTypes
<1>8. KernelOrder'
    BY <1>1, <1>3, <1>4, Grid DEF KernelInv, KernelOrder
<1>9. KernelCounts'
  <2>1. \A u \in Claimants : u \in Kernel!Threads /\ claimed[u] \in Nat
    BY <1>4 DEF Claimants
  <2>2. ASSUME ~countedEarly, NEW u \in Claimants, thread'[u] = "done", claimed[u] < MaxDet
        PROVE  slots'[claimed[u]] = Selected(u)
    <3>1. claimed[u] \in 0 .. MaxDet - 1
      BY <2>1, <2>2, KernelAssumption
    <3>2. CASE u = t
      BY <1>2, <1>4, <2>2, <3>1, <3>2
    <3>3. CASE u # t
      <4>1. claimed[u] # claimed[t]
        BY <1>5, <2>2, <3>3 DEF KernelInv, KernelCounts
      <4>2. slots'[claimed[u]] = slots[claimed[u]]
        BY <1>2, <1>4, <3>1, <4>1
      <4>3. thread[u] = "done"
        BY <1>1, <1>4, <2>1, <2>2, <3>3
      <4> QED BY <2>2, <4>2, <4>3 DEF KernelInv, KernelCounts
    <3> QED BY <3>2, <3>3
  <2> QED BY <1>1, <1>3, <1>5, <2>2 DEF KernelInv, KernelCounts
<1> QED BY <1>7, <1>8, <1>9 DEF KernelInv

\* Every step keeps the invariant.
LEMMA KernelNextInv == KernelInv /\ [Kernel!Next]_(Kernel!vars) => KernelInv'
<1> SUFFICES ASSUME KernelInv, [Kernel!Next]_(Kernel!vars) PROVE KernelInv'
    OBVIOUS
<1>1. thread \in [Kernel!Threads -> {"reset", "barrier", "scan", "write", "done"}]
    BY DEF KernelInv, KernelTypes
<1>2. ASSUME NEW b \in Kernel!Blocks, Kernel!Synchronise(b) PROVE KernelInv'
  <2>1. UNCHANGED <<scores, threshold, slots, counter, claimed, resetDone, countedEarly>>
    BY <1>2 DEF Kernel!Synchronise
  <2>2. \A t \in Kernel!Threads :
          thread'[t] = thread[t] \/ (thread[t] = "barrier" /\ thread'[t] = "scan")
    BY <1>2 DEF Kernel!Synchronise
  <2>3. thread' \in [Kernel!Threads -> {"reset", "barrier", "scan", "write", "done"}]
    BY <1>1, <1>2 DEF Kernel!Synchronise
  <2> QED BY <2>1, <2>2, <2>3, Grid, SameClaimants
<1>3. ASSUME NEW t \in Kernel!Threads, Kernel!Skip(t) PROVE KernelInv'
  <2>1. UNCHANGED <<scores, threshold, slots, counter, claimed, resetDone, countedEarly>>
    BY <1>3 DEF Kernel!Skip
  <2>2. /\ thread[t] = "scan" /\ ~Kernel!IsCandidate(t)
        /\ thread' = [thread EXCEPT ![t] = "done"]
    BY <1>3 DEF Kernel!Skip
  <2> QED BY <1>1, <2>1, <2>2, Grid, SameClaimants
<1>4. ASSUME NEW t \in Kernel!Threads, Kernel!Claim(t) \/ Kernel!Write(t) PROVE KernelInv'
    BY <1>4, KernelClaimInv, KernelWriteInv
<1>5. CASE Kernel!Over \/ UNCHANGED Kernel!vars
  <2>1. UNCHANGED <<scores, threshold, counter, slots, thread, claimed, resetDone, countedEarly>>
    BY <1>5 DEF Kernel!Over, Kernel!vars
  <2> QED BY <1>1, <2>1, SameClaimants
<1> QED BY <1>2, <1>3, <1>4, <1>5, KernelResetInv DEF Kernel!Next

\* The inductive invariant holds of every run of the kernel, for any grid, any
\* scores and thresholds, and whatever an earlier call left in the counter.
THEOREM KernelInvariant == KernelSpec => []KernelInv
<1>1. Kernel!Init => KernelInv
    BY KernelInitInv
<1>2. KernelInv /\ [Kernel!Next]_(Kernel!vars) => KernelInv'
    BY KernelNextInv
<1> QED BY <1>1, <1>2, PTL DEF KernelSpec

------------------------------------------------------------------------------
(* The finished kernel. *)

\* One value for each of finitely many, all different: as many values.
LEMMA AsMany ==
    ASSUME NEW S, IsFiniteSet(S), NEW f, f = [s \in S |-> f[s]],
           \A s, r \in S : f[s] = f[r] => s = r
    PROVE  Cardinality({f[s] : s \in S}) = Cardinality(S)
<1> DEFINE T == {f[s] : s \in S}
<1>1. f \in [S -> T]
    OBVIOUS
<1>2. \A y \in T : \E s \in S : f[s] = y
    OBVIOUS
<1> HIDE DEF T
<1>3. f \in Bijection(S, T)
    BY <1>1, <1>2 DEF Bijection, Injection, Surjection, IsInjective
<1>4. ExistsBijection(S, T)
    BY <1>3 DEF ExistsBijection
<1> QED BY <1>4, FS_Bijection DEF T

\* A kernel that has finished, and counted nothing before the reset, has compacted
\* what the CPU build selects.
LEMMA FinishedCompacts ==
    ASSUME KernelInv, Kernel!Finished, ~countedEarly
    PROVE  Kernel!Compacted
<1>1. /\ counter \in Nat /\ resetDone
      /\ counter = Cardinality(Claimants)
      /\ \A t \in Claimants : claimed[t] \in Nat /\ claimed[t] < counter
      /\ \A t, u \in Claimants : claimed[t] = claimed[u] => t = u
      /\ \A t \in Claimants : claimed[t] < MaxDet => slots[claimed[t]] = Selected(t)
  <2>1. thread[<<0, 0>>] # "reset"
    BY Grid DEF Kernel!Finished
  <2>2. \A t \in Claimants : t \in Kernel!Threads /\ thread[t] = "done"
    BY DEF Claimants, Kernel!Finished
  <2> QED BY <2>1, <2>2 DEF KernelInv, KernelTypes, KernelOrder, KernelCounts
<1>2. Claimants = {t \in Kernel!Threads : Kernel!IsCandidate(t)}
    BY DEF Claimants, Kernel!Finished
<1>3. IsFiniteSet(Claimants)
    BY <1>2, Grid, FS_Subset
<1>4. \A t \in Claimants :
        /\ Kernel!Index(t) \in 0 .. Predictions - 1
        /\ Selected(t) = Kernel!Detection(Kernel!Index(t), Kernel!CpuBest(Kernel!Index(t)))
        /\ Kernel!CpuBest(Kernel!Index(t)).score >= threshold
  <2> SUFFICES ASSUME NEW t \in Claimants
               PROVE  /\ Kernel!Index(t) \in 0 .. Predictions - 1
                      /\ Selected(t) = Kernel!Detection(Kernel!Index(t), Kernel!CpuBest(Kernel!Index(t)))
                      /\ Kernel!CpuBest(Kernel!Index(t)).score >= threshold
    OBVIOUS
  <2>1. t \in Kernel!Threads /\ Kernel!Index(t) < Predictions /\ Kernel!KernelBest(Kernel!Index(t)).score >= threshold
    BY <1>2 DEF Kernel!IsCandidate
  <2>2. Kernel!Index(t) \in 0 .. Predictions - 1
    BY <2>1, Grid, KernelAssumption
  <2>3. Kernel!KernelBest(Kernel!Index(t)) = Kernel!CpuBest(Kernel!Index(t))
    BY <2>2, SameBest DEF KernelInv
  <2> QED BY <2>1, <2>2, <2>3 DEF Selected
<1>5. \A t, u \in Claimants : Selected(t) = Selected(u) => t = u
  <2> SUFFICES ASSUME NEW t \in Claimants, NEW u \in Claimants, Selected(t) = Selected(u) PROVE t = u
    OBVIOUS
  <2>1. Selected(t).prediction = Kernel!Index(t) /\ Selected(u).prediction = Kernel!Index(u)
    BY DEF Selected, Kernel!Detection
  <2>2. t \in Kernel!Threads /\ u \in Kernel!Threads
    BY <1>2
  <2> QED BY <2>1, <2>2, OneThreadEach
<1>6. Kernel!Candidates = {Selected(t) : t \in Claimants}
  <2>1. ASSUME NEW i \in 0 .. Predictions - 1, Kernel!CpuBest(i).score >= threshold
        PROVE  \E t \in Claimants : Selected(t) = Kernel!Detection(i, Kernel!CpuBest(i))
    <3>1. PICK t \in Kernel!Threads : Kernel!Index(t) = i
      BY OneThreadEach
    <3>2. Kernel!KernelBest(i) = Kernel!CpuBest(i) /\ i < Predictions
      BY SameBest, KernelAssumption DEF KernelInv
    <3>3. t \in Claimants
      BY <1>2, <2>1, <3>1, <3>2 DEF Kernel!IsCandidate
    <3> QED BY <3>1, <3>2, <3>3 DEF Selected
  <2> QED BY <1>4, <2>1 DEF Kernel!Candidates
<1>7. counter = Cardinality(Kernel!Candidates)
  <2> DEFINE f == [t \in Claimants |-> Selected(t)]
  <2>1. \A t \in Claimants : f[t] = Selected(t)
    OBVIOUS
  <2>2. {f[t] : t \in Claimants} = Kernel!Candidates
    BY <1>6, <2>1
  <2>3. f = [t \in Claimants |-> f[t]]
    OBVIOUS
  <2> HIDE DEF f
  <2>4. Cardinality({f[t] : t \in Claimants}) = Cardinality(Claimants)
    BY <1>3, <1>5, <2>1, <2>3, AsMany
  <2> QED BY <1>1, <2>2, <2>4
\* The claimed slots are the numbers below the counter, and all of them.
<1>8. \A s \in 0 .. counter - 1 : \E t \in Claimants : claimed[t] = s
  <2> DEFINE f == [t \in Claimants |-> claimed[t]]
             N == 0 .. counter - 1
  <2>1. f \in [Claimants -> N] /\ \A t \in Claimants : f[t] = claimed[t]
    BY <1>1
  <2>2. IsFiniteSet(N) /\ Cardinality(N) = counter
    <3>1. 0 \in Int /\ counter - 1 \in Int /\ (IF 0 > counter - 1 THEN 0 ELSE counter - 1 - 0 + 1) = counter
      BY <1>1
    <3> QED BY <3>1, FS_Interval
  <2> HIDE DEF f, N
  <2>3. f \in Injection(Claimants, N)
    BY <1>1, <2>1 DEF Injection, IsInjective
  <2>4. f \in Surjection(Claimants, N)
    BY <1>1, <2>2, <2>3, FS_Injection
  <2>5. \A s \in N : \E t \in Claimants : f[t] = s
    BY <2>4 DEF Surjection
  <2> QED BY <2>1, <2>5 DEF N
<1> DEFINE m == Kernel!Min({counter, MaxDet})
<1>9. m \in Nat /\ m <= counter /\ m <= MaxDet
  <2>1. counter \in Nat /\ MaxDet \in Nat
    BY <1>1, KernelAssumption
  <2>2. \E x \in {counter, MaxDet} : \A y \in {counter, MaxDet} : x =< y
    BY <2>1
  <2>3. m \in {counter, MaxDet} /\ \A y \in {counter, MaxDet} : m =< y
    BY <2>2 DEF Kernel!Min
  <2> QED BY <2>1, <2>3
<1>10. Kernel!Kept = {slots[s] : s \in 0 .. m - 1}
    BY DEF Kernel!Kept
<1> HIDE DEF m
<1>11. \A s \in 0 .. m - 1 : \E t \in Claimants : claimed[t] = s /\ slots[s] = Selected(t)
  <2> SUFFICES ASSUME NEW s \in 0 .. m - 1
               PROVE  \E t \in Claimants : claimed[t] = s /\ slots[s] = Selected(t)
    OBVIOUS
  <2>1. s \in 0 .. counter - 1 /\ s < MaxDet
    BY <1>1, <1>9, KernelAssumption
  <2>2. PICK t \in Claimants : claimed[t] = s
    BY <1>8, <2>1
  <2> QED BY <1>1, <2>1, <2>2
<1>12. Kernel!Kept \subseteq Kernel!Candidates
    BY <1>6, <1>10, <1>11
<1>13. Cardinality(Kernel!Kept) = m
  <2> DEFINE f == [s \in 0 .. m - 1 |-> slots[s]]
             N == 0 .. m - 1
  <2>1. \A s \in N : f[s] = slots[s]
    OBVIOUS
  <2>2. \A s, r \in N : f[s] = f[r] => s = r
    BY <1>5, <1>11, <2>1
  <2>3. IsFiniteSet(N) /\ Cardinality(N) = m
    BY <1>9, FS_Interval
  <2>4. f = [s \in N |-> f[s]] /\ {f[s] : s \in N} = Kernel!Kept
    BY <1>10, <2>1
  <2> HIDE DEF f, N
  <2>5. Cardinality({f[s] : s \in N}) = Cardinality(N)
    BY <2>2, <2>3, <2>4, AsMany
  <2> QED BY <2>3, <2>4, <2>5
<1> QED BY <1>7, <1>12, <1>13, KernelCount DEF Kernel!Compacted, m

\* A filter kernel that counted nothing before the counter was reset leaves the
\* detections that the CPU build selects, each once, or max_det of them
\* (gpu_filter.cu, YoloDetector.cpp): for any grid, classes, scores and thresholds.
THEOREM KernelMatchesCpu == KernelSpec => []FilterMatchesCpu
<1>1. KernelInv => FilterMatchesCpu
    BY FinishedCompacts DEF FilterMatchesCpu, Kernel!CompactedUnlessCountedEarly
<1> QED BY <1>1, KernelInvariant, PTL

\* With no more predictions than a block has threads, the reset is before the
\* block's barrier and every count after it: nothing is counted early.
ResetFirst ==
    /\ ~countedEarly
    /\ ~resetDone => \A t \in Kernel!Threads : thread[t] \in {"reset", "barrier"}

\* Such a grid is one block.
LEMMA OneBlock ==
    ASSUME Predictions <= ThreadsPerBlock
    PROVE  \A t \in Kernel!Threads : t[1] = 0
<1>1. \A a, b \in Nat \ {0} : a <= b => (a + b - 1) \div b = 1
  <2> SUFFICES ASSUME NEW a \in Nat \ {0}, NEW b \in Nat \ {0}, a <= b
               PROVE  (a + b - 1) \div b = 1
    OBVIOUS
  <2>1. PICK c \in Nat : a + b - 1 = b + c /\ c < b
    <3>1. a - 1 \in Nat /\ a + b - 1 = b + (a - 1) /\ a - 1 < b
      OBVIOUS
    <3> QED BY <3>1
  <2> QED BY <2>1
<1>2. (Predictions + ThreadsPerBlock - 1) \div ThreadsPerBlock = 1
    BY <1>1, KernelAssumption
<1>3. Kernel!Blocks = {0}
    BY <1>2 DEF Kernel!Blocks
<1> QED BY <1>3 DEF Kernel!Threads

\* In one block no thread is past the barrier before the reset.
LEMMA NextResetFirst ==
    ASSUME Predictions <= ThreadsPerBlock, KernelInv, ResetFirst, [Kernel!Next]_(Kernel!vars)
    PROVE  ResetFirst'
<1>1. thread \in [Kernel!Threads -> {"reset", "barrier", "scan", "write", "done"}]
    BY DEF KernelInv, KernelTypes
<1>2. CASE Kernel!Reset
    BY <1>2 DEF Kernel!Reset, ResetFirst
<1>3. ASSUME NEW b \in Kernel!Blocks, Kernel!Synchronise(b) PROVE ResetFirst'
  <2>1. <<0, 0>> \in Kernel!Threads /\ <<b, 0>> \in Kernel!Threads
    BY Grid, KernelAssumption DEF Kernel!Threads
  <2>2. b = 0
    BY <2>1, OneBlock
  <2>3. thread[<<0, 0>>] = "barrier"
    BY <1>3, <2>1, <2>2 DEF Kernel!Synchronise
  <2>4. resetDone
    BY <2>3 DEF KernelInv, KernelOrder
  <2> QED BY <1>3, <2>4 DEF Kernel!Synchronise, ResetFirst
<1>4. ASSUME NEW t \in Kernel!Threads, Kernel!Skip(t) \/ Kernel!Claim(t) \/ Kernel!Write(t)
      PROVE  ResetFirst'
  <2>1. thread[t] \in {"scan", "write"}
    BY <1>4 DEF Kernel!Skip, Kernel!Claim, Kernel!Write
  <2>2. thread[t] \notin {"reset", "barrier"}
    BY <2>1
  <2>3. resetDone
    BY <2>2 DEF ResetFirst
  <2>4. CASE Kernel!Skip(t) \/ Kernel!Write(t)
    <3>1. resetDone' = resetDone /\ countedEarly' = countedEarly
      BY <2>4 DEF Kernel!Skip, Kernel!Write
    <3>2. ~countedEarly' /\ resetDone'
      BY <2>3, <3>1, Zenon DEF ResetFirst
    <3> QED BY <3>2 DEF ResetFirst
  <2>5. CASE Kernel!Claim(t)
    <3>1. resetDone' = resetDone /\ countedEarly' = (countedEarly \/ ~resetDone)
      BY <2>5 DEF Kernel!Claim
    <3>2. ~countedEarly' /\ resetDone'
      BY <2>3, <3>1, Zenon DEF ResetFirst
    <3> QED BY <3>2 DEF ResetFirst
  <2> QED BY <1>4, <2>4, <2>5
<1>5. CASE Kernel!Over \/ UNCHANGED Kernel!vars
    BY <1>5 DEF Kernel!Over, Kernel!vars, ResetFirst
<1> QED BY <1>2, <1>3, <1>4, <1>5 DEF Kernel!Next

\* (comment at gpu_filter.cu:26-27) The fence and the block's barrier are enough for
\* one block: the finished kernel leaves exactly the CPU's candidates.
THEOREM OneBlockCompacts ==
    ASSUME Predictions <= ThreadsPerBlock
    PROVE  KernelSpec => []Kernel!CompactedExactly
<1>1. Kernel!Init => KernelInv /\ ResetFirst
  <2>1. Kernel!Init => ResetFirst
    BY DEF Kernel!Init, ResetFirst
  <2> QED BY <2>1, KernelInitInv
<1>2. KernelInv /\ ResetFirst /\ [Kernel!Next]_(Kernel!vars) => KernelInv' /\ ResetFirst'
    BY KernelNextInv, NextResetFirst
<1>3. KernelInv /\ ResetFirst => Kernel!CompactedExactly
    BY FinishedCompacts DEF ResetFirst, Kernel!CompactedExactly
<1> QED BY <1>1, <1>2, <1>3, PTL DEF KernelSpec

------------------------------------------------------------------------------
(* Where the pixels go.  Everything is decided by four numbers: the scale n/d, *)
(* a side of the picture p, and what the letterbox makes of it, w, which is    *)
(* p * n/d rounded.  All fractions are multiplied out.                         *)

\* The quotient, rounded down.
LEMMA Quotient ==
    ASSUME NEW a \in Int, NEW b \in Nat \ {0}
    PROVE  a \div b \in Int /\ b * (a \div b) <= a /\ a < b * (a \div b) + b
OBVIOUS

\* What remains.
LEMMA Remainder ==
    ASSUME NEW a \in Int, NEW b \in Nat \ {0}
    PROVE  a = (a % b) + (a \div b) * b
OBVIOUS

\* The same inequality, times k.
LEMMA Times ==
    ASSUME NEW a \in Int, NEW b \in Int, NEW k \in Nat, a <= b
    PROVE  a * k <= b * k
OBVIOUS

\* And back again.
LEMMA Cancel ==
    ASSUME NEW a \in Int, NEW b \in Int, NEW k \in Nat \ {0}
    PROVE  (a < b <=> a * k < b * k) /\ (a <= b <=> a * k <= b * k)
OBVIOUS

\* std::round is within one half.
LEMMA Rounded ==
    ASSUME NEW x \in Int, NEW n \in Nat \ {0}
    PROVE  LET r == Geometry!Round(x, n)
           IN  r \in Int /\ 2 * (n * r) - n <= 2 * x /\ 2 * x < 2 * (n * r) + n
<1>1. 2 * x + n \in Int /\ 2 * n \in Nat \ {0}
    OBVIOUS
<1> DEFINE r == (2 * x + n) \div (2 * n)
<1>2. r \in Int /\ (2 * n) * r <= 2 * x + n /\ 2 * x + n < (2 * n) * r + 2 * n
    BY <1>1, Quotient
<1> HIDE DEF r
<1>3. (2 * n) * r = 2 * (n * r)
    BY <1>2
<1> QED BY <1>2, <1>3 DEF Geometry!Round, r

\* Half of what is left, on either side.
LEMMA Halved ==
    ASSUME NEW x \in Int
    PROVE  x \div 2 \in Int /\ x - 2 * (x \div 2) \in {0, 1} /\ (x >= 0 => x \div 2 >= 0)
OBVIOUS

\* A clamped number.
LEMMA Clamped ==
    ASSUME NEW x \in Int, NEW high \in Nat
    PROVE  LET y == Geometry!Clamp(x, 0, high)
           IN  y \in 0 .. high /\ (y <= x \/ y = 0) /\ (y >= x \/ y = high)
BY DEF Geometry!Clamp

------------------------------------------------------------------------------
(* The letterbox. *)

\* The scale at which a picture fits.
LEMMA Fits ==
    ASSUME NEW p, NEW s, p[1] \in Nat \ {0}, p[2] \in Nat \ {0}, s[1] \in Nat, s[2] \in Nat
    PROVE  LET f == Geometry!FitScale(p, s)
           IN  /\ f[1] \in Nat /\ f[2] \in Nat \ {0}
               /\ \A a \in {1, 2} : p[a] * f[1] <= s[a] * f[2]
<1>1. CASE s[1] * p[2] <= s[2] * p[1]
  <2>1. Geometry!FitScale(p, s) = <<s[1], p[1]>>
    BY <1>1 DEF Geometry!FitScale
  <2>2. p[1] * s[1] <= s[1] * p[1] /\ p[2] * s[1] <= s[2] * p[1]
    BY <1>1
  <2> QED BY <2>1, <2>2
<1>2. CASE ~(s[1] * p[2] <= s[2] * p[1])
  <2>1. Geometry!FitScale(p, s) = <<s[2], p[2]>>
    BY <1>2 DEF Geometry!FitScale
  <2>2. p[1] * s[2] <= s[1] * p[2] /\ p[2] * s[2] <= s[2] * p[2]
    BY <1>2
  <2> QED BY <2>1, <2>2
<1> QED BY <1>1, <1>2

\* A side scaled by a scale at which it fits is not longer than it may be.
LEMMA ScaledFits ==
    ASSUME NEW p \in Nat \ {0}, NEW n \in Nat, NEW d \in Nat \ {0}, NEW s \in Nat, p * n <= s * d
    PROVE  LET w == Geometry!Round(p * n, d)
           IN  /\ w \in Nat /\ w <= s
               /\ 2 * (d * w) - d <= 2 * (p * n) /\ 2 * (p * n) < 2 * (d * w) + d
<1> DEFINE w == Geometry!Round(p * n, d)
<1>1. p * n \in Int /\ p * n >= 0
    OBVIOUS
<1>2. w \in Int /\ 2 * (d * w) - d <= 2 * (p * n) /\ 2 * (p * n) < 2 * (d * w) + d
    BY <1>1, Rounded
<1> HIDE DEF w
<1>3. w >= 0
  <2>1. 0 < (2 * w + 1) * d
    BY <1>1, <1>2
  <2>2. 0 * d < (2 * w + 1) * d /\ 2 * w + 1 \in Int
    BY <1>2, <2>1
  <2>3. 0 < 2 * w + 1
    BY <2>2, Cancel
  <2> QED BY <1>2, <2>3
<1>4. w <= s
  <2>1. (2 * w - 1) * d <= (2 * s) * d
    BY <1>1, <1>2
  <2>2. 2 * w - 1 \in Int /\ 2 * s \in Int
    BY <1>2
  <2>3. 2 * w - 1 <= 2 * s
    BY <2>1, <2>2, Cancel
  <2> QED BY <1>2, <2>3
<1> QED BY <1>2, <1>3, <1>4 DEF w

\* What the letterbox of a picture on a canvas is like.
Boxed(b, p, c) ==
    /\ b.scale[1] \in Nat /\ b.scale[2] \in Nat \ {0}
    /\ \A a \in {1, 2} :
        /\ b.new[a] \in Nat /\ b.new[a] <= c[a]
        /\ b.pad[a] = (c[a] - b.new[a]) \div 2
        /\ 2 * (b.scale[2] * b.new[a]) - b.scale[2] <= 2 * (p[a] * b.scale[1])
        /\ 2 * (p[a] * b.scale[1]) < 2 * (b.scale[2] * b.new[a]) + b.scale[2]

\* It is like this with and without the alignment to the stride.
LEMMA LetterboxFits ==
    ASSUME NEW p, NEW c, NEW align \in BOOLEAN,
           p[1] \in Nat \ {0}, p[2] \in Nat \ {0}, c[1] \in Nat, c[2] \in Nat
    PROVE  Boxed(Geometry!Letterbox(p, c, align), p, c)
<1> DEFINE fit == Geometry!FitScale(p, c)
           aligned == Geometry!AlignDown(Geometry!ScaledTo(p, fit))
           scale == IF align THEN Geometry!FitScale(p, aligned) ELSE fit
           b == Geometry!Letterbox(p, c, align)
<1>1. /\ fit[1] \in Nat /\ fit[2] \in Nat \ {0}
      /\ \A a \in {1, 2} : p[a] * fit[1] <= c[a] * fit[2]
    BY Fits
<1> HIDE DEF fit
<1>2. \A a \in {1, 2} : Geometry!Round(p[a] * fit[1], fit[2]) \in Nat /\ Geometry!Round(p[a] * fit[1], fit[2]) <= c[a]
    BY <1>1, ScaledFits
<1>3. \A a \in {1, 2} : aligned[a] \in Nat /\ aligned[a] <= c[a]
  <2> SUFFICES ASSUME NEW a \in {1, 2} PROVE aligned[a] \in Nat /\ aligned[a] <= c[a]
    OBVIOUS
  <2> DEFINE w == Geometry!Round(p[a] * fit[1], fit[2])
  <2>1. aligned[a] = w - (w % 32)
    BY DEF Geometry!AlignDown, Geometry!ScaledTo, Geometry!Stride, Geometry!Axes
  <2>2. w \in Nat /\ w <= c[a]
    BY <1>2
  <2> HIDE DEF w
  <2>3. w % 32 \in 0 .. w
    BY <2>2
  <2> QED BY <2>1, <2>2, <2>3
<1> HIDE DEF aligned
<1>4. /\ scale[1] \in Nat /\ scale[2] \in Nat \ {0}
      /\ \A a \in {1, 2} : p[a] * scale[1] <= c[a] * scale[2]
  <2>1. CASE ~align
    BY <1>1, <2>1
  <2>2. CASE align
    <3>1. /\ scale[1] \in Nat /\ scale[2] \in Nat \ {0}
          /\ \A a \in {1, 2} : p[a] * scale[1] <= aligned[a] * scale[2]
      BY <1>3, <2>2, Fits
    <3>2. \A a \in {1, 2} : aligned[a] * scale[2] <= c[a] * scale[2]
      BY <1>3, <3>1, Times
    <3>3. \A a \in {1, 2} : p[a] * scale[1] \in Int /\ aligned[a] * scale[2] \in Int /\ c[a] * scale[2] \in Int
      BY <1>3, <3>1
    <3> QED BY <3>1, <3>2, <3>3
  <2> QED BY <2>1, <2>2
<1>5. b = [scale |-> scale, new |-> Geometry!ScaledTo(p, scale),
           pad |-> [a \in {1, 2} |-> (c[a] - Geometry!ScaledTo(p, scale)[a]) \div 2]]
    BY DEF Geometry!Letterbox, Geometry!Axes, fit, aligned
<1> HIDE DEF scale, b
<1>6. \A a \in {1, 2} : b.new[a] = Geometry!Round(p[a] * scale[1], scale[2]) /\ b.pad[a] = (c[a] - b.new[a]) \div 2
    BY <1>5 DEF Geometry!ScaledTo, Geometry!Axes
<1>7. \A a \in {1, 2} :
        /\ b.new[a] \in Nat /\ b.new[a] <= c[a]
        /\ 2 * (scale[2] * b.new[a]) - scale[2] <= 2 * (p[a] * scale[1])
        /\ 2 * (p[a] * scale[1]) < 2 * (scale[2] * b.new[a]) + scale[2]
  <2> SUFFICES ASSUME NEW a \in {1, 2}
               PROVE  LET w == Geometry!Round(p[a] * scale[1], scale[2])
                      IN  /\ w \in Nat /\ w <= c[a]
                          /\ 2 * (scale[2] * w) - scale[2] <= 2 * (p[a] * scale[1])
                          /\ 2 * (p[a] * scale[1]) < 2 * (scale[2] * w) + scale[2]
    BY <1>6
  <2>1. p[a] \in Nat \ {0} /\ c[a] \in Nat /\ p[a] * scale[1] <= c[a] * scale[2]
    BY <1>4
  <2> QED BY <1>4, <2>1, ScaledFits
<1>8. b.scale = scale
    BY <1>5
<1> QED BY <1>4, <1>6, <1>7, <1>8 DEF Boxed, b

------------------------------------------------------------------------------
(* From canvas to picture: where a canvas pixel is sampled, and to where an    *)
(* edge there is decoded.                                                      *)

\* The number before it is clamped, for the canvas pixel l of the drawn area.
Left(l, rate) == ((2 * l + 1) * rate[2] - rate[1]) \div (2 * rate[1])

\* What both builds guarantee of it: sampling stays within one canvas pixel, and
\* three halves of a picture pixel.
LEMMA SampledByKernel ==
    ASSUME NEW n \in Nat \ {0}, NEW d \in Nat \ {0}, NEW l \in Nat
    PROVE  LET s == Left(l, <<n, d>>)
           IN  /\ s \in Int
               /\ 2 * (l * d) + d - 3 * n < 2 * (n * s) /\ 2 * (n * s) <= 2 * (l * d) + d - n
<1> DEFINE x == (2 * l + 1) * d - n
           s == x \div (2 * n)
<1>1. x \in Int /\ 2 * n \in Nat \ {0}
    OBVIOUS
<1>2. s \in Int /\ (2 * n) * s <= x /\ x < (2 * n) * s + 2 * n
    BY <1>1, Quotient
<1>3. Left(l, <<n, d>>) = s
    BY DEF Left
<1> HIDE DEF s
<1>4. (2 * n) * s = 2 * (n * s) /\ x = 2 * (l * d) + d - n
    BY <1>2
<1> HIDE DEF x
<1> QED BY <1>1, <1>2, <1>3, <1>4

\* cv::resize: w pixels for p, and never past the last pixel.
LEMMA SampledByResize ==
    ASSUME NEW n \in Nat \ {0}, NEW d \in Nat \ {0}, NEW p \in Nat \ {0}, NEW w \in Nat \ {0},
           NEW l \in Nat, l < w,
           2 * (d * w) - d <= 2 * (p * n), 2 * (p * n) < 2 * (d * w) + d
    PROVE  LET s == Left(l, <<w, p>>)
           IN  /\ s \in Int
               /\ 2 * (l * d) - 3 * n < 2 * (n * s) /\ 2 * (n * s) <= 2 * (l * d) + 2 * d - n
               /\ l = w - 1 => 2 * (p * n) - 2 * d - 3 * n < 2 * (n * s)
<1> DEFINE x == (2 * l + 1) * p - w
           s == x \div (2 * w)
<1>1. x \in Int /\ 2 * w \in Nat \ {0}
    OBVIOUS
<1>2. s \in Int /\ (2 * w) * s <= x /\ x < (2 * w) * s + 2 * w
    BY <1>1, Quotient
<1>3. Left(l, <<w, p>>) = s
    BY DEF Left
<1> HIDE DEF s
<1>4. (2 * (w * s)) * n <= ((2 * l + 1) * p - w) * n /\ ((2 * l + 1) * p - w) * n < (2 * (w * s) + 2 * w) * n
  <2>1. /\ 2 * (w * s) \in Int /\ (2 * l + 1) * p - w \in Int /\ 2 * (w * s) + 2 * w \in Int
        /\ (2 * w) * s = 2 * (w * s)
    BY <1>2
  <2> QED BY <1>2, <2>1, Cancel
<1>5. (2 * (d * w) - d) * (2 * l + 1) <= (2 * (p * n)) * (2 * l + 1)
      /\ (2 * (p * n)) * (2 * l + 1) <= (2 * (d * w) + d) * (2 * l + 1)
  <2>1. 2 * (d * w) - d \in Int /\ 2 * (p * n) \in Int /\ 2 * (d * w) + d \in Int /\ 2 * l + 1 \in Nat
    OBVIOUS
  <2> QED BY <2>1, Times
<1>6. (2 * l + 1) * d <= (2 * w - 1) * d
  <2>1. 2 * l + 1 \in Int /\ 2 * w - 1 \in Int /\ 2 * l + 1 <= 2 * w - 1
    OBVIOUS
  <2> QED BY <2>1, Times
<1>7. (2 * (l * d) - 3 * n) * (2 * w) < (2 * (n * s)) * (2 * w)
    BY <1>2, <1>4, <1>5, <1>6
<1>8. (2 * (n * s)) * (2 * w) <= (2 * (l * d) + 2 * d - n) * (2 * w)
    BY <1>2, <1>4, <1>5, <1>6
<1>9. /\ 2 * (n * s) \in Int /\ 2 * (l * d) - 3 * n \in Int /\ 2 * (l * d) + 2 * d - n \in Int
      /\ 2 * (p * n) - 2 * d - 3 * n \in Int
    BY <1>2
<1>10. ASSUME l = w - 1 PROVE 2 * (p * n) - 2 * d - 3 * n < 2 * (n * s)
  <2>1. d <= d * w
    BY <1>1
  <2>2. (2 * l + 1) * (p * n) = 2 * (w * (p * n)) - p * n
    BY <1>10
  <2>3. (2 * (p * n) - 2 * d - 3 * n) * (2 * w) < (2 * (n * s)) * (2 * w)
    BY <1>2, <1>4, <2>1, <2>2
  <2> QED BY <1>1, <1>9, <2>3, Cancel
<1>11. 2 * (l * d) - 3 * n < 2 * (n * s) /\ 2 * (n * s) <= 2 * (l * d) + 2 * d - n
    BY <1>1, <1>7, <1>8, <1>9, Cancel
<1> QED BY <1>2, <1>3, <1>10, <1>11

\* How far two points of the picture may be apart.
Close(m, r, n, d) == Geometry!Abs(m - r) * n <= d + 3 * n

\* The same in two inequalities.
LEMMA CloseBounds ==
    ASSUME NEW m \in Int, NEW r \in Int, NEW n \in Nat \ {0}, NEW d \in Nat,
           2 * (n * m) - 2 * (n * r) <= 2 * d + 6 * n, 2 * (n * r) - 2 * (n * m) <= 2 * d + 6 * n
    PROVE  Close(m, r, n, d)
<1>1. CASE m - r < 0
  <2>1. Geometry!Abs(m - r) * n = n * r - n * m
    BY <1>1 DEF Geometry!Abs
  <2> QED BY <2>1 DEF Close
<1>2. CASE ~(m - r < 0)
  <2>1. Geometry!Abs(m - r) * n = n * m - n * r
    BY <1>2 DEF Geometry!Abs
  <2> QED BY <2>1 DEF Close
<1> QED BY <1>1, <1>2

\* The picture's first and last pixel, and what a box says of the canvas pixel l:
\* r if it begins there, q if it ends after it.
LEMMA AllClose ==
    ASSUME NEW n \in Nat \ {0}, NEW d \in Nat \ {0}, NEW p \in Nat \ {0}, NEW l \in Nat, NEW s \in Int,
           2 * (l * d) - 3 * n < 2 * (n * s), 2 * (n * s) <= 2 * (l * d) + 2 * d - n
    PROVE  LET m == Geometry!Clamp(s, 0, p - 1)
               from == Geometry!Clamp(l * d, 0, p * n)
               to == Geometry!Clamp((l + 1) * d, 0, p * n)
           IN  /\ l = 0 => Close(m, 0, n, d)
               /\ 2 * (p * n) - 2 * d - 3 * n < 2 * (n * s) => Close(m, p - 1, n, d)
               /\ \A r \in Int :
                    2 * from - 2 * n < 2 * (n * r) /\ 2 * (n * r) <= 2 * from + n => Close(m, r, n, d)
               /\ \A q \in Int :
                    2 * to - 4 * n < 2 * (n * q) /\ 2 * (n * q) <= 2 * to + 2 * n => Close(m, q, n, d)
<1> DEFINE m == Geometry!Clamp(s, 0, p - 1)
           from == Geometry!Clamp(l * d, 0, p * n)
           to == Geometry!Clamp((l + 1) * d, 0, p * n)
<1>1. m \in 0 .. p - 1 /\ (m <= s \/ m = 0) /\ (m >= s \/ m = p - 1)
    BY Clamped
<1>2. l * d \in Nat /\ (l + 1) * d \in Nat /\ p * n \in Nat /\ (l + 1) * d = l * d + d
    OBVIOUS
<1>3. from \in Nat /\ from <= l * d /\ from <= p * n /\ (from = l * d \/ from = p * n)
    BY <1>2 DEF Geometry!Clamp
<1>4. to \in Nat /\ to <= l * d + d /\ to <= p * n /\ (to = l * d + d \/ to = p * n)
    BY <1>2 DEF Geometry!Clamp
<1> HIDE DEF m, from, to
\* The sample times the scale, whether it was clamped or not.
<1>5. /\ m \in Int /\ n * m \in Int
      /\ n * m >= 0 /\ n * m <= p * n - n
      /\ n * m <= n * s \/ n * m = 0
      /\ n * m >= n * s \/ n * m = p * n - n
  <2>1. 0 * n <= m * n /\ m * n <= (p - 1) * n
    BY <1>1, Times
  <2>2. m <= s => m * n <= s * n
    BY <1>1, Times
  <2>3. s <= m => s * n <= m * n
    BY <1>1, Times
  <2>4. m * n = n * m /\ s * n = n * s /\ (p - 1) * n = p * n - n /\ 0 * n = 0 /\ n * m \in Int
    BY <1>1
  <2>5. m = p - 1 => n * m = p * n - n
    BY <2>4
  <2> QED BY <1>1, <2>1, <2>2, <2>3, <2>4, <2>5
<1>6. n * s \in Int
    OBVIOUS
<1>7. l = 0 => Close(m, 0, n, d)
  <2> SUFFICES ASSUME l = 0 PROVE Close(m, 0, n, d)
    OBVIOUS
  <2>1. l * d = 0 /\ n * 0 = 0
    OBVIOUS
  <2>2. 2 * (n * m) - 2 * (n * 0) <= 2 * d + 6 * n /\ 2 * (n * 0) - 2 * (n * m) <= 2 * d + 6 * n
    BY <1>5, <1>6, <2>1
  <2> QED BY <1>5, <2>2, CloseBounds
<1>8. 2 * (p * n) - 2 * d - 3 * n < 2 * (n * s) => Close(m, p - 1, n, d)
  <2> SUFFICES ASSUME 2 * (p * n) - 2 * d - 3 * n < 2 * (n * s) PROVE Close(m, p - 1, n, d)
    OBVIOUS
  <2>1. n * (p - 1) = p * n - n
    OBVIOUS
  <2>2. 2 * (n * m) - 2 * (n * (p - 1)) <= 2 * d + 6 * n /\ 2 * (n * (p - 1)) - 2 * (n * m) <= 2 * d + 6 * n
    BY <1>2, <1>5, <1>6, <2>1
  <2> QED BY <1>5, <2>2, CloseBounds
<1>9. ASSUME NEW r \in Int, 2 * from - 2 * n < 2 * (n * r), 2 * (n * r) <= 2 * from + n
      PROVE  Close(m, r, n, d)
  <2>1. n * r \in Int
    OBVIOUS
  <2>2. 2 * (n * m) - 2 * (n * r) <= 2 * d + 6 * n
    BY <1>2, <1>3, <1>5, <1>6, <1>9, <2>1
  <2>3. 2 * (n * r) - 2 * (n * m) <= 2 * d + 6 * n
    BY <1>2, <1>3, <1>5, <1>6, <1>9, <2>1
  <2> QED BY <1>5, <2>2, <2>3, CloseBounds
<1>10. ASSUME NEW q \in Int, 2 * to - 4 * n < 2 * (n * q), 2 * (n * q) <= 2 * to + 2 * n
       PROVE  Close(m, q, n, d)
  <2>1. n * q \in Int
    OBVIOUS
  <2>2. 2 * (n * m) - 2 * (n * q) <= 2 * d + 6 * n
    BY <1>2, <1>4, <1>5, <1>6, <1>10, <2>1
  <2>3. 2 * (n * q) - 2 * (n * m) <= 2 * d + 6 * n
    BY <1>2, <1>4, <1>5, <1>6, <1>10, <2>1
  <2> QED BY <1>5, <2>2, <2>3, CloseBounds
<1> QED BY <1>7, <1>8, <1>9, <1>10 DEF m, from, to

------------------------------------------------------------------------------
(* ImageGeometry: what holds between preprocess and postprocess. *)

GeometrySpec == Geometry!Init /\ [][Geometry!Next]_(Geometry!vars)

GeometryTypes ==
    /\ runner \in {"yolo", "nafnet", "nafnet_rows", "resnet"}
    /\ cuda \in BOOLEAN /\ option \in BOOLEAN
    /\ picture \in Sides \X Sides
    /\ canvas \in Widths \X Heights
    /\ stage \in {"loaded", "prepared", "finished", "rejected", "undefined"}

YoloPlaced ==
    runner = "yolo" /\ stage \in {"prepared", "finished"} =>
        Boxed(placed, picture, canvas) /\ \A a \in {1, 2} : placed.new[a] # 0

YoloDecoded ==
    runner = "yolo" /\ stage = "finished" /\ result # Geometry!Nothing => \A a \in {1, 2} :
        /\ found[a][1] \in Nat /\ found[a][2] \in Nat
        /\ result[a] = Geometry!Decode(found[a][1], found[a][2], a)

NafPlaced ==
    runner = "nafnet" /\ stage \in {"prepared", "finished"} => \A a \in {1, 2} :
        /\ picture[a] <= canvas[a] /\ placed.new[a] = picture[a]
        /\ placed.pad[a] = (canvas[a] - picture[a]) \div 2

RowsPlaced ==
    runner = "nafnet_rows" /\ stage \in {"prepared", "finished"} => placed = Geometry!Unset

GeometryInv ==
    GeometryTypes /\ YoloPlaced /\ YoloDecoded /\ NafPlaced /\ RowsPlaced
        /\ Geometry!CropsUndoPadding

------------------------------------------------------------------------------
\* Sides are positive.
LEMMA PositiveSides ==
    ASSUME GeometryTypes
    PROVE  \A a \in {1, 2} : picture[a] \in Nat \ {0} /\ canvas[a] \in Nat \ {0}
BY GeometryAssumption DEF GeometryTypes

\* The letterbox's numbers, for one axis.
LEMMA PlacedNumbers ==
    ASSUME GeometryTypes, YoloPlaced, runner = "yolo", stage = "finished", NEW a \in {1, 2}
    PROVE  /\ placed.scale[1] \in Nat \ {0} /\ placed.scale[2] \in Nat \ {0}
           /\ placed.new[a] \in Nat \ {0} /\ placed.new[a] <= canvas[a]
           /\ placed.pad[a] \in Nat /\ canvas[a] - placed.new[a] - 2 * placed.pad[a] \in {0, 1}
           /\ 2 * (placed.scale[2] * placed.new[a]) - placed.scale[2] <= 2 * (picture[a] * placed.scale[1])
           /\ 2 * (picture[a] * placed.scale[1]) < 2 * (placed.scale[2] * placed.new[a]) + placed.scale[2]
<1> DEFINE n == placed.scale[1]
           d == placed.scale[2]
           w == placed.new[a]
           p == picture[a]
<1>1. /\ n \in Nat /\ d \in Nat \ {0} /\ w \in Nat \ {0} /\ w <= canvas[a]
      /\ placed.pad[a] = (canvas[a] - w) \div 2
      /\ 2 * (d * w) - d <= 2 * (p * n) /\ 2 * (p * n) < 2 * (d * w) + d
    BY DEF YoloPlaced, Boxed
<1>2. p \in Nat \ {0} /\ canvas[a] \in Nat \ {0}
    BY PositiveSides
<1> HIDE DEF n, d, w, p
<1>3. n # 0
  <2>1. d <= d * w
    BY <1>1
  <2>2. n = 0 => p * n = 0
    BY <1>2
  <2>3. d * w \in Int /\ p * n \in Int
    BY <1>1, <1>2
  <2> QED BY <1>1, <2>1, <2>2, <2>3
<1>4. canvas[a] - w \in Nat
    BY <1>1, <1>2
<1>5. placed.pad[a] \in Nat /\ canvas[a] - w - 2 * placed.pad[a] \in {0, 1}
    BY <1>1, <1>4, Halved
<1> QED BY <1>1, <1>3, <1>5 DEF n, d, w, p

\* Where a pixel of the drawn area is sampled, in either build.
LEMMA SampledNumbers ==
    ASSUME GeometryTypes, YoloPlaced, runner = "yolo", stage = "finished", NEW a \in {1, 2},
           NEW l \in Nat, l < Geometry!Drawn(a)
    PROVE  \E s \in Int :
             /\ Geometry!SampledFrom(placed.pad[a] + l, a) = Geometry!Clamp(s, 0, picture[a] - 1)
             /\ 2 * (l * placed.scale[2]) - 3 * placed.scale[1] < 2 * (placed.scale[1] * s)
             /\ 2 * (placed.scale[1] * s) <= 2 * (l * placed.scale[2]) + 2 * placed.scale[2] - placed.scale[1]
             /\ l = Geometry!Drawn(a) - 1 =>
                 2 * (picture[a] * placed.scale[1]) - 2 * placed.scale[2] - 3 * placed.scale[1]
                    < 2 * (placed.scale[1] * s)
<1> DEFINE n == placed.scale[1]
           d == placed.scale[2]
           w == placed.new[a]
           p == picture[a]
           rate == IF cuda THEN placed.scale ELSE <<w, p>>
           s == Left(l, rate)
<1>1. /\ n \in Nat \ {0} /\ d \in Nat \ {0} /\ w \in Nat \ {0} /\ p \in Nat \ {0}
      /\ placed.pad[a] \in Nat /\ canvas[a] - w - 2 * placed.pad[a] \in {0, 1}
      /\ 2 * (d * w) - d <= 2 * (p * n) /\ 2 * (p * n) < 2 * (d * w) + d
      /\ canvas[a] \in Nat
    BY PlacedNumbers, PositiveSides
<1>2. Geometry!SampledFrom(placed.pad[a] + l, a) = Geometry!Clamp(s, 0, p - 1)
  <2>1. (placed.pad[a] + l) - placed.pad[a] = l
    BY <1>1
  <2> QED BY <2>1 DEF Geometry!SampledFrom, Left
<1>3. CASE cuda
  <2>1. s = Left(l, <<n, d>>)
    BY <1>3 DEF Left
  <2> HIDE DEF s, n, d, w, p, rate
  <2>2. /\ s \in Int
        /\ 2 * (l * d) + d - 3 * n < 2 * (n * s) /\ 2 * (n * s) <= 2 * (l * d) + d - n
    BY <1>1, <2>1, SampledByKernel
  <2>3. ASSUME l = Geometry!Drawn(a) - 1 PROVE 2 * (p * n) - 2 * d - 3 * n < 2 * (n * s)
    <3>1. l = canvas[a] - 2 * placed.pad[a] - 1
      BY <1>3, <2>3 DEF Geometry!Drawn
    <3>2. w - 1 <= l /\ w - 1 \in Int
      BY <1>1, <3>1
    <3>3. (w - 1) * d <= l * d
      BY <1>1, <3>2, Times
    <3>4. (w - 1) * d = d * w - d /\ d * w \in Int /\ l * d \in Int /\ n * s \in Int /\ p * n \in Int
      BY <1>1, <2>2
    <3> QED BY <1>1, <2>2, <3>3, <3>4
  <2>4. l * d \in Int /\ n * s \in Int
    BY <1>1, <2>2
  <2>5. 2 * (l * d) - 3 * n < 2 * (n * s) /\ 2 * (n * s) <= 2 * (l * d) + 2 * d - n
    BY <1>1, <2>2, <2>4
  <2> QED BY <1>2, <2>2, <2>3, <2>5 DEF n, d, p
<1>4. CASE ~cuda
  <2>1. s = Left(l, <<w, p>>) /\ Geometry!Drawn(a) = w
    BY <1>4 DEF Geometry!Drawn
  <2> HIDE DEF s, n, d, w, p, rate
  <2>2. /\ s \in Int
        /\ 2 * (l * d) - 3 * n < 2 * (n * s) /\ 2 * (n * s) <= 2 * (l * d) + 2 * d - n
        /\ l = w - 1 => 2 * (p * n) - 2 * d - 3 * n < 2 * (n * s)
    BY <1>1, <2>1, SampledByResize
  <2> QED BY <1>2, <2>1, <2>2 DEF n, d, p
<1> QED BY <1>3, <1>4

\* A decoded edge is within one picture pixel, and so is the sum of corner and size.
LEMMA DecodedNumbers ==
    ASSUME NEW a, NEW low, NEW high, placed.scale[1] \in Nat \ {0},
           Geometry!Edge(low, a) \in Nat, Geometry!Edge(high, a) \in Nat
    PROVE  LET n == placed.scale[1]
               from == Geometry!Edge(low, a)
               to == Geometry!Edge(high, a)
               r == Geometry!Decode(low, high, a)[1]
               q == r + Geometry!Decode(low, high, a)[2]
           IN  /\ r \in Int /\ q \in Int
               /\ 2 * from - 2 * n < 2 * (n * r) /\ 2 * (n * r) <= 2 * from + n
               /\ 2 * to - 4 * n < 2 * (n * q) /\ 2 * (n * q) <= 2 * to + 2 * n
<1> DEFINE n == placed.scale[1]
           from == Geometry!Edge(low, a)
           to == Geometry!Edge(high, a)
<1>1. from \in Int /\ to \in Int /\ to - from \in Int /\ n \in Nat \ {0}
    OBVIOUS
<1>2. CASE cuda
  <2> DEFINE r == from \div n
             e == (to - from) \div n
  <2>1. Geometry!Decode(low, high, a) = <<r, e>>
    BY <1>2 DEF Geometry!Decode
  <2> HIDE DEF n, from, to
  <2>2. r \in Int /\ n * r <= from /\ from < n * r + n
    BY <1>1, Quotient
  <2>3. e \in Int /\ n * e <= to - from /\ to - from < n * e + n
    BY <1>1, Quotient
  <2> HIDE DEF r, e
  <2>4. n * (r + e) = n * r + n * e /\ n * r \in Int /\ n * e \in Int
    BY <1>1, <2>2, <2>3
  <2>5. /\ r + e \in Int
        /\ 2 * from - 2 * n < 2 * (n * r) /\ 2 * (n * r) <= 2 * from + n
        /\ 2 * to - 4 * n < 2 * (n * (r + e)) /\ 2 * (n * (r + e)) <= 2 * to + 2 * n
    BY <1>1, <2>2, <2>3, <2>4
  <2> QED BY <2>1, <2>2, <2>5 DEF n, from, to
<1>3. CASE ~cuda
  <2> DEFINE r == Geometry!Round(from, n)
             e == Geometry!Round(to - from, n)
  <2>1. Geometry!Decode(low, high, a) = <<r, e>>
    BY <1>3 DEF Geometry!Decode
  <2> HIDE DEF n, from, to
  <2>2. r \in Int /\ 2 * (n * r) - n <= 2 * from /\ 2 * from < 2 * (n * r) + n
    BY <1>1, Rounded
  <2>3. e \in Int /\ 2 * (n * e) - n <= 2 * (to - from) /\ 2 * (to - from) < 2 * (n * e) + n
    BY <1>1, Rounded
  <2> HIDE DEF r, e
  <2>4. n * (r + e) = n * r + n * e /\ n * r \in Int /\ n * e \in Int
    BY <1>1, <2>2, <2>3
  <2>5. /\ r + e \in Int
        /\ 2 * from - 2 * n < 2 * (n * r) /\ 2 * (n * r) <= 2 * from + n
        /\ 2 * to - 4 * n < 2 * (n * (r + e)) /\ 2 * (n * (r + e)) <= 2 * to + 2 * n
    BY <1>1, <2>2, <2>3, <2>4
  <2> QED BY <2>1, <2>2, <2>5 DEF n, from, to
<1> QED BY <1>2, <1>3

\* The letterbox is undone, on one axis.
LEMMA AxisInverts ==
    ASSUME GeometryTypes, YoloPlaced, YoloDecoded, runner = "yolo", stage = "finished",
           result # Geometry!Nothing, NEW a \in {1, 2}
    PROVE  /\ placed.pad[a] >= 0 /\ placed.pad[a] + Geometry!Drawn(a) <= canvas[a]
           /\ Geometry!Near(Geometry!SampledFrom(placed.pad[a], a), 0)
           /\ Geometry!Near(Geometry!SampledFrom(placed.pad[a] + Geometry!Drawn(a) - 1, a), picture[a] - 1)
           /\ found[a][1] \in placed.pad[a] .. placed.pad[a] + Geometry!Drawn(a) - 1 =>
               Geometry!Near(Geometry!SampledFrom(found[a][1], a), result[a][1])
           /\ found[a][2] - 1 \in placed.pad[a] .. placed.pad[a] + Geometry!Drawn(a) - 1 =>
               Geometry!Near(Geometry!SampledFrom(found[a][2] - 1, a), result[a][1] + result[a][2])
<1> DEFINE n == placed.scale[1]
           d == placed.scale[2]
           w == placed.new[a]
           p == picture[a]
           pad == placed.pad[a]
           low == found[a][1]
           high == found[a][2]
           drawn == Geometry!Drawn(a)
           sample(m) == Geometry!SampledFrom(m, a)
<1>1. /\ n \in Nat \ {0} /\ d \in Nat \ {0} /\ w \in Nat \ {0} /\ p \in Nat \ {0}
      /\ pad \in Nat /\ canvas[a] - w - 2 * pad \in {0, 1}
      /\ canvas[a] \in Nat
    BY PlacedNumbers, PositiveSides
<1>2. low \in Nat /\ high \in Nat /\ result[a] = Geometry!Decode(low, high, a)
    BY DEF YoloDecoded
<1>3. drawn \in Nat \ {0} /\ pad + drawn <= canvas[a]
  <2>1. drawn = canvas[a] - 2 * pad \/ drawn = w
    BY DEF Geometry!Drawn
  <2> HIDE DEF drawn, w, pad
  <2> QED BY <1>1, <2>1
\* An edge at the mark pad + l.
<1>4. /\ Geometry!Edge(low, a) = Geometry!Clamp((low - pad) * d, 0, p * n)
      /\ Geometry!Edge(high, a) = Geometry!Clamp((high - pad) * d, 0, p * n)
      /\ Geometry!Edge(low, a) \in Nat /\ Geometry!Edge(high, a) \in Nat
  <2>1. p * n \in Nat /\ (low - pad) * d \in Int /\ (high - pad) * d \in Int
    BY <1>1, <1>2
  <2> QED BY <2>1, Clamped DEF Geometry!Edge
<1> DEFINE r == Geometry!Decode(low, high, a)[1]
           q == r + Geometry!Decode(low, high, a)[2]
           from == Geometry!Edge(low, a)
           to == Geometry!Edge(high, a)
<1>5. /\ r \in Int /\ q \in Int
      /\ 2 * from - 2 * n < 2 * (n * r) /\ 2 * (n * r) <= 2 * from + n
      /\ 2 * to - 4 * n < 2 * (n * q) /\ 2 * (n * q) <= 2 * to + 2 * n
    BY <1>1, <1>4, DecodedNumbers
<1>6. \A l \in Nat : l < drawn =>
        \E s \in Int :
          /\ sample(pad + l) = Geometry!Clamp(s, 0, p - 1)
          /\ 2 * (l * d) - 3 * n < 2 * (n * s) /\ 2 * (n * s) <= 2 * (l * d) + 2 * d - n
          /\ l = drawn - 1 => 2 * (p * n) - 2 * d - 3 * n < 2 * (n * s)
    BY SampledNumbers
<1>7. \A x, y : Geometry!Near(x, y) <=> Close(x, y, n, d)
    BY DEF Geometry!Near, Close
<1> HIDE DEF n, d, w, p, pad, low, high, drawn, sample, r, q, from, to
<1>8. ASSUME NEW l \in Nat, l < drawn
      PROVE  /\ l = 0 => Close(sample(pad + l), 0, n, d)
             /\ l = drawn - 1 => Close(sample(pad + l), p - 1, n, d)
             /\ from = Geometry!Clamp(l * d, 0, p * n) => Close(sample(pad + l), r, n, d)
             /\ to = Geometry!Clamp((l + 1) * d, 0, p * n) => Close(sample(pad + l), q, n, d)
  <2>1. PICK s \in Int :
          /\ sample(pad + l) = Geometry!Clamp(s, 0, p - 1)
          /\ 2 * (l * d) - 3 * n < 2 * (n * s) /\ 2 * (n * s) <= 2 * (l * d) + 2 * d - n
          /\ l = drawn - 1 => 2 * (p * n) - 2 * d - 3 * n < 2 * (n * s)
    BY <1>6, <1>8
  <2> DEFINE m == Geometry!Clamp(s, 0, p - 1)
             start == Geometry!Clamp(l * d, 0, p * n)
             end == Geometry!Clamp((l + 1) * d, 0, p * n)
  <2>2. /\ l = 0 => Close(m, 0, n, d)
        /\ 2 * (p * n) - 2 * d - 3 * n < 2 * (n * s) => Close(m, p - 1, n, d)
        /\ \A x \in Int :
             2 * start - 2 * n < 2 * (n * x) /\ 2 * (n * x) <= 2 * start + n => Close(m, x, n, d)
        /\ \A x \in Int :
             2 * end - 4 * n < 2 * (n * x) /\ 2 * (n * x) <= 2 * end + 2 * n => Close(m, x, n, d)
    BY <1>1, <2>1, AllClose
  <2> HIDE DEF m, start, end
  <2>3. sample(pad + l) = m
    BY <2>1 DEF m
  <2>4. from = start => Close(m, r, n, d)
    BY <1>5, <2>2
  <2>5. to = end => Close(m, q, n, d)
    BY <1>5, <2>2
  <2> QED BY <2>1, <2>2, <2>3, <2>4, <2>5 DEF start, end
<1>9. Close(sample(pad), 0, n, d)
  <2>1. 0 \in Nat /\ 0 < drawn /\ pad + 0 = pad
    BY <1>1, <1>3
  <2> QED BY <1>8, <2>1
<1>10. Close(sample(pad + drawn - 1), p - 1, n, d)
  <2>1. drawn - 1 \in Nat /\ drawn - 1 < drawn /\ pad + (drawn - 1) = pad + drawn - 1
    BY <1>1, <1>3
  <2> QED BY <1>8, <2>1
<1>11. low \in pad .. pad + drawn - 1 => Close(sample(low), r, n, d)
  <2> SUFFICES ASSUME low \in pad .. pad + drawn - 1 PROVE Close(sample(low), r, n, d)
    OBVIOUS
  <2>1. low - pad \in Nat /\ low - pad < drawn /\ pad + (low - pad) = low
    BY <1>1, <1>2, <1>3
  <2>2. from = Geometry!Clamp((low - pad) * d, 0, p * n)
    BY <1>4 DEF from, n, d, p, pad, low
  <2> QED BY <1>8, <2>1, <2>2
<1>12. high - 1 \in pad .. pad + drawn - 1 => Close(sample(high - 1), q, n, d)
  <2> SUFFICES ASSUME high - 1 \in pad .. pad + drawn - 1 PROVE Close(sample(high - 1), q, n, d)
    OBVIOUS
  <2> DEFINE l == high - 1 - pad
  <2>1. l \in Nat /\ l < drawn /\ pad + l = high - 1 /\ high - pad = l + 1
    BY <1>1, <1>2, <1>3
  <2>2. to = Geometry!Clamp((high - pad) * d, 0, p * n)
    BY <1>4 DEF to, n, d, p, pad, high
  <2> HIDE DEF l
  <2>3. to = Geometry!Clamp((l + 1) * d, 0, p * n)
    BY <2>1, <2>2
  <2> QED BY <1>8, <2>1, <2>3
<1>13. pad >= 0 /\ result[a][1] = r /\ result[a][1] + result[a][2] = q
    BY <1>1, <1>2 DEF r, q, low, high
<1> QED BY <1>3, <1>7, <1>9, <1>10, <1>11, <1>12, <1>13 DEF n, d, p, pad, drawn, sample, low, high

------------------------------------------------------------------------------
(* Every step keeps the invariant. *)

\* Nothing is placed before preprocess.
LEMMA GeometryInitInv == Geometry!Init => GeometryInv
BY DEF Geometry!Init, GeometryInv, GeometryTypes, YoloPlaced, YoloDecoded, NafPlaced, RowsPlaced, Geometry!CropsUndoPadding

\* letterbox_resize, or the same in the CUDA build; a side may vanish.
LEMMA YoloPreprocessInv ==
    ASSUME GeometryInv, Geometry!YoloPreprocess
    PROVE  GeometryInv'
<1> DEFINE b == Geometry!Letterbox(picture, canvas, cuda \/ option)
<1>1. /\ runner = "yolo" /\ stage = "loaded"
      /\ UNCHANGED <<runner, cuda, option, picture, canvas, found, result>>
      /\ IF \E a \in {1, 2} : b.new[a] = 0
         THEN stage' = (IF cuda THEN "undefined" ELSE "rejected") /\ UNCHANGED placed
         ELSE stage' = "prepared" /\ placed' = b
    BY DEF Geometry!YoloPreprocess, Geometry!Inputs, Geometry!Prepared, Geometry!Axes
<1>2. GeometryTypes
    BY DEF GeometryInv
<1>3. Boxed(b, picture, canvas)
  <2>1. /\ picture[1] \in Nat \ {0} /\ picture[2] \in Nat \ {0}
        /\ canvas[1] \in Nat /\ canvas[2] \in Nat
    BY <1>2, PositiveSides
  <2>2. (cuda \/ option) \in BOOLEAN
    BY <1>2 DEF GeometryTypes
  <2> QED BY <2>1, <2>2, LetterboxFits
<1> HIDE DEF b
<1>4. stage' \in {"prepared", "rejected", "undefined"}
    BY <1>1
<1>5. GeometryTypes'
    BY <1>1, <1>2, <1>4 DEF GeometryTypes
<1>6. YoloPlaced'
  <2>1. CASE \E a \in {1, 2} : b.new[a] = 0
    <3>1. stage' \notin {"prepared", "finished"}
      BY <1>1, <2>1
    <3> QED BY <3>1 DEF YoloPlaced
  <2>2. CASE ~(\E a \in {1, 2} : b.new[a] = 0)
    <3>1. placed' = b /\ \A a \in {1, 2} : b.new[a] # 0
      BY <1>1, <2>2
    <3>2. Boxed(placed', picture', canvas')
      BY <1>1, <1>3, <3>1
    <3> QED BY <3>1, <3>2 DEF YoloPlaced, Boxed
  <2> QED BY <2>1, <2>2
<1>7. YoloDecoded' /\ NafPlaced' /\ RowsPlaced' /\ Geometry!CropsUndoPadding'
    BY <1>1, <1>4 DEF YoloDecoded, NafPlaced, RowsPlaced, Geometry!CropsUndoPadding
<1> QED BY <1>5, <1>6, <1>7 DEF GeometryInv

\* A box is found and decoded.
LEMMA YoloPostprocessInv ==
    ASSUME GeometryInv, Geometry!YoloPostprocess
    PROVE  GeometryInv'
<1>1. /\ runner = "yolo" /\ stage = "prepared" /\ stage' = "finished"
      /\ UNCHANGED <<runner, cuda, option, picture, canvas, placed>>
    BY DEF Geometry!YoloPostprocess, Geometry!Inputs
<1>2. PICK x1, x2, y1, y2 \in Marks : found' = <<<<x1, x2>>, <<y1, y2>>>>
    BY DEF Geometry!YoloPostprocess
<1>3. \/ result' = Geometry!Nothing
      \/ result' = [a \in {1, 2} |-> Geometry!Decode(found'[a][1], found'[a][2], a)]
    BY DEF Geometry!YoloPostprocess, Geometry!Axes
<1>4. GeometryTypes'
    BY <1>1 DEF GeometryInv, GeometryTypes
<1>5. YoloPlaced'
    BY <1>1 DEF GeometryInv, YoloPlaced, Boxed
<1>6. YoloDecoded'
  <2> SUFFICES ASSUME result' # Geometry!Nothing, NEW a \in {1, 2}
               PROVE  /\ found'[a][1] \in Nat /\ found'[a][2] \in Nat
                      /\ result'[a] = Geometry!Decode(found[a][1], found[a][2], a)'
    BY DEF YoloDecoded
  <2>1. found'[a][1] \in Nat /\ found'[a][2] \in Nat
    BY <1>2, GeometryAssumption
  <2>2. result'[a] = Geometry!Decode(found'[a][1], found'[a][2], a)
    BY <1>3
  <2>3. Geometry!Decode(found[a][1], found[a][2], a)' = Geometry!Decode(found'[a][1], found'[a][2], a)
    BY <1>1 DEF Geometry!Decode, Geometry!Edge
  <2> QED BY <2>1, <2>2, <2>3
<1>7. NafPlaced' /\ RowsPlaced' /\ Geometry!CropsUndoPadding'
    BY <1>1 DEF NafPlaced, RowsPlaced, Geometry!CropsUndoPadding
<1> QED BY <1>4, <1>5, <1>6, <1>7 DEF GeometryInv

\* pad_to_size, for a picture that fits.
LEMMA NafPreprocessInv ==
    ASSUME GeometryInv, Geometry!NafPreprocess
    PROVE  GeometryInv'
<1>1. /\ runner = "nafnet" /\ stage' \in {"prepared", "rejected"}
      /\ UNCHANGED <<runner, cuda, option, picture, canvas>>
      /\ stage' = "prepared" =>
          /\ placed' = Geometry!PadToSize(picture, canvas)
          /\ \A a \in {1, 2} : ~(canvas[a] < picture[a])
    BY DEF Geometry!NafPreprocess, Geometry!Inputs, Geometry!Prepared, Geometry!Axes
<1>2. GeometryTypes'
    BY <1>1 DEF GeometryInv, GeometryTypes
<1>3. NafPlaced'
  <2> SUFFICES ASSUME stage' = "prepared", NEW a \in {1, 2}
               PROVE  /\ picture[a] <= canvas[a] /\ placed'.new[a] = picture[a]
                      /\ placed'.pad[a] = (canvas[a] - picture[a]) \div 2
    BY <1>1 DEF NafPlaced
  <2>1. placed'.new[a] = picture[a] /\ placed'.pad[a] = (canvas[a] - picture[a]) \div 2
    BY <1>1 DEF Geometry!PadToSize, Geometry!Axes
  <2>2. picture[a] \in Int /\ canvas[a] \in Int /\ ~(canvas[a] < picture[a])
    BY <1>1, PositiveSides DEF GeometryInv
  <2> QED BY <2>1, <2>2
<1>4. YoloPlaced' /\ YoloDecoded' /\ RowsPlaced' /\ Geometry!CropsUndoPadding'
    BY <1>1 DEF YoloPlaced, YoloDecoded, RowsPlaced, Geometry!CropsUndoPadding
<1> QED BY <1>2, <1>3, <1>4 DEF GeometryInv

\* A row's padding is forgotten.
LEMMA NafRowPreprocessInv ==
    ASSUME GeometryInv, Geometry!NafRowPreprocess
    PROVE  GeometryInv'
<1>1. /\ runner = "nafnet_rows" /\ stage' \in {"prepared", "rejected"}
      /\ UNCHANGED <<runner, cuda, option, picture, canvas>>
      /\ stage' = "prepared" => placed' = Geometry!Unset
    BY DEF Geometry!NafRowPreprocess, Geometry!Inputs, Geometry!Prepared
<1>2. GeometryTypes'
    BY <1>1 DEF GeometryInv, GeometryTypes
<1>3. YoloPlaced' /\ YoloDecoded' /\ NafPlaced' /\ RowsPlaced' /\ Geometry!CropsUndoPadding'
    BY <1>1 DEF YoloPlaced, YoloDecoded, NafPlaced, RowsPlaced, Geometry!CropsUndoPadding
<1> QED BY <1>2, <1>3 DEF GeometryInv

\* A pixel of the restored picture is read at the index it was written at.
LEMMA CroppedPixel ==
    ASSUME GeometryTypes, NafPlaced, runner = "nafnet", stage = "prepared",
           NEW w \in Int, NEW h \in Int, w \in 0 .. picture[1] - 1, h \in 0 .. picture[2] - 1
    PROVE  Geometry!PaddedAt((h + placed.pad[2]) * canvas[1] + placed.pad[1] + w) = <<w, h>>
<1> DEFINE c == canvas[1]
           x == placed.pad[1] + w
           y == h + placed.pad[2]
           index == (h + placed.pad[2]) * canvas[1] + placed.pad[1] + w
           at == <<index % canvas[1], index \div canvas[1]>>
<1>1. \A a \in {1, 2} :
        /\ picture[a] \in Nat \ {0} /\ canvas[a] \in Nat \ {0} /\ picture[a] <= canvas[a]
        /\ placed.pad[a] = (canvas[a] - picture[a]) \div 2
    BY PositiveSides DEF NafPlaced
<1>2. \A a \in {1, 2} : placed.pad[a] \in Nat /\ placed.pad[a] + picture[a] <= canvas[a]
  <2> SUFFICES ASSUME NEW a \in {1, 2} PROVE placed.pad[a] \in Nat /\ placed.pad[a] + picture[a] <= canvas[a]
    OBVIOUS
  <2> DEFINE gap == canvas[a] - picture[a]
  <2>1. gap \in Nat /\ placed.pad[a] = gap \div 2
    BY <1>1
  <2>2. gap \div 2 \in Int /\ gap \div 2 >= 0 /\ gap - 2 * (gap \div 2) \in {0, 1}
    BY <2>1, Halved
  <2> QED BY <1>1, <2>1, <2>2
<1>3. c \in Nat \ {0} /\ x \in 0 .. c - 1 /\ y \in Nat
    BY <1>1, <1>2
<1>4. index = y * c + x
  <2>1. y * c \in Int /\ placed.pad[1] \in Int
    BY <1>2, <1>3
  <2> QED BY <2>1
<1> HIDE DEF c, x, y, index
<1>5. index \div c = y /\ index % c = x
  <2>1. index \in Int /\ index \div c \in Int /\ c * (index \div c) <= index /\ index < c * (index \div c) + c
    BY <1>3, <1>4, Quotient
  <2>2. ~(y < index \div c)
    <3>1. y < index \div c => (y + 1) * c <= (index \div c) * c
      BY <1>3, <2>1, Times
    <3> QED BY <1>3, <1>4, <2>1, <3>1
  <2>3. ~(index \div c < y)
    <3>1. index \div c < y => (index \div c + 1) * c <= y * c
      BY <1>3, <2>1, Times
    <3> QED BY <1>3, <1>4, <2>1, <3>1
  <2>4. index \div c = y
    BY <1>3, <2>1, <2>2, <2>3
  <2>5. index = (index % c) + (index \div c) * c /\ index % c \in Int
    BY <1>3, <2>1, Remainder
  <2> QED BY <1>3, <1>4, <2>1, <2>4, <2>5
<1>6. at = <<x, y>>
    BY <1>5 DEF c
<1>7. x - placed.pad[1] = w /\ y - placed.pad[2] = h
    BY <1>2 DEF x, y
<1>8. \A a \in {1, 2} : at[a] - placed.pad[a] \in 0 .. picture[a] - 1
    BY <1>6, <1>7
<1>9. [a \in {1, 2} |-> at[a] - placed.pad[a]] = <<w, h>>
    BY <1>6, <1>7
<1>10. Geometry!PaddedAt(index) = <<w, h>>
    BY <1>8, <1>9 DEF Geometry!PaddedAt, Geometry!Axes
<1> QED BY <1>10 DEF index

\* A pixel of the restored picture.
LEMMA NafPostprocessInv ==
    ASSUME GeometryInv, Geometry!NafPostprocess
    PROVE  GeometryInv'
<1>1. /\ runner \in {"nafnet", "nafnet_rows"} /\ stage = "prepared" /\ stage' = "finished"
      /\ UNCHANGED <<runner, cuda, option, picture, canvas, placed>>
    BY DEF Geometry!NafPostprocess, Geometry!Inputs
<1>2. PICK w \in {0, picture[1] - 1}, h \in {0, picture[2] - 1} :
        /\ found' = <<w, h>>
        /\ result' = [pixel |-> IF w < placed.new[1] /\ h < placed.new[2]
                                THEN Geometry!PaddedAt((h + placed.pad[2]) * canvas[1] + placed.pad[1] + w)
                                ELSE Geometry!Nothing,
                      colours |-> Geometry!Reverse(Geometry!Planes)]
    BY DEF Geometry!NafPostprocess
<1>3. w \in Int /\ h \in Int /\ w >= 0 /\ w \in 0 .. picture[1] - 1 /\ h \in 0 .. picture[2] - 1
    BY PositiveSides DEF GeometryInv
<1>4. runner = "nafnet" => result'.pixel = found'
  <2> SUFFICES ASSUME runner = "nafnet" PROVE result'.pixel = found'
    OBVIOUS
  <2>1. w < placed.new[1] /\ h < placed.new[2]
    BY <1>1, <1>3, PositiveSides DEF GeometryInv, NafPlaced
  <2> QED BY <1>1, <1>2, <1>3, <2>1, CroppedPixel DEF GeometryInv
<1>5. ~option => result'.colours = <<"B", "G", "R">>
  <2> SUFFICES ASSUME ~option PROVE Geometry!Reverse(Geometry!Planes) = <<"B", "G", "R">>
    BY <1>2
  <2>1. Geometry!Planes = <<"R", "G", "B">>
    BY DEF Geometry!Planes
  <2>2. Geometry!Reverse(<<"R", "G", "B">>) = [i \in 1 .. 3 |-> <<"R", "G", "B">>[(3 - i) + 1]]
    BY DEF Geometry!Reverse
  <2>3. [i \in 1 .. 3 |-> <<"R", "G", "B">>[(3 - i) + 1]] = <<"B", "G", "R">>
    OBVIOUS
  <2> QED BY <2>1, <2>2, <2>3
<1>6. runner = "nafnet_rows" => result'.pixel = Geometry!Nothing
  <2> SUFFICES ASSUME runner = "nafnet_rows" PROVE result'.pixel = Geometry!Nothing
    OBVIOUS
  <2>1. placed = Geometry!Unset
    BY <1>1 DEF GeometryInv, RowsPlaced
  <2>2. placed.new[1] = 0
    BY <2>1 DEF Geometry!Unset
  <2>3. ~(w < 0)
    BY <1>3
  <2> QED BY <1>2, <2>2, <2>3
<1>7. Geometry!CropsUndoPadding'
    BY <1>1, <1>4, <1>5, <1>6 DEF Geometry!CropsUndoPadding
<1>8. GeometryTypes' /\ YoloPlaced' /\ YoloDecoded' /\ NafPlaced' /\ RowsPlaced'
    BY <1>1 DEF GeometryInv, GeometryTypes, YoloPlaced, YoloDecoded, NafPlaced, RowsPlaced
<1> QED BY <1>7, <1>8 DEF GeometryInv

\* resize_256 and center_crop.
LEMMA ResPreprocessInv ==
    ASSUME GeometryInv, Geometry!ResPreprocess
    PROVE  GeometryInv'
<1> DEFINE b == Geometry!CenterCrop(Geometry!Resize256(picture))
<1>1. /\ runner = "resnet" /\ stage' \in {"prepared", "rejected"}
      /\ UNCHANGED <<runner, cuda, option, picture, canvas>>
      /\ stage' = "prepared" => placed' = b /\ \A a \in {1, 2} : ~(b.new[a] < 224)
    BY DEF Geometry!ResPreprocess, Geometry!Inputs, Geometry!Prepared, Geometry!Axes
<1>2. \A a \in {1, 2} : b.new[a] \in Int /\ b.pad[a] = (b.new[a] - 224) \div 2
  <2> DEFINE low == IF picture[1] < picture[2] THEN picture[1] ELSE picture[2]
             rate == Geometry!Round(256, low)
  <2>1. low \in Nat \ {0} /\ \A a \in {1, 2} : picture[a] \in Nat
    BY PositiveSides DEF GeometryInv
  <2> HIDE DEF low
  <2>2. rate \in Int
    BY <2>1, Rounded
  <2>3. Geometry!Resize256(picture) = [a \in {1, 2} |-> rate * picture[a]]
    BY DEF Geometry!Resize256, Geometry!Axes, low
  <2> HIDE DEF rate
  <2> QED BY <2>1, <2>2, <2>3 DEF Geometry!CenterCrop, Geometry!Axes
<1> HIDE DEF b
<1>3. Geometry!CropsUndoPadding'
  <2> SUFFICES ASSUME stage' = "prepared", NEW a \in {1, 2}
               PROVE  /\ placed'.pad[a] >= 0
                      /\ placed'.new[a] - 224 - placed'.pad[a] - placed'.pad[a] \in {0, 1}
    BY <1>1 DEF Geometry!CropsUndoPadding, Geometry!Axes
  <2>1. b.new[a] - 224 \in Nat /\ b.pad[a] = (b.new[a] - 224) \div 2 /\ placed' = b
    BY <1>1, <1>2
  <2>2. b.pad[a] \in Int /\ b.pad[a] >= 0 /\ (b.new[a] - 224) - 2 * b.pad[a] \in {0, 1}
    BY <2>1, Halved
  <2> QED BY <1>2, <2>1, <2>2
<1>4. GeometryTypes' /\ YoloPlaced' /\ YoloDecoded' /\ NafPlaced' /\ RowsPlaced'
    BY <1>1 DEF GeometryInv, GeometryTypes, YoloPlaced, YoloDecoded, NafPlaced, RowsPlaced
<1> QED BY <1>3, <1>4 DEF GeometryInv

\* Every step keeps the invariant.
LEMMA GeometryNextInv == GeometryInv /\ [Geometry!Next]_(Geometry!vars) => GeometryInv'
<1> SUFFICES ASSUME GeometryInv, [Geometry!Next]_(Geometry!vars) PROVE GeometryInv'
    OBVIOUS
<1>1. CASE \/ Geometry!YoloPreprocess \/ Geometry!YoloPostprocess
           \/ Geometry!NafPreprocess \/ Geometry!NafRowPreprocess \/ Geometry!NafPostprocess
           \/ Geometry!ResPreprocess
    BY <1>1, YoloPreprocessInv, YoloPostprocessInv, NafPreprocessInv, NafRowPreprocessInv, NafPostprocessInv,
       ResPreprocessInv
<1>2. CASE Geometry!Over \/ UNCHANGED Geometry!vars
  <2>1. UNCHANGED <<runner, cuda, option, picture, canvas, stage, placed, found, result>>
    BY <1>2 DEF Geometry!Over, Geometry!vars
  <2>2. GeometryTypes' /\ YoloPlaced' /\ NafPlaced' /\ RowsPlaced'
    BY <2>1 DEF GeometryInv, GeometryTypes, YoloPlaced, Boxed, NafPlaced, RowsPlaced
  <2>3. YoloDecoded'
    BY <2>1 DEF GeometryInv, YoloDecoded, Geometry!Decode, Geometry!Edge
  <2>4. Geometry!CropsUndoPadding'
    BY <2>1 DEF GeometryInv, Geometry!CropsUndoPadding
  <2> QED BY <2>2, <2>3, <2>4 DEF GeometryInv
<1> QED BY <1>1, <1>2 DEF Geometry!Next

\* The inductive invariant holds of every behaviour, for pictures and canvases of
\* any size and boxes anywhere.
THEOREM GeometryInvariant == GeometrySpec => []GeometryInv
<1>1. Geometry!Init => GeometryInv
    BY GeometryInitInv
<1>2. GeometryInv /\ [Geometry!Next]_(Geometry!vars) => GeometryInv'
    BY GeometryNextInv
<1> QED BY <1>1, <1>2, PTL DEF GeometrySpec

\* Pixels come back to where they were, in both builds: a decoded box is within one
\* canvas pixel and three picture pixels of where its pixels were sampled, and what
\* NAFNet and ResNet crop is what was padded or resized (YoloDetector.cpp,
\* gpu_preprocess.cu, NAFNet.cpp, ResNet.cc).
THEOREM PixelsAreBack == GeometrySpec => []PixelsComeBack
<1>1. ASSUME GeometryInv PROVE Geometry!LetterboxInverts
    BY <1>1, AxisInverts DEF GeometryInv, Geometry!LetterboxInverts, Geometry!Axes
<1>2. GeometryInv => PixelsComeBack
    BY <1>1 DEF GeometryInv, PixelsComeBack
<1> QED BY <1>2, GeometryInvariant, PTL

------------------------------------------------------------------------------
\* The run's behaviours are behaviours of all three, each with its own variables:
\* what is proved above covers the run.
THEOREM RunIsInstance == MCSpec => Spec /\ KernelSpec /\ GeometrySpec
<1>1. MCInit => Init /\ Kernel!Init /\ Geometry!Init
    BY DEF MCInit
<1>2. ASSUME [MCNext]_allVars PROVE [Next]_vars
    BY <1>2 DEF MCNext, allVars
<1>3. ASSUME [MCNext]_allVars PROVE [Kernel!Next]_(Kernel!vars)
  <2>1. Kernel!Next \/ UNCHANGED kernelVars
    BY <1>3 DEF MCNext, allVars
  <2> QED BY <2>1 DEF kernelVars, Kernel!vars
<1>4. ASSUME [MCNext]_allVars PROVE [Geometry!Next]_(Geometry!vars)
  <2>1. Geometry!Next \/ UNCHANGED geometryVars
    BY <1>4 DEF MCNext, allVars
  <2> QED BY <2>1 DEF geometryVars, Geometry!vars
<1> QED BY <1>1, <1>2, <1>3, <1>4, PTL DEF MCSpec, Spec, KernelSpec, GeometrySpec
==============================================================================
