--------------------- MODULE InferTensorBufferPool_proofs ---------------------
(***************************************************************************)
(* Theorems about InferTensorBufferPool for any number of slices, of any   *)
(* size, at any address, and any number of callers.                        *)
(*                                                                         *)
(* The inductive invariant is Inv.  OneHolderPerSlice needs to know that a *)
(* caller holds a slice exactly when it is at "holding" (Control), or a    *)
(* Release would give back a slice twice.  That every lent slice has its   *)
(* tensor rests on the order of the queue while the tensors are made       *)
(* (Registration): the slices already registered are the ones at its end.  *)
(***************************************************************************)
EXTENDS InferTensorBufferPool, QueueLemmas, Integers

Control ==
    /\ \A c \in Callers : cpc[c] = "holding" <=> lent[c] # Null
    /\ \A c \in waitSet : cpc[c] = "acquire"
    /\ closer = "none" <=> ~isClosed
    /\ ~isClosed => data = Base
    /\ closer \in {"free", "done"} => waitSet = {}

Registration ==
    /\ toRegister > 0 => /\ ~isClosed
                         /\ Len(buffer) = EleSize
                         /\ \A c \in Callers : cpc[c] = "idle"
    /\ \A i \in DOMAIN buffer : i > toRegister => buffer[i] \in registered
    /\ Lent \subseteq registered

Inv == TypeOK /\ OneHolderPerSlice /\ Control /\ Registration

------------------------------------------------------------------------------
(* Addresses. *)

\* Multiples of n are as far apart as their factors.
LEMMA MultiplesApart ==
    ASSUME NEW n \in Nat \ {0}, NEW a \in Nat, NEW b \in Nat, a < b
    PROVE  a * n + n <= b * n
<1>1. PICK d \in Nat : b = a + 1 + d
  <2>1. b - a - 1 \in Nat /\ b = a + 1 + (b - a - 1) OBVIOUS
  <2> QED BY <2>1
<1>2. b * n = a * n + n + d * n
    BY <1>1
<1>3. d * n \in Nat
    OBVIOUS
<1> QED BY <1>2, <1>3

\* Distinct positions are distinct addresses, and none of them is null.
LEMMA SliceAddresses ==
    /\ \A i, k \in Nat : Base + i * EleBytes = Base + k * EleBytes => i = k
    /\ Slices \subseteq Nat \ {0}
<1> USE SizesAssumption, BaseAssumption
<1>1. ASSUME NEW i \in Nat, NEW k \in Nat, i < k
      PROVE  Base + i * EleBytes # Base + k * EleBytes
  <2>1. i * EleBytes + EleBytes <= k * EleBytes
    BY <1>1, MultiplesApart
  <2>2. i * EleBytes \in Nat /\ k * EleBytes \in Nat
    OBVIOUS
  <2> QED BY <2>1, <2>2
<1>2. \A i, k \in Nat : Base + i * EleBytes = Base + k * EleBytes => i = k
  <2> SUFFICES ASSUME NEW i \in Nat, NEW k \in Nat, i # k
               PROVE  Base + i * EleBytes # Base + k * EleBytes
    OBVIOUS
  <2>1. i < k \/ k < i
    OBVIOUS
  <2> QED BY <1>1, <2>1
<1>3. Slices \subseteq Nat \ {0}
  <2> SUFFICES ASSUME NEW i \in 0 .. EleSize - 1
               PROVE  Base + i * EleBytes \in Nat \ {0}
    BY DEF Slices
  <2>1. i * EleBytes \in Nat
    OBVIOUS
  <2> QED BY <2>1
<1> QED BY <1>2, <1>3

\* owns() accepts the start of every slice of an open pool.
LEMMA SlicesAreOwned ==
    ASSUME data = Base, NEW p \in Slices
    PROVE  Owns(p)
<1> USE SizesAssumption, BaseAssumption
<1>1. PICK i \in 0 .. EleSize - 1 : p = Base + i * EleBytes
    BY DEF Slices
<1>2. i \in Nat /\ i < EleSize /\ EleSize \in Nat
    OBVIOUS
<1>3. i * EleBytes \in Nat /\ EleSize * EleBytes \in Nat
    BY <1>2
<1>4. i * EleBytes + EleBytes <= EleSize * EleBytes
    BY <1>2, MultiplesApart
<1>5. (i * EleBytes) % EleBytes = 0
    BY <1>2
<1>6. p - data = i * EleBytes
    BY <1>1, <1>3
<1>7. data <= p /\ p < data + TotalBytes
    BY <1>1, <1>3, <1>4 DEF TotalBytes
<1> QED BY <1>5, <1>6, <1>7 DEF Owns

------------------------------------------------------------------------------
(* The invariant. *)

\* Nothing is registered or lent yet.
LEMMA InitInv == Init => Inv
<1> USE SizesAssumption, BaseAssumption
<1> SUFFICES ASSUME Init PROVE Inv
    OBVIOUS
<1>1. DOMAIN buffer = 1 .. EleSize
    BY DEF Init
<1>2. \A i \in 1 .. EleSize : buffer[i] = Base + (i - 1) * EleBytes
    BY DEF Init
<1>3. \A i \in 1 .. EleSize : i - 1 \in 0 .. EleSize - 1
    OBVIOUS
<1>4. \A i \in 1 .. EleSize : buffer[i] \in Slices
    BY <1>2, <1>3 DEF Slices
<1>5. buffer \in Seq(Slices) /\ Len(buffer) = EleSize
  <2>1. buffer \in [1 .. EleSize -> Slices]
    BY <1>1, <1>2, <1>4 DEF Init
  <2> QED BY <2>1
<1>6. TypeOK
  <2>1. lent \in [Callers -> Slices \union {Null}] /\ toRegister \in 0 .. EleSize
    BY DEF Init
  <2> QED BY <1>5, <2>1 DEF Init, TypeOK
<1>7. Lent = {}
    BY DEF Init, Lent
<1>8. OneHolderPerSlice
  <2>1. \A i, k \in DOMAIN buffer : buffer[i] = buffer[k] => i = k
    <3> SUFFICES ASSUME NEW i \in 1 .. EleSize, NEW k \in 1 .. EleSize, buffer[i] = buffer[k]
                 PROVE  i = k
      BY <1>1
    <3>1. i - 1 \in Nat /\ k - 1 \in Nat
      OBVIOUS
    <3>2. i - 1 = k - 1
      BY <1>2, <3>1, SliceAddresses
    <3> QED BY <3>2
  <2>2. Free = Slices
    <3>1. ASSUME NEW i \in 0 .. EleSize - 1 PROVE Base + i * EleBytes \in Free
      <4>1. i + 1 \in 1 .. EleSize /\ (i + 1) - 1 = i
        OBVIOUS
      <4>2. buffer[i + 1] = Base + i * EleBytes
        BY <1>2, <4>1
      <4> QED BY <1>1, <4>1, <4>2 DEF Free
    <3>2. Slices \subseteq Free
      BY <3>1 DEF Slices
    <3>3. Free \subseteq Slices
      BY <1>1, <1>4 DEF Free
    <3> QED BY <3>2, <3>3
  <2>3. \A c, d \in Callers : lent[c] = lent[d] /\ lent[c] # Null => c = d
    BY DEF Init
  <2> QED BY <1>7, <2>1, <2>2, <2>3 DEF OneHolderPerSlice
<1>9. Control
    BY DEF Init, Control
<1>10. Registration
    BY <1>1, <1>5, <1>7 DEF Init, Registration
<1> QED BY <1>6, <1>8, <1>9, <1>10 DEF Inv

\* A turn of the registering loop moves the first slice to the end.
LEMMA RegisterNextInv ==
    ASSUME Inv, RegisterNext
    PROVE  Inv'
<1> USE DEF Inv
<1> DEFINE q == Tail(buffer)
           h == Head(buffer)
<1>1. Len(buffer) = EleSize /\ EleSize \in Nat \ {0} /\ ~isClosed
    BY SizesAssumption DEF RegisterNext, Registration
<1>2. buffer # <<>> /\ buffer \in Seq(Slices)
    BY <1>1 DEF TypeOK
<1>3. /\ h \in Slices
      /\ h = buffer[1]
      /\ q \in Seq(Slices)
      /\ Len(q) = EleSize - 1
      /\ DOMAIN buffer = 1 .. EleSize
      /\ DOMAIN q = 1 .. EleSize - 1
      /\ \A i \in 1 .. EleSize - 1 : q[i] = buffer[i + 1]
      /\ Free = {q[i] : i \in DOMAIN q} \union {h}
    BY <1>1, <1>2, TailElements DEF Free
<1> HIDE DEF q, h
<1>4. buffer' = Append(q, h)
    BY DEF RegisterNext, q, h
<1>5. /\ buffer' \in Seq(Slices)
      /\ Len(buffer') = EleSize
      /\ DOMAIN buffer' = 1 .. EleSize
      /\ \A i \in 1 .. EleSize - 1 : buffer'[i] = q[i]
      /\ buffer'[EleSize] = h
      /\ {buffer'[i] : i \in DOMAIN buffer'} = {q[i] : i \in DOMAIN q} \union {h}
    BY <1>1, <1>3, <1>4, AppendElements
<1>6. Free' = Free /\ Lent' = Lent
  <2>1. Free' = Free
    BY <1>3, <1>5 DEF Free
  <2>2. Lent' = Lent
    BY DEF RegisterNext, Lent
  <2> QED BY <2>1, <2>2
<1>7. TypeOK'
    BY <1>3, <1>5 DEF RegisterNext, TypeOK, h
<1>8. OneHolderPerSlice'
  <2>1. \A i, k \in DOMAIN buffer' : buffer'[i] = buffer'[k] => i = k
    <3>1. \A i, k \in DOMAIN buffer : buffer[i] = buffer[k] => i = k
      BY DEF OneHolderPerSlice
    <3>2. \A i, k \in 1 .. EleSize - 1 : buffer'[i] = buffer'[k] => i = k
      BY <1>1, <1>3, <1>5, <3>1, SMTT(30)
    <3>3. \A i \in 1 .. EleSize - 1 : buffer'[i] # buffer'[EleSize]
      BY <1>1, <1>3, <1>5, <3>1
    <3>4. \A i \in 1 .. EleSize : i \in 1 .. EleSize - 1 \/ i = EleSize
      BY <1>1
    <3> QED BY <1>5, <3>2, <3>3, <3>4
  <2> QED BY <1>6, <2>1 DEF RegisterNext, OneHolderPerSlice
<1>9. Control'
    BY DEF RegisterNext, Control
<1>10. Registration'
  <2>1. ASSUME NEW i \in DOMAIN buffer', i > toRegister'
        PROVE  buffer'[i] \in registered'
    <3>1. CASE i = EleSize
      BY <1>5, <3>1 DEF RegisterNext, h
    <3>2. CASE i # EleSize
      <4>1. i \in 1 .. EleSize - 1 /\ i + 1 \in DOMAIN buffer /\ i + 1 > toRegister
        BY <1>1, <1>3, <1>5, <2>1, <3>2 DEF RegisterNext, TypeOK
      <4>2. buffer'[i] = buffer[i + 1]
        BY <1>3, <1>5, <4>1
      <4> QED BY <4>1, <4>2 DEF RegisterNext, Registration
    <3> QED BY <3>1, <3>2
  <2>2. Lent' \subseteq registered'
    BY <1>6 DEF RegisterNext, Registration
  <2>3. toRegister' > 0 => /\ ~isClosed'
                           /\ Len(buffer') = EleSize
                           /\ \A c \in Callers : cpc'[c] = "idle"
    BY <1>1, <1>5 DEF RegisterNext, Registration
  <2> QED BY <2>1, <2>2, <2>3 DEF Registration
<1> QED BY <1>7, <1>8, <1>9, <1>10

\* Acquire moves the first slice from the queue to the caller.
LEMMA AcquireBufferInv ==
    ASSUME Inv, NEW c \in Callers, AcquireBuffer(c)
    PROVE  Inv'
<1> USE DEF Inv
<1> DEFINE h == Head(buffer)
<1>1. buffer # <<>> /\ buffer \in Seq(Slices) /\ ~isClosed
    BY DEF AcquireBuffer, TypeOK
<1>2. /\ h \in Slices
      /\ h = buffer[1]
      /\ buffer' \in Seq(Slices)
      /\ Len(buffer) \in Nat \ {0}
      /\ DOMAIN buffer = 1 .. Len(buffer)
      /\ DOMAIN buffer' = 1 .. Len(buffer) - 1
      /\ \A i \in 1 .. Len(buffer) - 1 : buffer'[i] = buffer[i + 1]
      /\ Free = Free' \union {h}
  <2>1. buffer' = Tail(buffer)
    BY DEF AcquireBuffer
  <2>2. Free' = {Tail(buffer)[i] : i \in DOMAIN Tail(buffer)}
    BY <2>1 DEF Free
  <2>3. {buffer[i] : i \in DOMAIN buffer} =
            {Tail(buffer)[i] : i \in DOMAIN Tail(buffer)} \union {h}
    BY <1>1, TailElements
  <2>4. Free = Free' \union {h}
    BY <2>2, <2>3 DEF Free
  <2>5. /\ h \in Slices
        /\ h = buffer[1]
        /\ Tail(buffer) \in Seq(Slices)
        /\ Len(buffer) \in Nat \ {0}
        /\ DOMAIN buffer = 1 .. Len(buffer)
        /\ DOMAIN Tail(buffer) = 1 .. Len(buffer) - 1
        /\ \A i \in 1 .. Len(buffer) - 1 : Tail(buffer)[i] = buffer[i + 1]
    BY <1>1, TailElements
  <2> QED BY <2>1, <2>4, <2>5
<1>3. h # Null
    BY <1>2, SliceAddresses DEF Null
<1>4. lent[c] = Null /\ toRegister = 0
    BY DEF AcquireBuffer, Control, Registration, TypeOK
<1>5. \A d \in Callers : lent'[d] = IF d = c THEN h ELSE lent[d]
    BY DEF AcquireBuffer, TypeOK
<1>6. Lent' = Lent \union {h}
    BY <1>3, <1>4, <1>5 DEF Lent
<1> HIDE DEF h
<1>7. h \notin Free'
  <2>1. \A i \in 1 .. Len(buffer) - 1 : buffer[i + 1] # buffer[1]
    BY <1>2 DEF OneHolderPerSlice
  <2> QED BY <1>2, <2>1 DEF Free
<1>8. h \in Free
    BY <1>2
<1>9. TypeOK'
    BY <1>2 DEF AcquireBuffer, TypeOK, h
<1>10. OneHolderPerSlice'
  <2>1. \A i, k \in DOMAIN buffer' : buffer'[i] = buffer'[k] => i = k
    <3> SUFFICES ASSUME NEW i \in 1 .. Len(buffer) - 1, NEW k \in 1 .. Len(buffer) - 1,
                        buffer[i + 1] = buffer[k + 1]
                 PROVE  i = k
      BY <1>2
    <3>1. i + 1 \in DOMAIN buffer /\ k + 1 \in DOMAIN buffer
      BY <1>2
    <3>2. i + 1 = k + 1
      BY <3>1 DEF OneHolderPerSlice
    <3> QED BY <1>2, <3>2
  <2>2. \A b, d \in Callers : lent'[b] = lent'[d] /\ lent'[b] # Null => b = d
    <3>1. \A d \in Callers : lent[d] # h
      BY <1>3, <1>8 DEF OneHolderPerSlice, Lent
    <3> QED BY <1>5, <3>1 DEF OneHolderPerSlice
  <2>3. Free' \intersect Lent' = {}
    BY <1>2, <1>6, <1>7 DEF OneHolderPerSlice
  <2>4. Free' \union Lent' = Slices
    BY <1>1, <1>2, <1>6 DEF OneHolderPerSlice
  <2> QED BY <2>1, <2>2, <2>3, <2>4 DEF OneHolderPerSlice
<1>11. Control'
  <2>1. \A d \in Callers : cpc'[d] = IF d = c THEN "holding" ELSE cpc[d]
    BY DEF AcquireBuffer, TypeOK
  <2>2. \A d \in Callers : cpc'[d] = "holding" <=> lent'[d] # Null
    BY <1>3, <1>5, <2>1 DEF Control
  <2>3. \A d \in waitSet' : cpc'[d] = "acquire"
    BY <2>1 DEF AcquireBuffer, Control, TypeOK
  <2> QED BY <2>2, <2>3 DEF AcquireBuffer, Control
<1>12. Registration'
  <2>1. \A i \in DOMAIN buffer : buffer[i] \in registered
    BY <1>2, <1>4 DEF Registration
  <2>2. registered' = registered /\ toRegister' = 0
    BY <1>4 DEF AcquireBuffer
  <2>3. h \in registered /\ \A i \in DOMAIN buffer' : buffer'[i] \in registered
    <3>1. \A i \in DOMAIN buffer' : i \in 1 .. Len(buffer) - 1 /\ i + 1 \in DOMAIN buffer
      BY <1>2
    <3> QED BY <1>2, <2>1, <3>1
  <2>4. Lent' \subseteq registered
    BY <1>6, <2>3 DEF Registration
  <2> QED BY <2>2, <2>3, <2>4 DEF Registration
<1> QED BY <1>9, <1>10, <1>11, <1>12

\* Release moves the caller's slice to the end of the queue.
LEMMA ReleaseInv ==
    ASSUME Inv, NEW c \in Callers, Release(c)
    PROVE  Inv'
<1> USE DEF Inv
<1> DEFINE p == lent[c]
<1>1. p \in Slices /\ p # Null /\ ~isClosed /\ toRegister = 0 /\ p \in Lent
    BY DEF Release, Control, Registration, TypeOK, Lent
<1>2. /\ buffer' \in Seq(Slices)
      /\ Len(buffer) \in Nat
      /\ DOMAIN buffer' = 1 .. Len(buffer) + 1
      /\ DOMAIN buffer = 1 .. Len(buffer)
      /\ \A i \in 1 .. Len(buffer) : buffer'[i] = buffer[i]
      /\ buffer'[Len(buffer) + 1] = p
      /\ Free' = Free \union {p}
    BY <1>1, AppendElements, LenProperties DEF Release, TypeOK, Free
<1>3. \A d \in Callers : lent'[d] = IF d = c THEN Null ELSE lent[d]
    BY DEF Release, TypeOK
<1>4. Lent = Lent' \union {p}
    BY <1>1, <1>3 DEF Lent
<1>5. p \notin Lent'
    BY <1>1, <1>3 DEF Lent, OneHolderPerSlice
<1>6. p \notin Free
    BY <1>1 DEF OneHolderPerSlice
<1>7. TypeOK'
    BY <1>2 DEF Release, TypeOK
<1> HIDE DEF p
<1>8. OneHolderPerSlice'
  <2>1. \A i, k \in DOMAIN buffer' : buffer'[i] = buffer'[k] => i = k
    <3>1. \A i \in 1 .. Len(buffer) : buffer[i] # p
      BY <1>2, <1>6 DEF Free
    <3> QED BY <1>2, <3>1 DEF OneHolderPerSlice
  <2>2. \A b, d \in Callers : lent'[b] = lent'[d] /\ lent'[b] # Null => b = d
    BY <1>3 DEF OneHolderPerSlice
  <2>3. Free' \intersect Lent' = {}
    BY <1>2, <1>4, <1>5 DEF OneHolderPerSlice
  <2>4. Free' \union Lent' = Slices
    BY <1>1, <1>2, <1>4 DEF OneHolderPerSlice
  <2> QED BY <2>1, <2>2, <2>3, <2>4 DEF OneHolderPerSlice
<1>9. Control'
  <2>1. \A d \in Callers : cpc'[d] = IF d = c THEN "notify" ELSE cpc[d]
    BY DEF Release, TypeOK
  <2>2. \A d \in Callers : cpc'[d] = "holding" <=> lent'[d] # Null
    BY <1>3, <2>1 DEF Control
  <2>3. \A d \in waitSet' : cpc'[d] = "acquire"
    BY <2>1 DEF Release, Control, TypeOK
  <2> QED BY <2>2, <2>3 DEF Release, Control
<1>10. Registration'
  <2>1. registered' = registered /\ toRegister' = 0
    BY <1>1 DEF Release
  <2>2. p \in registered /\ Lent' \subseteq registered
    BY <1>1, <1>4 DEF Registration
  <2>3. \A i \in DOMAIN buffer : buffer[i] \in registered
    BY <1>1, <1>2 DEF Registration
  <2>4. \A i \in DOMAIN buffer' : buffer'[i] \in registered
    <3>1. \A i \in DOMAIN buffer' : i \in 1 .. Len(buffer) \/ i = Len(buffer) + 1
      BY <1>2
    <3> QED BY <1>2, <2>2, <2>3, <3>1
  <2> QED BY <2>1, <2>2, <2>4 DEF Registration
<1> QED BY <1>7, <1>8, <1>9, <1>10

\* A late Release drops the caller's pointer; the slice is nobody's any more.
LEMMA ReleaseIgnoredInv ==
    ASSUME Inv, NEW c \in Callers, ReleaseIgnored(c)
    PROVE  Inv'
<1> USE DEF Inv
<1>1. \A d \in Callers : lent'[d] = IF d = c THEN Null ELSE lent[d]
    BY DEF ReleaseIgnored, TypeOK
<1>2. \A d \in Callers : cpc'[d] = IF d = c THEN "idle" ELSE cpc[d]
    BY DEF ReleaseIgnored, TypeOK
<1>3. Free' = Free /\ Lent' \subseteq Lent
    BY <1>1 DEF ReleaseIgnored, Free, Lent
<1>4. TypeOK'
    BY DEF ReleaseIgnored, TypeOK
<1>5. OneHolderPerSlice'
    BY <1>1, <1>3 DEF ReleaseIgnored, OneHolderPerSlice
<1>6. Control'
  <2>1. \A d \in Callers : cpc'[d] = "holding" <=> lent'[d] # Null
    BY <1>1, <1>2 DEF Control
  <2>2. \A d \in waitSet' : cpc'[d] = "acquire"
    BY <1>2 DEF ReleaseIgnored, Control, TypeOK
  <2> QED BY <2>1, <2>2 DEF ReleaseIgnored, Control
<1>7. Registration'
    BY <1>3 DEF ReleaseIgnored, Registration
<1> QED BY <1>4, <1>5, <1>6, <1>7

\* The other steps move no slice.
LEMMA ControlInv ==
    ASSUME Inv,
           \/ \E c \in Callers : \/ CallAcquire(c) \/ AcquireNull(c) \/ AcquireSleep(c)
                                 \/ ReleaseNotify(c) \/ SpuriousWakeup(c)
           \/ CloseFlag \/ CloseNotifyAll \/ CloseFree
           \/ UNCHANGED vars
    PROVE  Inv'
<1> USE DEF Inv
<1>1. ASSUME UNCHANGED <<buffer, lent, registered, toRegister>>, isClosed => isClosed',
             toRegister > 0 => UNCHANGED <<isClosed, cpc>>
      PROVE  OneHolderPerSlice' /\ Registration'
  <2>1. Free' = Free /\ Lent' = Lent
    BY <1>1 DEF Free, Lent
  <2>2. OneHolderPerSlice'
    BY <1>1, <2>1 DEF OneHolderPerSlice
  <2>3. Registration'
    BY <1>1, <2>1 DEF Registration
  <2> QED BY <2>2, <2>3
<1>2. ASSUME NEW c \in Callers, CallAcquire(c) PROVE Inv'
  <2>1. OneHolderPerSlice' /\ Registration'
    BY <1>1, <1>2 DEF CallAcquire
  <2>2. TypeOK' /\ Control'
    BY <1>2 DEF CallAcquire, TypeOK, Control
  <2> QED BY <2>1, <2>2
<1>3. ASSUME NEW c \in Callers, AcquireNull(c) PROVE Inv'
  <2>1. toRegister = 0
    BY <1>3 DEF AcquireNull, TypeOK, Registration
  <2>2. OneHolderPerSlice' /\ Registration'
    BY <1>1, <1>3, <2>1 DEF AcquireNull
  <2>3. TypeOK' /\ Control'
    BY <1>3 DEF AcquireNull, TypeOK, Control
  <2> QED BY <2>2, <2>3
<1>4. ASSUME NEW c \in Callers, AcquireSleep(c) PROVE Inv'
  <2>1. OneHolderPerSlice' /\ Registration'
    BY <1>1, <1>4 DEF AcquireSleep
  <2>2. TypeOK' /\ Control'
    BY <1>4 DEF AcquireSleep, TypeOK, Control
  <2> QED BY <2>1, <2>2
<1>5. ASSUME NEW c \in Callers, ReleaseNotify(c) PROVE Inv'
  <2>1. toRegister = 0
    BY <1>5 DEF ReleaseNotify, TypeOK, Registration
  <2>2. waitSet' \subseteq waitSet
    BY <1>5 DEF ReleaseNotify
  <2>3. OneHolderPerSlice' /\ Registration'
    BY <1>1, <1>5, <2>1 DEF ReleaseNotify
  <2>4. TypeOK'
    BY <1>5, <2>2 DEF ReleaseNotify, TypeOK
  <2>5. Control'
    BY <1>5, <2>2 DEF ReleaseNotify, TypeOK, Control
  <2> QED BY <2>3, <2>4, <2>5
<1>6. ASSUME NEW c \in Callers, SpuriousWakeup(c) PROVE Inv'
  <2>1. OneHolderPerSlice' /\ Registration'
    BY <1>1, <1>6 DEF SpuriousWakeup
  <2>2. TypeOK' /\ Control'
    BY <1>6 DEF SpuriousWakeup, TypeOK, Control
  <2> QED BY <2>1, <2>2
<1>7. CASE CloseFlag
  <2>1. OneHolderPerSlice' /\ Registration'
    BY <1>1, <1>7 DEF CloseFlag
  <2>2. TypeOK' /\ Control'
    BY <1>7 DEF CloseFlag, TypeOK, Control
  <2> QED BY <2>1, <2>2
<1>8. CASE CloseNotifyAll
  <2>1. OneHolderPerSlice' /\ Registration'
    BY <1>1, <1>8 DEF CloseNotifyAll
  <2>2. TypeOK' /\ Control'
    BY <1>8 DEF CloseNotifyAll, TypeOK, Control
  <2> QED BY <2>1, <2>2
<1>9. CASE CloseFree
  <2>1. OneHolderPerSlice' /\ Registration'
    BY <1>1, <1>9 DEF CloseFree
  <2>2. TypeOK' /\ Control'
    BY <1>9 DEF CloseFree, TypeOK, Control
  <2> QED BY <2>1, <2>2
<1>10. CASE UNCHANGED vars
  <2>1. OneHolderPerSlice' /\ Registration'
    BY <1>1, <1>10 DEF vars
  <2>2. TypeOK' /\ Control'
    BY <1>10 DEF vars, TypeOK, Control
  <2> QED BY <2>1, <2>2
<1> QED BY <1>2, <1>3, <1>4, <1>5, <1>6, <1>7, <1>8, <1>9, <1>10

\* Every step keeps the invariant.
LEMMA StepInv == Inv /\ [Next]_vars => Inv'
<1> SUFFICES ASSUME Inv, [Next]_vars PROVE Inv'
    OBVIOUS
<1>1. CASE RegisterNext
    BY <1>1, RegisterNextInv
<1>2. ASSUME NEW c \in Callers, AcquireBuffer(c) PROVE Inv'
    BY <1>2, AcquireBufferInv
<1>3. ASSUME NEW c \in Callers, Release(c) PROVE Inv'
    BY <1>3, ReleaseInv
<1>4. ASSUME NEW c \in Callers, ReleaseIgnored(c) PROVE Inv'
    BY <1>4, ReleaseIgnoredInv
<1>5. CASE \/ \E c \in Callers : \/ CallAcquire(c) \/ AcquireNull(c) \/ AcquireSleep(c)
                                 \/ ReleaseNotify(c) \/ SpuriousWakeup(c)
           \/ CloseFlag \/ CloseNotifyAll \/ CloseFree
           \/ UNCHANGED vars
    BY <1>5, ControlInv
<1> QED BY <1>1, <1>2, <1>3, <1>4, <1>5 DEF Next, Acquiring, Releasing

------------------------------------------------------------------------------
(* Wakeups are counted: each free slice needs one. *)

\* The sets that the wakeup count compares are finite.
LEMMA Counted ==
    ASSUME TypeOK
    PROVE  /\ IsFiniteSet(Awake) /\ Cardinality(Awake) \in Nat
           /\ IsFiniteSet(Notifying) /\ Cardinality(Notifying) \in Nat
           /\ Len(buffer) \in Nat
<1>1. Awake \in SUBSET Callers /\ Notifying \in SUBSET Callers
    BY DEF Awake, Notifying
<1>2. IsFiniteSet(Awake) /\ IsFiniteSet(Notifying)
    BY <1>1, FS_Subset, CallersAssumption
<1>3. Len(buffer) \in Nat
    BY LenProperties DEF TypeOK
<1> QED BY <1>2, <1>3, FS_CardinalityType

\* Every step keeps the wakeup count.
LEMMA WakeupStep == Inv /\ WakeupsCoverFreeSlices /\ [Next]_vars => WakeupsCoverFreeSlices'
<1> SUFFICES ASSUME Inv, WakeupsCoverFreeSlices, [Next]_vars, waitSet' # {}, ~isClosed'
             PROVE  Len(buffer') <= Cardinality(Awake') + Cardinality(Notifying')
    BY DEF WakeupsCoverFreeSlices
<1> USE Counted DEF Inv
\* Nobody sleeps while the tensors are made.
<1>1. CASE RegisterNext
    BY <1>1 DEF RegisterNext, Registration, Control, TypeOK
\* A caller that calls Acquire, or wakes, is one more on its way.
<1>2. ASSUME NEW c \in Callers, CallAcquire(c) \/ SpuriousWakeup(c)
      PROVE  Len(buffer') <= Cardinality(Awake') + Cardinality(Notifying')
  <2>1. waitSet # {} /\ ~isClosed /\ buffer' = buffer
    BY <1>2 DEF CallAcquire, SpuriousWakeup
  <2>2. Notifying' = Notifying
    BY <1>2 DEF CallAcquire, SpuriousWakeup, Notifying, TypeOK
  <2>3. Awake' = Awake \union {c}
    BY <1>2 DEF CallAcquire, SpuriousWakeup, Awake, Control, TypeOK
  <2>4. Cardinality(Awake') = IF c \in Awake THEN Cardinality(Awake) ELSE Cardinality(Awake) + 1
    BY <2>3, FS_AddElement
  <2> QED BY <2>1, <2>2, <2>4 DEF WakeupsCoverFreeSlices
\* A caller that gets a slice uses up itself and the slice.
<1>3. ASSUME NEW c \in Callers, AcquireBuffer(c)
      PROVE  Len(buffer') <= Cardinality(Awake') + Cardinality(Notifying')
  <2>1. Awake' = Awake \ {c} /\ c \in Awake /\ waitSet' = waitSet /\ ~isClosed
    BY <1>3 DEF AcquireBuffer, Awake, TypeOK
  <2>2. Cardinality(Awake') = Cardinality(Awake) - 1
    BY <2>1, FS_RemoveElement
  <2>3. Notifying' = Notifying
    BY <1>3 DEF AcquireBuffer, Notifying, TypeOK
  <2>4. Len(buffer') = Len(buffer) - 1
    BY <1>3, TailElements DEF AcquireBuffer, TypeOK
  <2> QED BY <2>1, <2>2, <2>3, <2>4 DEF WakeupsCoverFreeSlices
\* A caller sleeps on an empty queue only.
<1>4. ASSUME NEW c \in Callers, AcquireSleep(c)
      PROVE  Len(buffer') <= Cardinality(Awake') + Cardinality(Notifying')
  <2>1. Len(buffer') = 0
    BY <1>4 DEF AcquireSleep
  <2>2. Awake' \in SUBSET Callers /\ Notifying' \in SUBSET Callers
    BY DEF Awake, Notifying
  <2>3. IsFiniteSet(Awake') /\ IsFiniteSet(Notifying')
    BY <2>2, FS_Subset, CallersAssumption
  <2>4. Cardinality(Awake') \in Nat /\ Cardinality(Notifying') \in Nat
    BY <2>3, FS_CardinalityType
  <2> QED BY <2>1, <2>4
\* Release owes a notify.
<1>5. ASSUME NEW c \in Callers, Release(c)
      PROVE  Len(buffer') <= Cardinality(Awake') + Cardinality(Notifying')
  <2>1. Awake' = Awake /\ waitSet' = waitSet /\ ~isClosed
    BY <1>5 DEF Release, Awake, TypeOK
  <2>2. Notifying' = Notifying \union {c} /\ c \notin Notifying
    BY <1>5 DEF Release, Notifying, TypeOK
  <2>3. Cardinality(Notifying') = Cardinality(Notifying) + 1
    BY <2>2, FS_AddElement
  <2>4. lent[c] \in Slices
    BY <1>5 DEF Release, Control, TypeOK
  <2>5. Len(buffer') = Len(buffer) + 1
    BY <1>5, <2>4, AppendElements DEF Release, TypeOK
  <2> QED BY <2>1, <2>3, <2>5 DEF WakeupsCoverFreeSlices
\* A notify that finds a sleeper turns the debt into a caller on its way.
<1>6. ASSUME NEW c \in Callers, ReleaseNotify(c)
      PROVE  Len(buffer') <= Cardinality(Awake') + Cardinality(Notifying')
  <2>1. waitSet # {} /\ buffer' = buffer /\ ~isClosed
    BY <1>6 DEF ReleaseNotify
  <2>2. PICK d \in waitSet : waitSet' = waitSet \ {d}
    BY <1>6, <2>1 DEF ReleaseNotify
  <2>3. Awake' = Awake \union {d} /\ d \notin Awake
    BY <1>6, <2>2 DEF ReleaseNotify, Awake, Control, TypeOK
  <2>4. Notifying' = Notifying \ {c} /\ c \in Notifying
    BY <1>6 DEF ReleaseNotify, Notifying, TypeOK
  <2>5. Cardinality(Awake') = Cardinality(Awake) + 1
    BY <2>3, FS_AddElement
  <2>6. Cardinality(Notifying') = Cardinality(Notifying) - 1
    BY <2>4, FS_RemoveElement
  <2> QED BY <2>1, <2>5, <2>6 DEF WakeupsCoverFreeSlices
\* The steps of a closed pool.
<1>7. ASSUME NEW c \in Callers, AcquireNull(c) \/ ReleaseIgnored(c)
      PROVE  FALSE
    BY <1>7 DEF AcquireNull, ReleaseIgnored
<1>8. CASE CloseFlag \/ CloseNotifyAll \/ CloseFree
    BY <1>8 DEF CloseFlag, CloseNotifyAll, CloseFree, Control
<1>9. CASE UNCHANGED vars
    BY <1>9 DEF vars, Awake, Notifying, WakeupsCoverFreeSlices
<1> QED BY <1>1, <1>2, <1>3, <1>4, <1>5, <1>6, <1>7, <1>8, <1>9 DEF Next, Acquiring, Releasing

------------------------------------------------------------------------------
(* The theorems. *)

\* The inductive invariant.
THEOREM Invariant == Spec => []Inv
<1>1. Init => Inv BY InitInv
<1>2. Inv /\ [Next]_vars => Inv' BY StepInv
<1> QED BY <1>1, <1>2, PTL DEF Spec

\* Every variable keeps its type.
THEOREM TypeCorrect == Spec => []TypeOK
<1>1. Inv => TypeOK BY DEF Inv
<1> QED BY <1>1, Invariant, PTL

\* A slice is free or with one caller, and an open pool loses none.
THEOREM OneHolder == Spec => []OneHolderPerSlice
<1>1. Inv => OneHolderPerSlice BY DEF Inv
<1> QED BY <1>1, Invariant, PTL

\* The loop that makes one tensor per slice reaches every slice, because the
\* queue is first in, first out: infer finds a tensor for what it is lent.
THEOREM EverySliceHasItsTensor == Spec => []LentSliceIsRegistered
<1>1. Inv => LentSliceIsRegistered BY DEF Inv, Registration, LentSliceIsRegistered
<1> QED BY <1>1, Invariant, PTL

\* The bounds and alignment check of Release accepts whatever was lent, for any
\* size and number of slices.
THEOREM ReleaseAccepts == Spec => []ReleaseNeverThrows
<1>1. Inv => ReleaseNeverThrows
  <2> SUFFICES ASSUME Inv, NEW c \in Callers, cpc[c] = "holding", ~isClosed
               PROVE  Owns(lent[c])
    BY DEF ReleaseNeverThrows
  <2>1. lent[c] \in Slices /\ data = Base
    BY DEF Inv, Control, TypeOK
  <2> QED BY <2>1, SlicesAreOwned
<1> QED BY <1>1, Invariant, PTL

\* No caller is left asleep beside a free slice, for any number of callers.
THEOREM NoCallerAsleepBesideFreeSlice == Spec => []WakeupsCoverFreeSlices
<1>1. Init => WakeupsCoverFreeSlices
    BY DEF Init, WakeupsCoverFreeSlices
<1>2. Inv /\ WakeupsCoverFreeSlices /\ [Next]_vars => WakeupsCoverFreeSlices'
    BY WakeupStep
<1> QED BY <1>1, <1>2, Invariant, PTL DEF Spec

\* Once the flag of close is set no Acquire hands out a pointer.
THEOREM ClosedPoolLendsNothing == Spec => NothingLentOnceClosed
<1>1. Inv /\ [Next]_vars => [isClosed => \A c \in Callers : lent'[c] \in {lent[c], Null}]_vars
  <2> SUFFICES ASSUME Inv, Next, isClosed, NEW c \in Callers
               PROVE  lent'[c] \in {lent[c], Null}
    OBVIOUS
  <2>1. ASSUME NEW d \in Callers, AcquireBuffer(d) PROVE FALSE
    BY <2>1 DEF AcquireBuffer
  <2>2. ASSUME NEW d \in Callers, Release(d) \/ ReleaseIgnored(d)
        PROVE  lent'[c] \in {lent[c], Null}
    BY <2>2 DEF Release, ReleaseIgnored, Inv, TypeOK
  <2>3. ASSUME NEW d \in Callers,
               CallAcquire(d) \/ AcquireNull(d) \/ AcquireSleep(d) \/ ReleaseNotify(d)
               \/ SpuriousWakeup(d)
        PROVE  lent' = lent
    BY <2>3 DEF CallAcquire, AcquireNull, AcquireSleep, ReleaseNotify, SpuriousWakeup
  <2>4. CASE RegisterNext \/ CloseFlag \/ CloseNotifyAll \/ CloseFree
    BY <2>4 DEF RegisterNext, CloseFlag, CloseNotifyAll, CloseFree
  <2> QED BY <2>1, <2>2, <2>3, <2>4 DEF Next, Acquiring, Releasing
<1> QED BY <1>1, Invariant, PTL DEF Spec, NothingLentOnceClosed
==============================================================================
