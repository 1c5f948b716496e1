---------------------------- MODULE BufferProofs ----------------------------
(***************************************************************************)
(* Proofs about Buffer, for any number of objects, any heap and any chunk  *)
(* size.  The argument: every method that does not release storage turns   *)
(* an object that owns its block into one that does, touching no other     *)
(* block (Step below); ownership of all objects follows.  Then the loop    *)
(* that reads into a Buffer (BufferedRead), for every MIN_ROOM,            *)
(* FIRST_RESERVE (at least three times MIN_ROOM, as 4096 is of 256),       *)
(* CHUNK_SIZE and request.                                                 *)
(***************************************************************************)
EXTENDS Buffer, BufferedRead, TLAPS

(* Rounding up to a multiple of chunk, the way Buffer::setCapacity pads a  *)
(* capacity, yields no less than was asked for and costs less than one     *)
(* chunk more.                                                             *)
LEMMA PaddingBounds ==
    ASSUME NEW chunk \in Nat \ {0}, NEW value \in Nat, value > 0
    PROVE  /\ (value - 1) + chunk - ((value - 1) % chunk) \in Nat
           /\ (value - 1) + chunk - ((value - 1) % chunk) >= value
           /\ (value - 1) + chunk - ((value - 1) % chunk) < value + chunk
<1>1. (value - 1) % chunk \in 0..(chunk - 1)
    OBVIOUS
<1> QED
    BY <1>1

(* The object o owns its storage in the heap h. *)
Owns(o, h) ==
    /\ o.size <= o.capacity
    /\ o.capacity > 0 => o.data \in Blocks /\ h[o.data] = o.capacity
    /\ o.capacity = 0 => o.data = NULL

(* r is an outcome on o and h that owns its storage and disturbs no other: *)
(* a new block was free, an old one is freed, the rest is as it was.       *)
Step(o, h, r) ==
    /\ r = [o |-> r.o, h |-> r.h, ok |-> r.ok, fault |-> r.fault]
    /\ r.o \in Fields /\ r.h \in [Blocks -> Nat]
    /\ r.ok \in BOOLEAN /\ r.fault \in {"none", "store"}
    /\ Owns(r.o, r.h)
    /\ \A k \in Blocks : k # o.data /\ k # r.o.data => r.h[k] = h[k]
    /\ r.o.data # o.data => r.o.data \in Blocks /\ h[r.o.data] = 0
    /\ o.data \in Blocks /\ o.data # r.o.data => r.h[o.data] = 0

BufInv ==
    /\ TypeOK
    /\ fault # "heap"
    /\ \A b \in alive : Owns(buf[b], heap)
    /\ \A b, c \in alive : b # c /\ buf[b].data = buf[c].data => buf[b].data = NULL
    /\ \A k \in Blocks : heap[k] > 0 => \E b \in alive : buf[b].data = k

(* realloc() of owned storage, or of none, to n >= size bytes. *)
LEMMA ReallocStep ==
    ASSUME NEW o \in Fields, NEW h \in [Blocks -> Nat], NEW n \in Nat, n > 0,
           o.capacity > 0 => o.data \in Blocks /\ h[o.data] = o.capacity,
           o.capacity = 0 => o.data = NULL,
           o.size <= n, o.size <= o.capacity,
           NEW r \in Realloc(o, h, n)
    PROVE  /\ Step(o, h, r)
           /\ r.fault = "none"
           /\ r.ok => r.o.capacity = n /\ r.o.size = o.size
           /\ ~r.ok => r.o = o /\ r.h = h
<1>0. ~(o.data # NULL /\ h[o.data] = 0)
    BY DEF Fields
<1>1. CASE r = Outcome(o, h, FALSE)
    BY <1>1 DEF Outcome, Step, Owns
<1>2. CASE \E q \in Blocks : /\ h[q] = 0 \/ q = o.data
                             /\ r = Outcome([o EXCEPT !.data = q, !.capacity = n],
                                            Reallocated(h, o.data, q, n), TRUE)
  <2>1. PICK q \in Blocks : /\ h[q] = 0 \/ q = o.data
                            /\ r = Outcome([o EXCEPT !.data = q, !.capacity = n],
                                           Reallocated(h, o.data, q, n), TRUE)
      BY <1>2
  <2>2. /\ r.o = [o EXCEPT !.data = q, !.capacity = n]
        /\ r.h = Reallocated(h, o.data, q, n)
        /\ r.ok = TRUE /\ r.fault = "none"
        /\ r = [o |-> r.o, h |-> r.h, ok |-> r.ok, fault |-> r.fault]
      BY <2>1 DEF Outcome
  <2>3. /\ r.o.data = q /\ r.o.capacity = n /\ r.o.size = o.size /\ r.o \in Fields
      BY <2>2, Zenon DEF Fields
  <2>4. r.h \in [Blocks -> Nat]
      BY <2>2 DEF Reallocated
  <2>5. /\ r.h[q] = n
        /\ \A k \in Blocks : k # o.data /\ k # q => r.h[k] = h[k]
        /\ o.data \in Blocks /\ o.data # q => r.h[o.data] = 0
      BY <2>2 DEF Reallocated
  <2>6. Owns(r.o, r.h)
      BY <2>3, <2>5 DEF Owns
  <2>7. r.o.data # o.data => r.o.data \in Blocks /\ h[r.o.data] = 0
      BY Zenon, <2>1, <2>3
  <2>8. Step(o, h, r)
      BY <2>2, <2>3, <2>4, <2>5, <2>6, <2>7, Zenon DEF Step
  <2> QED
      BY <2>2, <2>3, <2>8
<1> QED
    BY <1>0, <1>1, <1>2, Zenon DEF Realloc

(* setCapacity() to more than nothing. *)
LEMMA SetCapacityStep ==
    ASSUME NEW o \in Fields, NEW h \in [Blocks -> Nat], Owns(o, h),
           NEW value \in Nat, value > 0,
           NEW r \in SetCapacity(o, h, value)
    PROVE  /\ Step(o, h, r)
           /\ r.fault = "none"
           /\ r.ok => r.o.capacity >= value /\ r.o.capacity < value + CHUNK_SIZE
           /\ o.capacity <= value => r.o.size = o.size
<1>0. /\ o.capacity \in Nat /\ o.size \in Nat /\ o.size <= o.capacity
      /\ o.capacity > 0 => o.data \in Blocks /\ h[o.data] = o.capacity
      /\ o.capacity = 0 => o.data = NULL
    BY DEF Fields, Owns
<1>1. CASE value > o.capacity
  <2>1. /\ GrownTo(o.capacity, value) \in Nat /\ GrownTo(o.capacity, value) >= value
        /\ GrownTo(o.capacity, value) < value + CHUNK_SIZE
    <3>1. value > 0
        BY <1>0, <1>1
    <3>2. PadUp(value) \in Nat /\ PadUp(value) >= value /\ PadUp(value) < value + CHUNK_SIZE
        BY Zenon, <3>1, PaddingBounds, ChunkAssumption DEF PadUp
    <3> QED
        BY <3>2, ChunkAssumption DEF GrownTo
  <2>2. r \in Realloc(o, h, GrownTo(o.capacity, value))
      BY <1>0, <1>1 DEF SetCapacity
  <2>3. o.size <= GrownTo(o.capacity, value) /\ GrownTo(o.capacity, value) > 0
      BY <2>1, <1>0, <1>1
  <2> QED
      BY <1>0, <1>1, <2>1, <2>2, <2>3, ReallocStep
<1>2. CASE value < o.capacity
  <2> DEFINE cut == CutTo(o, value)
  <2>1. /\ cut \in Fields /\ cut.data = o.data /\ cut.capacity = o.capacity
        /\ cut.size <= value /\ cut.size <= cut.capacity
      BY <1>0, <1>2 DEF Fields, CutTo
  <2>2. r \in Realloc(cut, h, value)
      BY <1>0, <1>2 DEF SetCapacity
  <2> HIDE DEF cut
  <2>3. /\ cut.capacity > 0 => cut.data \in Blocks /\ h[cut.data] = cut.capacity
        /\ cut.capacity = 0 => cut.data = NULL
      BY <1>0, <2>1
  <2>4. /\ Step(cut, h, r) /\ r.fault = "none"
        /\ r.ok => r.o.capacity = value
      BY <2>1, <2>2, <2>3, ReallocStep
  <2>5. Step(o, h, r)
      BY <2>1, <2>4 DEF Step
  <2> QED
      BY <2>4, <2>5, <1>0, <1>2, ChunkAssumption
<1>3. CASE value = o.capacity
  <2>1. r = Unchanged(o, h)
      BY <1>0, <1>3 DEF SetCapacity
  <2>2. /\ r.o = o /\ r.h = h /\ r.ok = TRUE /\ r.fault = "none"
        /\ r = [o |-> r.o, h |-> r.h, ok |-> r.ok, fault |-> r.fault]
      BY <2>1 DEF Unchanged, Outcome
  <2>3. Step(o, h, r)
      BY <2>2, Zenon DEF Step
  <2> QED
      BY <2>2, <2>3, <1>0, <1>3, ChunkAssumption
<1> QED
    BY <1>0, <1>1, <1>2, <1>3

(* A call that changes nothing keeps ownership. *)
LEMMA UnchangedStep ==
    ASSUME NEW o \in Fields, NEW h \in [Blocks -> Nat], Owns(o, h)
    PROVE  LET r == Unchanged(o, h) IN
             Step(o, h, r) /\ r.o = o /\ r.fault = "none" /\ r.ok
<1> DEFINE r == Unchanged(o, h)
<1>1. /\ r.o = o /\ r.h = h /\ r.ok = TRUE /\ r.fault = "none"
      /\ r = [o |-> r.o, h |-> r.h, ok |-> r.ok, fault |-> r.fault]
    BY DEF Unchanged, Outcome
<1> HIDE DEF r
<1>2. Step(o, h, r)
    BY <1>1, Zenon DEF Step
<1> QED
    BY <1>1, <1>2 DEF r

(* reserve() of more than nothing keeps size_, and makes room if it can. *)
LEMMA EnsureStep ==
    ASSUME NEW o \in Fields, NEW h \in [Blocks -> Nat], Owns(o, h),
           NEW value \in Nat, value > 0,
           NEW r \in Ensure(o, h, value)
    PROVE  /\ Step(o, h, r)
           /\ r.fault = "none"
           /\ r.ok => r.o.capacity >= value
           /\ r.o.size = o.size
<1>0. o.capacity \in Nat
    BY DEF Fields
<1>1. CASE value > o.capacity
  <2>1. r \in SetCapacity(o, h, value)
      BY <1>1 DEF Ensure
  <2> QED
      BY <1>0, <1>1, <2>1, SetCapacityStep
<1>2. CASE ~(value > o.capacity)
  <2>1. r = Unchanged(o, h)
      BY <1>0, <1>2 DEF Ensure
  <2> QED
      BY <1>0, <1>2, <2>1, UnchangedStep
<1> QED
    BY <1>1, <1>2

(* Changing size_ within the capacity does not affect ownership. *)
LEMMA ResizeStep ==
    ASSUME NEW o \in Fields, NEW h \in [Blocks -> Nat],
           NEW r, Step(o, h, r), NEW s \in Nat, s <= r.o.capacity
    PROVE  Step(o, h, Sized(r, s)) /\ Sized(r, s).fault = r.fault
<1> DEFINE g == Sized(r, s)
<1>1. r = [o |-> r.o, h |-> r.h, ok |-> r.ok, fault |-> r.fault] /\ r.o \in Fields
    BY DEF Step
<1>2. /\ g.o = [r.o EXCEPT !.size = s] /\ g.h = r.h /\ g.ok = r.ok
      /\ g.fault = r.fault
      /\ g = [o |-> g.o, h |-> g.h, ok |-> g.ok, fault |-> g.fault]
    BY <1>1 DEF Sized
<1>3. /\ g.o \in Fields /\ g.o.data = r.o.data /\ g.o.capacity = r.o.capacity
      /\ g.o.size = s
    BY <1>1, <1>2 DEF Fields
<1> HIDE DEF g
<1>4. Owns(g.o, g.h)
    BY <1>2, <1>3 DEF Step, Owns
<1>5. Step(o, h, g)
    BY <1>2, <1>3, <1>4, Zenon DEF Step
<1> QED
    BY <1>2, <1>5 DEF g

(* push_back() keeps ownership, whether or not the buffer can grow. *)
LEMMA PushBackStep ==
    ASSUME NEW o \in Fields, NEW h \in [Blocks -> Nat], Owns(o, h),
           NEW n \in Nat, NEW r \in PushBackOn(o, h, n)
    PROVE  Step(o, h, r) /\ r.fault = "none"
<1>0. o.size \in Nat /\ o.capacity \in Nat
    BY DEF Fields
<1>1. CASE n = 0
    BY <1>1, UnchangedStep DEF PushBackOn
<1>2. CASE n # 0
  <2>1. PICK e \in Ensure(o, h, o.size + n) :
            r = IF e.ok THEN Sized(e, e.o.size + n) ELSE e
      BY <1>2 DEF PushBackOn
  <2>2. /\ Step(o, h, e) /\ e.fault = "none" /\ e.o.size = o.size
        /\ e.ok => e.o.capacity >= o.size + n
      BY <1>0, <1>2, EnsureStep
  <2>3. CASE ~e.ok
      BY <2>1, <2>2, <2>3
  <2>4. CASE e.ok
      BY <1>0, <2>1, <2>2, <2>4, ResizeStep
  <2> QED
      BY <2>3, <2>4
<1> QED
    BY <1>1, <1>2

(* One outcome after another. *)
LEMMA StepTransitive ==
    ASSUME NEW o \in Fields, NEW h \in [Blocks -> Nat], NEW r, NEW g,
           Step(o, h, r), Step(r.o, r.h, g)
    PROVE  Step(o, h, g)
    BY DEF Step, Fields

(* printf() may end in a stray store, but leaves the storage in order. *)
LEMMA PrintfStep ==
    ASSUME NEW o \in Fields, NEW h \in [Blocks -> Nat], Owns(o, h),
           NEW f \in Nat, NEW n \in Nat \cup {-1}, NEW g \in PrintfOn(o, h, f, n)
    PROVE  Step(o, h, g)
<1>0. o.size \in Nat /\ o.capacity \in Nat
    BY DEF Fields
<1>1. PICK r \in Ensure(o, h, o.size + f + 1) : g \in FormatOn(r, n)
    BY DEF PrintfOn
<1>2. Step(o, h, r) /\ r.fault = "none" /\ r.o.size = o.size
    BY <1>0, EnsureStep
<1>3. /\ r.o \in Fields /\ r.h \in [Blocks -> Nat] /\ Owns(r.o, r.h)
      /\ r.o.size \in Nat /\ r.o.capacity \in Nat /\ r.o.size <= r.o.capacity
    BY <1>2 DEF Step, Owns, Fields
<1>4. CASE n < r.o.capacity - r.o.size
  <2>1. g = IF r.o.size + n < 0 THEN r ELSE Sized(r, r.o.size + n)
      BY <1>1, <1>2, <1>4 DEF FormatOn
  <2>2. CASE r.o.size + n < 0
      BY <1>2, <2>1, <2>2
  <2>3. CASE ~(r.o.size + n < 0)
    <3>1. r.o.size + n \in Nat /\ r.o.size + n <= r.o.capacity
        BY <1>3, <1>4, <2>3
    <3> QED
        BY <1>2, <2>1, <2>3, <3>1, ResizeStep
  <2> QED
      BY <2>2, <2>3
<1>5. CASE ~(n < r.o.capacity - r.o.size)
  <2>0. n \in Nat /\ r.o.capacity + n + 1 \in Nat /\ r.o.capacity + n + 1 > 0
      BY <1>3, <1>5
  <2>1. PICK e \in Ensure(r.o, r.h, r.o.capacity + n + 1) :
           g = IF e.ok THEN Sized(e, e.o.size + n)
               ELSE IF e.o.capacity = 0 /\ e.fault = "none"
               THEN [e EXCEPT !.fault = "store"] ELSE e
      BY <1>1, <1>2, <1>5 DEF FormatOn
  <2>2. /\ Step(r.o, r.h, e) /\ e.fault = "none" /\ e.o.size = r.o.size
        /\ e.ok => e.o.capacity >= r.o.capacity + n + 1
      BY <1>3, <2>0, EnsureStep
  <2>3. CASE e.ok
    <3>1. e.o.size + n \in Nat /\ e.o.size + n <= e.o.capacity
        BY <1>3, <2>0, <2>2, <2>3 DEF Step, Fields
    <3>2. Step(r.o, r.h, g)
        BY <1>3, <2>1, <2>2, <2>3, <3>1, ResizeStep
    <3> QED
        BY <1>2, <3>2, StepTransitive
  <2>4. CASE ~e.ok
    <3>1. CASE g = e
        BY <1>2, <2>2, <3>1, StepTransitive
    <3>2. CASE g = [e EXCEPT !.fault = "store"]
      <4>1. e = [o |-> e.o, h |-> e.h, ok |-> e.ok, fault |-> e.fault]
          BY <2>2 DEF Step
      <4>2. /\ g.o = e.o /\ g.h = e.h /\ g.ok = e.ok /\ g.fault = "store"
            /\ g = [o |-> g.o, h |-> g.h, ok |-> g.ok, fault |-> g.fault]
          BY <3>2, <4>1
      <4>3. Step(r.o, r.h, g)
          BY <2>2, <4>2, Zenon DEF Step
      <4> QED
          BY <1>2, <4>3, StepTransitive
    <3> QED
        BY <2>1, <2>4, <3>1, <3>2
  <2> QED
      BY <2>3, <2>4
<1> QED
    BY <1>4, <1>5

(* reserve(0) on owned storage frees it and touches no other block. *)
LEMMA ReleaseOutcome ==
    ASSUME NEW o \in Fields, NEW h \in [Blocks -> Nat], Owns(o, h),
           NEW r \in Ensure(o, h, 0)
    PROVE  /\ r.fault = "none" /\ r.h \in [Blocks -> Nat]
           /\ \A k \in Blocks : r.h[k] = IF k = o.data THEN 0 ELSE h[k]
<1>0. o.capacity \in Nat
    BY DEF Fields
<1>1. CASE o.capacity = 0
  <2>1. r = Unchanged(o, h)
      BY <1>1 DEF Ensure, SetCapacity
  <2> QED
      BY <2>1, <1>1, BufferAssumption DEF Unchanged, Outcome, Owns
<1>2. CASE o.capacity # 0
  <2>1. r = Freed(o, h)
      BY <1>0, <1>2 DEF Ensure, SetCapacity
  <2>2. ~(o.data # NULL /\ h[o.data] = 0)
      BY <1>0, <1>2 DEF Owns, Fields
  <2> QED
      BY <2>1, <2>2, <1>0, <1>2 DEF Freed, Outcome, Owns
<1> QED
    BY <1>1, <1>2

(* A method called on b, or on b under construction, keeps the invariant. *)
LEMMA ApplyInv ==
    ASSUME BufInv, NEW b \in Buffers, NEW o \in Fields,
           o.data = IF b \in alive THEN buf[b].data ELSE NULL,
           NEW outs, \A r \in outs : Step(o, heap, r),
           Apply(b, outs), alive' = alive \cup {b}
    PROVE  BufInv'
<1>1. PICK r \in outs : /\ buf' = [buf EXCEPT ![b] = r.o]
                        /\ heap' = r.h /\ fault' = r.fault
    BY Zenon DEF Apply
<1>2. Step(o, heap, r)
    BY <1>1
<1>3. TypeOK' /\ fault' # "heap"
    BY <1>1, <1>2 DEF BufInv, TypeOK, Step, Faults
<1>4. /\ buf'[b] = r.o /\ \A c \in alive \ {b} : buf'[c] = buf[c]
    BY <1>1 DEF BufInv, TypeOK
(* Nobody else's block is the one b had or the one b has now. *)
<1>5. ASSUME NEW c \in alive, c # b, buf[c].data \in Blocks
      PROVE  /\ buf[c].data # o.data /\ buf[c].data # r.o.data
             /\ r.h[buf[c].data] = heap[buf[c].data]
  <2>1. heap[buf[c].data] = buf[c].capacity /\ buf[c].capacity > 0
      BY <1>5, BufferAssumption DEF BufInv, Owns, TypeOK, Fields
  <2>2. buf[c].data # o.data
      BY <1>5, BufferAssumption DEF BufInv
  <2>3. buf[c].data # r.o.data
      BY <1>2, <2>1, <2>2 DEF Step
  <2> QED
      BY <1>2, <1>5, <2>2, <2>3 DEF Step
<1>6. \A c \in alive' : Owns(buf'[c], heap')
  <2> SUFFICES ASSUME NEW c \in alive' PROVE Owns(buf'[c], heap')
      OBVIOUS
  <2>1. CASE c = b
      BY <1>1, <1>2, <1>4, <2>1 DEF Step
  <2>2. CASE c # b
    <3>1. c \in alive /\ buf'[c] = buf[c] /\ Owns(buf[c], heap)
        BY <1>4, <2>2 DEF BufInv
    <3>2. buf[c].capacity \in Nat
        BY <3>1 DEF BufInv, TypeOK, Fields
    <3> QED
        BY <1>1, <1>5, <2>2, <3>1, <3>2 DEF Owns
  <2> QED
      BY <2>1, <2>2
<1>7. \A c, d \in alive' : c # d /\ buf'[c].data = buf'[d].data => buf'[c].data = NULL
  <2>1. ASSUME NEW c \in alive, c # b, buf[c].data = r.o.data
        PROVE  buf[c].data = NULL
      BY <1>5, <2>1 DEF BufInv, TypeOK, Fields
  <2> QED
      BY <1>4, <2>1 DEF BufInv
<1>8. \A k \in Blocks : heap'[k] > 0 => \E c \in alive' : buf'[c].data = k
  <2> SUFFICES ASSUME NEW k \in Blocks, heap'[k] > 0
               PROVE  \E c \in alive' : buf'[c].data = k
      OBVIOUS
  <2>1. CASE k = r.o.data
      BY <1>4, <2>1
  <2>2. CASE k # r.o.data
    <3>1. k # o.data
        BY <1>1, <1>2, <2>2 DEF Step
    <3>2. heap[k] > 0
        BY <1>1, <1>2, <2>2, <3>1 DEF Step
    <3>3. PICK c \in alive : buf[c].data = k
        BY <3>2 DEF BufInv
    <3>4. c # b
        BY <3>1, <3>3
    <3> QED
        BY <1>4, <3>3, <3>4
  <2> QED
      BY <2>1, <2>2
<1> QED
    BY <1>3, <1>6, <1>7, <1>8 DEF BufInv

(* b gives up its block: nobody else had it. *)
LEMMA OthersKeep ==
    ASSUME BufInv, NEW b \in alive, NEW c \in alive, c # b,
           NEW h \in [Blocks -> Nat],
           \A k \in Blocks : h[k] = IF k = buf[b].data THEN 0 ELSE heap[k]
    PROVE  Owns(buf[c], h)
<1>1. Owns(buf[c], heap) /\ buf[c].capacity \in Nat
    BY DEF BufInv, TypeOK, Fields
<1>2. buf[c].data \in Blocks => buf[c].data # buf[b].data
    BY BufferAssumption DEF BufInv
<1> QED
    BY <1>1, <1>2 DEF Owns

(* There are no buffers at first. *)
LEMMA InitBufInv == Init => BufInv
    BY BufferAssumption
    DEF Init, BufInv, TypeOK, Fresh, Fields, Faults, Owns

(* No call of a client that does not set a capacity to zero breaks it. *)
LEMMA NextBufInv == ~Releases /\ BufInv /\ [Next]_vars => BufInv'
<1> SUFFICES ASSUME ~Releases, BufInv, [Next]_vars PROVE BufInv'
    OBVIOUS
<1>0. /\ Fresh \in Fields /\ Fresh.data = NULL /\ heap \in [Blocks -> Nat]
      /\ Owns(Fresh, heap)
    BY BufferAssumption DEF Fresh, Fields, Owns, BufInv, TypeOK
<1>b. ASSUME NEW b \in alive
      PROVE  /\ b \in Buffers /\ buf[b] \in Fields /\ Owns(buf[b], heap)
             /\ buf[b].size \in Nat /\ buf[b].capacity \in Nat
             /\ alive = alive \cup {b}
    BY DEF BufInv, TypeOK, Fields
<1>1. ASSUME NEW b \in Buffers, NEW n \in 0..MaxRequest, Construct(b, n)
      PROVE  BufInv'
  <2>1. \A r \in PushBackOn(Fresh, heap, n) : Step(Fresh, heap, r)
      BY <1>0, PushBackStep
  <2> QED
      BY <1>0, <1>1, <2>1, ApplyInv DEF Construct
<1>2. ASSUME NEW b \in Buffers, NEW n \in 0..MaxRequest, ConstructReserve(b, n)
      PROVE  BufInv'
  <2>1. \A r \in Ensure(Fresh, heap, n) : Step(Fresh, heap, r)
    <3> TAKE r \in Ensure(Fresh, heap, n)
    <3>1. CASE n > 0
        BY <1>0, <3>1, EnsureStep
    <3>2. CASE n = 0
      <4>1. r = Unchanged(Fresh, heap)
          BY <3>2 DEF Ensure, SetCapacity, Fresh
      <4> QED
          BY <1>0, <4>1, UnchangedStep
    <3> QED
        BY <3>1, <3>2
  <2> QED
      BY <1>0, <1>2, <2>1, ApplyInv DEF ConstructReserve
<1>3. ASSUME NEW b \in Buffers, NEW n \in 0..MaxRequest, ConstructString(b, n)
      PROVE  BufInv'
  <2> DEFINE outs == {IF n <= r.o.capacity THEN Sized(r, n) ELSE r :
                         r \in PushBackOn(Fresh, heap, n + 1)}
  <2>1. ASSUME NEW r \in PushBackOn(Fresh, heap, n + 1)
        PROVE  Step(Fresh, heap, IF n <= r.o.capacity THEN Sized(r, n) ELSE r)
      BY <1>0, PushBackStep, ResizeStep
  <2>2. \A g \in outs : Step(Fresh, heap, g)
      BY <2>1
  <2>3. Apply(b, outs) /\ b \notin alive /\ alive' = alive \cup {b}
      BY <1>3 DEF ConstructString
  <2> HIDE DEF outs
  <2> QED
      BY <1>0, <2>2, <2>3, ApplyInv
<1>4. ASSUME NEW b \in Buffers, NEW n \in 0..MaxRequest, Reserve(b, n)
      PROVE  BufInv'
  <2>1. \A r \in Ensure(buf[b], heap, n) : Step(buf[b], heap, r)
      BY <1>0, <1>4, <1>b, EnsureStep DEF Reserve, Live
  <2> QED
      BY <1>4, <1>b, <2>1, ApplyInv DEF Reserve, Live
<1>5. ASSUME NEW b \in Buffers, NEW n \in 0..MaxRequest, ChangeCapacity(b, n)
      PROVE  BufInv'
  <2>1. \A r \in SetCapacity(buf[b], heap, n) : Step(buf[b], heap, r)
      BY <1>0, <1>5, <1>b, SetCapacityStep DEF ChangeCapacity, Live
  <2> QED
      BY <1>5, <1>b, <2>1, ApplyInv DEF ChangeCapacity, Live
<1>6. ASSUME NEW b \in Buffers, NEW n \in 0..MaxRequest, PushBack(b, n)
      PROVE  BufInv'
  <2>1. \A r \in PushBackOn(buf[b], heap, n) : Step(buf[b], heap, r)
      BY <1>0, <1>6, <1>b, PushBackStep DEF PushBack, Live
  <2> QED
      BY <1>6, <1>b, <2>1, ApplyInv DEF PushBack, Live
<1>7. ASSUME NEW b \in Buffers, NEW n \in 0..MaxRequest, Assign(b, n)
      PROVE  BufInv'
  <2> DEFINE o == [buf[b] EXCEPT !.size = 0]
  <2>1. b \in alive /\ Apply(b, PushBackOn(o, heap, n)) /\ alive' = alive
      BY <1>7 DEF Assign, Live
  <2>2. o \in Fields /\ o.data = buf[b].data /\ Owns(o, heap)
      BY <1>b, <2>1 DEF Fields, Owns
  <2> HIDE DEF o
  <2>3. \A r \in PushBackOn(o, heap, n) : Step(o, heap, r)
      BY <1>0, <2>2, PushBackStep
  <2> QED
      BY <1>b, <2>1, <2>2, <2>3, ApplyInv
<1>8. ASSUME NEW b \in Buffers, NEW n \in 0..MaxRequest, Resize(b, n)
      PROVE  BufInv'
    BY <1>8, <1>b DEF Resize, Live, BufInv, TypeOK, Fields, Owns
<1>9. ASSUME NEW b \in Buffers, NEW f \in 1..2, NEW n \in Nat \cup {-1}, Printf(b, f, n)
      PROVE  BufInv'
  <2>1. \A r \in PrintfOn(buf[b], heap, f, n) : Step(buf[b], heap, r)
      BY <1>0, <1>9, <1>b, PrintfStep DEF Printf, Live
  <2> QED
      BY <1>9, <1>b, <2>1, ApplyInv DEF Printf, Live
<1>10. ASSUME NEW b \in Buffers, CStr(b)
       PROVE  BufInv'
  <2>1. \A r \in Ensure(buf[b], heap, buf[b].size + 1) : Step(buf[b], heap, r)
      BY <1>0, <1>10, <1>b, EnsureStep DEF CStr, Live
  <2> QED
      BY <1>10, <1>b, <2>1, ApplyInv DEF CStr, Live
<1>11. ASSUME NEW b \in Buffers, Destroy(b)
       PROVE  BufInv'
  <2>1. PICK r \in Ensure(buf[b], heap, 0) :
            /\ buf' = [buf EXCEPT ![b] = Fresh] /\ heap' = r.h /\ fault' = r.fault
      BY <1>11 DEF Destroy
  <2>2. b \in alive /\ alive' = alive \ {b}
      BY <1>11 DEF Destroy, Live
  <2>3. /\ fault' = "none" /\ heap' \in [Blocks -> Nat]
        /\ \A k \in Blocks : heap'[k] = IF k = buf[b].data THEN 0 ELSE heap[k]
      BY <1>0, <1>b, <2>1, <2>2, ReleaseOutcome
  <2>4. \A c \in alive' : buf'[c] = buf[c] /\ Owns(buf'[c], heap')
      BY <2>1, <2>2, <2>3, OthersKeep DEF BufInv, TypeOK
  <2>5. TypeOK'
      BY <1>0, <2>1, <2>2, <2>3 DEF BufInv, TypeOK, Faults
  <2>6. \A k \in Blocks : heap'[k] > 0 => \E c \in alive' : buf'[c].data = k
      BY <2>2, <2>3, <2>4 DEF BufInv
  <2> QED
      BY <2>2, <2>3, <2>4, <2>5, <2>6 DEF BufInv
<1>12. ASSUME NEW b \in Buffers, NEW c \in Buffers, MoveAssign(b, c)
       PROVE  BufInv'
  <2>1. PICK r \in Ensure(buf[b], heap, 0) :
            /\ buf' = [buf EXCEPT ![b] = buf[c], ![c] = Fresh]
            /\ heap' = r.h /\ fault' = r.fault
      BY <1>12 DEF MoveAssign
  <2>2. b \in alive /\ c \in alive /\ alive' = alive
      BY <1>12 DEF MoveAssign, Live
  <2>3. /\ fault' = "none" /\ heap' \in [Blocks -> Nat]
        /\ \A k \in Blocks : heap'[k] = IF k = buf[b].data THEN 0 ELSE heap[k]
      BY <1>0, <1>b, <2>1, <2>2, ReleaseOutcome
  <2>4. \A d \in alive' : d # b => Owns(buf[d], heap')
      BY <2>2, <2>3, OthersKeep
  <2>5. /\ buf'[c] = Fresh /\ (b # c => buf'[b] = buf[c])
        /\ \A d \in alive' : d # b /\ d # c => buf'[d] = buf[d]
      BY <1>b, <2>1, <2>2 DEF BufInv, TypeOK
  <2>6. Owns(Fresh, heap')
      BY DEF Owns, Fresh
  <2>7. TypeOK'
      BY <1>0, <1>b, <2>1, <2>2, <2>3 DEF BufInv, TypeOK, Faults
  <2>8. \A d \in alive' : Owns(buf'[d], heap')
      BY <2>2, <2>4, <2>5, <2>6
  <2>9. \A d, e \in alive' : d # e /\ buf'[d].data = buf'[e].data => buf'[d].data = NULL
      BY <1>0, <2>2, <2>5 DEF BufInv
  <2>10. \A k \in Blocks : heap'[k] > 0 => \E d \in alive' : buf'[d].data = k
    <3> SUFFICES ASSUME NEW k \in Blocks, heap'[k] > 0
                 PROVE  \E d \in alive' : buf'[d].data = k
        OBVIOUS
    <3>1. k # buf[b].data /\ heap[k] > 0
        BY <2>3
    <3>2. PICK d \in alive : buf[d].data = k
        BY <3>1 DEF BufInv
    <3> QED
        BY <2>2, <2>5, <3>1, <3>2
  <2> QED
      BY <2>3, <2>7, <2>8, <2>9, <2>10 DEF BufInv
<1>13. ASSUME NEW b \in Buffers, NEW c \in Buffers, Swap(b, c)
       PROVE  BufInv'
  <2> DEFINE sw(d) == IF d = b THEN c ELSE IF d = c THEN b ELSE d
  <2>1. b \in alive /\ c \in alive /\ alive' = alive /\ heap' = heap /\ fault' = fault
      BY <1>13 DEF Swap, Live
  <2>2. \A d \in alive : sw(d) \in alive /\ buf'[d] = buf[sw(d)] /\ sw(sw(d)) = d
      BY <1>13, <1>b DEF Swap, Live, BufInv, TypeOK
  <2>3. TypeOK'
      BY <1>13, <1>b, <2>1 DEF Swap, BufInv, TypeOK
  <2> HIDE DEF sw
  <2>4. \A d \in alive' : Owns(buf'[d], heap')
      BY <2>1, <2>2 DEF BufInv
  <2>5. \A d, e \in alive' : d # e /\ buf'[d].data = buf'[e].data => buf'[d].data = NULL
    <3>1. \A d, e \in alive : d # e => sw(d) # sw(e)
        BY <2>2
    <3> QED
        BY <2>1, <2>2, <3>1 DEF BufInv
  <2>6. ASSUME NEW k \in Blocks, heap'[k] > 0
        PROVE  \E d \in alive' : buf'[d].data = k
    <3>1. PICK d \in alive : buf[d].data = k
        BY <2>1, <2>6 DEF BufInv
    <3> QED
        BY <2>1, <2>2, <3>1
  <2> QED
      BY <2>1, <2>3, <2>4, <2>5, <2>6 DEF BufInv
<1>14. ASSUME UNCHANGED vars PROVE BufInv'
    BY <1>14 DEF vars, BufInv, TypeOK, Owns
<1> QED
    BY <1>1, <1>2, <1>3, <1>4, <1>5, <1>6, <1>7, <1>8, <1>9, <1>10, <1>11,
       <1>12, <1>13, <1>14, BufferAssumption DEF Next

(* As long as no client frees a buffer it keeps, free() and realloc() only *)
(* ever see allocated blocks: construction, growth, shrinking, moves,      *)
(* swaps, printf() and destruction never misuse the heap.                  *)
THEOREM HeapDiscipline == ~Releases => (Spec => []NoHeapMisuse)
<1> SUFFICES ASSUME ~Releases PROVE Spec => []NoHeapMisuse
    OBVIOUS
<1>1. BufInv => NoHeapMisuse
    BY DEF BufInv, NoHeapMisuse
<1>2. BufInv /\ [Next]_vars => BufInv'
    BY NextBufInv
<1> QED
    BY InitBufInv, <1>1, <1>2, PTL DEF Spec

(* Under the same condition storage has exactly one owner, of the size the *)
(* owner believes, contents never exceed it, and nothing leaks.            *)
THEOREM Ownership ==
    ~Releases => (Spec => [](TypeOK /\ StorageOwned))
<1> SUFFICES ASSUME ~Releases
             PROVE  Spec => [](TypeOK /\ StorageOwned)
    OBVIOUS
<1>1. BufInv => TypeOK /\ StorageOwned
  <2> SUFFICES ASSUME BufInv PROVE StorageOwned
      BY DEF BufInv
  <2>1. ASSUME NEW b \in alive
        PROVE  /\ buf[b].size <= buf[b].capacity
               /\ buf[b].capacity > 0 => /\ buf[b].data \in Blocks
                                         /\ heap[buf[b].data] = buf[b].capacity
               /\ buf[b].capacity = 0 => buf[b].data = NULL
               /\ \A c \in alive :
                     b # c /\ buf[b].data = buf[c].data => buf[b].data = NULL
      BY <2>1 DEF BufInv, Owns
  <2>2. ASSUME NEW k \in Blocks, heap[k] > 0
        PROVE  \E b \in alive : buf[b].data = k /\ buf[b].capacity = heap[k]
    <3>1. PICK b \in alive : buf[b].data = k
        BY <2>2 DEF BufInv
    <3>2. Owns(buf[b], heap) /\ buf[b].capacity \in Nat
        BY DEF BufInv, TypeOK, Fields
    <3> QED
        BY <3>1, <3>2, BufferAssumption DEF Owns
  <2> QED
      BY <2>1, <2>2 DEF StorageOwned
<1>2. BufInv /\ [Next]_vars => BufInv'
    BY NextBufInv
<1> QED
    BY InitBufInv, <1>1, <1>2, PTL DEF Spec

(* Under the same condition a setCapacity() that returns true has provided *)
(* what was asked, at a cost of less than one chunk.                       *)
THEOREM GoAhead == ~Releases => (Spec => []TrueMeansAvailable)
<1> SUFFICES ASSUME ~Releases PROVE Spec => []TrueMeansAvailable
    OBVIOUS
<1>1. BufInv => TrueMeansAvailable
  <2> SUFFICES ASSUME BufInv, NEW b \in alive, NEW value \in 0..MaxRequest,
                      NEW r \in SetCapacity(buf[b], heap, value), r.ok
               PROVE  r.o.capacity >= value /\ r.o.capacity < value + CHUNK_SIZE
      BY DEF TrueMeansAvailable
  <2>1. /\ buf[b] \in Fields /\ buf[b].capacity \in Nat /\ Owns(buf[b], heap)
        /\ heap \in [Blocks -> Nat] /\ value \in Nat
      BY BufferAssumption DEF BufInv, TypeOK, Fields
  <2>2. CASE value > 0
      BY <2>1, <2>2, SetCapacityStep
  <2>3. CASE value = 0 /\ buf[b].capacity # 0
      BY <2>1, <2>3, ChunkAssumption DEF SetCapacity, Freed, Outcome, Fields
  <2>4. CASE value = 0 /\ buf[b].capacity = 0
    <3>1. r = Unchanged(buf[b], heap)
        BY <2>4 DEF SetCapacity
    <3> QED
        BY <2>1, <2>4, <3>1, UnchangedStep, ChunkAssumption
  <2> QED
      BY <2>1, <2>2, <2>3, <2>4
<1>2. BufInv /\ [Next]_vars => BufInv'
    BY NextBufInv
<1> QED
    BY InitBufInv, <1>1, <1>2, PTL DEF Spec
-----------------------------------------------------------------------------
(* What the loop keeps: the request is split into what was read and what   *)
(* is left, the result grew by what was read, and the kernel is only asked *)
(* when there is a request left and room for it.                           *)
ReadInv ==
    /\ ReadTypeOK
    /\ size <= capacity
    /\ pc # "caller" => size = start + nread /\ nread + left = asked
    /\ pc = "read" => left > 0 /\ capacity - size >= MIN_ROOM
    /\ ReturnIsHonest

(* Making room always leaves MIN_ROOM bytes free: a request for one and a  *)
(* half times a large size, or for FIRST_RESERVE at a small one, does.     *)
LEMMA ReservedLeavesRoom ==
    ASSUME size \in Nat, capacity \in Nat
    PROVE  Reserved \in Nat /\ Reserved - size >= MIN_ROOM
<1>1. Wanted \in Nat /\ Wanted - size >= MIN_ROOM /\ Wanted > 0
    BY ReadAssumption DEF Wanted, Max2
<1>2. GrownTo(capacity, Wanted) \in Nat /\ GrownTo(capacity, Wanted) >= Wanted
  <2>1. PadUp(Wanted) \in Nat /\ PadUp(Wanted) >= Wanted
      BY Zenon, <1>1, PaddingBounds, ChunkAssumption DEF PadUp
  <2> QED
      BY <1>1, <2>1 DEF GrownTo
<1> QED
    BY <1>1, <1>2, ReadAssumption DEF Reserved

(* A fresh result buffer satisfies the invariant. *)
LEMMA InitReadInv == ReadInit => ReadInv
    BY SMTT(20), ReadAssumption DEF ReadInit, ReadInv, ReadTypeOK, ReturnIsHonest

(* Every step of the loop and of its caller keeps the invariant. *)
LEMMA NextReadInv == ReadInv /\ [ReadNext]_readVars => ReadInv'
<1> SUFFICES ASSUME ReadInv, [ReadNext]_readVars PROVE ReadInv'
    OBVIOUS
<1> USE ReadAssumption DEF ReadInv, ReadTypeOK, ReturnIsHonest
<1>1. ASSUME NEW n \in 0..MaxSize, Consume(n) PROVE ReadInv'
    BY <1>1 DEF Consume
<1>2. ASSUME NEW n \in 0..MaxSize, Enter(n) PROVE ReadInv'
    BY <1>2 DEF Enter
<1>3. CASE Finish
    BY <1>3 DEF Finish, Return
<1>4. CASE MakeRoom
    BY <1>4, ReservedLeavesRoom DEF MakeRoom
<1>5. CASE NoMemory
    BY <1>5 DEF NoMemory, Return
<1>6. ASSUME NEW rv \in 1..MaxSize, ReadSome(rv) PROVE ReadInv'
    BY <1>6 DEF ReadSome, Return, nbytes, Min2
<1>7. ASSUME NEW rv \in {-1, 0}, ReadNothing(rv) PROVE ReadInv'
    BY <1>7 DEF ReadNothing, Return, nbytes, Min2
<1>8. CASE UNCHANGED readVars
    BY <1>8 DEF readVars
<1> QED
    BY <1>1, <1>2, <1>3, <1>4, <1>5, <1>6, <1>7, <1>8 DEF ReadNext, Loop

(* Every request to the kernel fits the free storage and asks for at least *)
(* one byte, so that a 0 from ::read() is end-of-file.                     *)
THEOREM UsefulRequests == ReadSpec => []RequestIsUseful
<1>1. ReadInv => RequestIsUseful
    BY ReadAssumption DEF ReadInv, ReadTypeOK, RequestIsUseful, nbytes, Min2
<1> QED
    BY <1>1, InitReadInv, NextReadInv, PTL DEF ReadSpec

(* What read(Buffer&) returns is what it appended; -1 and 0 are reserved   *)
(* for failure with nothing read and for end-of-file.                      *)
THEOREM HonestReturn == ReadSpec => []ReturnIsHonest
<1>1. ReadInv => ReturnIsHonest
    BY DEF ReadInv
<1> QED
    BY <1>1, InitReadInv, NextReadInv, PTL DEF ReadSpec

(* The loop's counters keep their types: left never passes below zero. *)
THEOREM ReadTypes == ReadSpec => []ReadTypeOK
<1>1. ReadInv => ReadTypeOK
    BY DEF ReadInv
<1> QED
    BY <1>1, InitReadInv, NextReadInv, PTL DEF ReadSpec
=============================================================================
