--------------------------- MODULE VmFramesHand -----------------------------
(***************************************************************************)
(* The invariant of VmFrames, and lemmas about the frame in hand: the one  *)
(* that is popped to execute an instruction, or held by a try.  Each action *)
(* of the machine is an instance of one of seven steps on it: a direct     *)
(* call, or the frame is held, resumed or dropped, its driver is left, it  *)
(* waits for a nested call, or it returns to the frame below.  For each    *)
(* step there is a lemma on the callers; VmFramesProofs has the rest.      *)
(***************************************************************************)
EXTENDS VmFrames, SequenceTheorems, TLAPS

(* The types the argument needs.  A base is a length of the stack, which   *)
(* only the distinctness of ids bounds.                                    *)
DriverRec == [target : Ids, base : Nat, held : Frame \union {NoFrame},
              tries : Seq(TryContext)]

Types ==
  /\ frames \in Seq(Frame) /\ drivers \in Seq(DriverRec)
  /\ nextId \in 1 .. MaxFrames + 1
  /\ signal \in Outcomes \union {"none"}

(* No id is given out twice. *)
Fresh ==
  /\ \A i \in DOMAIN frames : frames[i].id < nextId
  /\ \A d \in DOMAIN drivers : drivers[d].held.id < nextId

Once ==
  /\ \A i, j \in DOMAIN frames : frames[i].id = frames[j].id => i = j
  /\ \A d, e \in DOMAIN drivers :
       drivers[d].held.id # 0 /\ drivers[d].held.id = drivers[e].held.id => d = e
  /\ \A i \in DOMAIN frames, d \in DOMAIN drivers : frames[i].id # drivers[d].held.id

(* A driver that holds no frame is the innermost and in no try. *)
Waiting ==
  \A d \in DOMAIN drivers :
    drivers[d].held = NoFrame => d = Len(drivers) /\ drivers[d].tries = <<>>

Bases ==
  /\ \A d, e \in DOMAIN drivers : d <= e => drivers[d].base <= drivers[e].base
  /\ \A d \in DOMAIN drivers : drivers[d].base <= Len(frames)

(* The driver's own frame is held by it or in its segment of the stack,    *)
(* unless the driver is about to fail.                                     *)
Top(d) == IF d = Len(drivers) THEN Len(frames) ELSE drivers[d + 1].base
HasTarget(d) ==
  \/ drivers[d].held.id = drivers[d].target
  \/ \E i \in drivers[d].base + 1 .. Top(d) : frames[i].id = drivers[d].target
Targets ==
  \A d \in DOMAIN drivers :
    drivers[d].held # NoFrame \/ signal = "none" => HasTarget(d)

(* Who called whom, as long as no driver has left frames behind: at the    *)
(* base of a driver's segment is its own frame, called by the frame that   *)
(* the driver below holds; every other frame was called by the one below.  *)
(* A frame that is held has its place on top of the segment.  The caller   *)
(* gives handles to its own slots and those it was given.                  *)
CalledBy(f, c) == f.caller = c.id /\ f.refs \subseteq {c.id} \union c.refs
Linked(ds, s, d, i, f) ==
  IF i = ds[d].base + 1
  THEN /\ f.id = ds[d].target /\ ~f.direct
       /\ IF d > 1 THEN CalledBy(f, ds[d - 1].held) ELSE f.refs = {}
  ELSE CalledBy(f, s[i - 1])
Segment(ds, s, d, t) ==
  /\ \A i \in ds[d].base + 1 .. t : Linked(ds, s, d, i, s[i])
  /\ ds[d].held # NoFrame => Linked(ds, s, d, t + 1, ds[d].held)
Links == \A d \in 1 .. Len(drivers) : Segment(drivers, frames, d, Top(d))
Chain == leaked = {} => Links
KeepsChain == Chain => Chain'

IInv == Types /\ Fresh /\ Once /\ Waiting /\ Bases /\ Targets

(* What a step does: it preserves the invariant, and the callers.          *)
Preserved == IInv' /\ KeepsChain

-----------------------------------------------------------------------------
(* The numbers below the last one. *)
LEMMA BelowLast ==
  ASSUME NEW n \in Nat \ {0}
  PROVE  /\ \A d \in 1 .. n : d # n => d \in 1 .. n - 1
         /\ \A d \in 1 .. n - 1 : d \in 1 .. n /\ d + 1 \in 1 .. n /\ d # n
         /\ \A d \in 1 .. n - 1 : d # n - 1 => d + 1 \in 1 .. n - 1
         /\ n \in 1 .. n
OBVIOUS

LEMMA OneMore ==
  ASSUME NEW n \in Nat
  PROVE  /\ n + 1 \in Nat \ {0} /\ n + 1 \in 1 .. n + 1
         /\ \A d \in 1 .. n + 1 : d # n + 1 => d \in 1 .. n
         /\ \A d \in 1 .. n : d \in 1 .. n + 1 /\ d # n + 1
         /\ \A d, e \in 1 .. n + 1 : d <= e /\ e # n + 1 => d # n + 1
OBVIOUS

LEMMA SegmentBelow ==
  ASSUME NEW a \in Nat, NEW c \in Nat, NEW b \in 0 .. c
  PROVE  \A i \in a + 1 .. b : i \in 1 .. c
OBVIOUS

LEMMA Successor ==
  \A a, b \in Nat :
    /\ a <= b => a <= b + 1 /\ a < b + 1
    /\ a < b => a < b + 1 /\ a # b
    /\ a = b => a <= b
OBVIOUS

(* What Front, Append and SetTop do to a sequence. *)
LEMMA FrontFacts ==
  ASSUME NEW S, NEW s \in Seq(S), s # <<>>
  PROVE  /\ Front(s) \in Seq(S)
         /\ Len(s) \in Nat \ {0} /\ Len(Front(s)) = Len(s) - 1
         /\ \A i \in 1 .. Len(s) - 1 : Front(s)[i] = s[i]
         /\ Last(s) = s[Len(s)] /\ Last(s) \in S
<1>1. Len(s) \in Nat \ {0}
  BY EmptySeq
<1>2. \A i \in 1 .. Len(s) : s[i] \in S
  BY ElementOfSeq
<1> DEFINE n == Len(s) - 1
<1>3. n \in Nat /\ \A i \in 1 .. n : s[i] \in S
  BY <1>1, <1>2
<1>4. /\ SubSeq(s, 1, n) \in Seq(S) /\ Len(SubSeq(s, 1, n)) = n
      /\ \A i \in 1 .. n : SubSeq(s, 1, n)[i] = s[i]
  <2> HIDE DEF n
  <2> QED
    BY <1>3
<1>5. Last(s) = s[Len(s)] /\ Last(s) \in S
  BY <1>1, <1>2 DEF Last
<1> QED
  BY <1>1, <1>4, <1>5 DEF Front

LEMMA SetTopFacts ==
  ASSUME drivers \in Seq(DriverRec), drivers # <<>>, NEW d \in DriverRec
  PROVE  /\ SetTop(d) \in Seq(DriverRec)
         /\ Len(SetTop(d)) = Len(drivers)
         /\ \A i \in 1 .. Len(drivers) :
              SetTop(d)[i] = IF i = Len(drivers) THEN d ELSE drivers[i]
<1>1. Len(drivers) \in 1 .. Len(drivers)
  BY EmptySeq
<1> QED
  BY <1>1, ExceptSeq DEF SetTop

LEMMA TopFacts ==
  ASSUME Types, drivers # <<>>
  PROVE  /\ top \in DriverRec /\ Len(drivers) \in Nat \ {0}
         /\ top = drivers[Len(drivers)]
<1>1. drivers \in Seq(DriverRec)
  BY DEF Types
<1> QED
  BY <1>1, FrontFacts DEF top

LEMMA Domains ==
  ASSUME Types
  PROVE  /\ Len(frames) \in Nat /\ DOMAIN frames = 1 .. Len(frames)
         /\ \A i \in 1 .. Len(frames) : frames[i] \in Frame
         /\ Len(drivers) \in Nat /\ DOMAIN drivers = 1 .. Len(drivers)
         /\ \A d \in 1 .. Len(drivers) : drivers[d] \in DriverRec
<1>1. frames \in Seq(Frame) /\ drivers \in Seq(DriverRec)
  BY DEF Types
<1> QED
  BY <1>1, LenProperties, ElementOfSeq

(* The frame that holds id 0 is no frame. *)
LEMMA FrameIds ==
  /\ \A f \in Frame : f # NoFrame /\ f.id \in Nat \ {0}
  /\ NoFrame.id = 0
BY BoundsAssumption DEF Frame, NoFrame, Ids

(* Running code has a frame; in the frame on top of the stack it is one of *)
(* the driver's segment.                                                   *)
LEMMA Running ==
  ASSUME IInv, Direct
  PROVE  /\ top.tries = <<>> /\ top.base < Len(frames) /\ frames # <<>>
         /\ \E i \in top.base + 1 .. Len(frames) : frames[i].id = top.target
<1>1. drivers # <<>> /\ top.held = NoFrame /\ signal = "none"
  BY DEF Direct
<1>2. top \in DriverRec /\ Len(drivers) \in DOMAIN drivers /\ top = drivers[Len(drivers)]
  BY <1>1, TopFacts, Domains DEF IInv
<1>3. top.tries = <<>> /\ HasTarget(Len(drivers))
  BY <1>1, <1>2 DEF IInv, Waiting, Targets
<1>4. \E i \in top.base + 1 .. Len(frames) : frames[i].id = top.target
  <2>1. top.held.id # top.target
    BY <1>1, <1>2, FrameIds DEF DriverRec, Ids
  <2> QED
    BY <1>2, <1>3, <2>1 DEF HasTarget, Top
<1>5. Len(frames) \in Nat /\ top.base \in Nat
  BY <1>2, LenProperties DEF IInv, Types, DriverRec
<1> QED
  BY <1>3, <1>4, <1>5

(* The code that runs is in a frame. *)
LEMMA CurrentFrame ==
  ASSUME IInv, Direct \/ InTry
  PROVE  current \in Frame
<1>1. CASE Direct
  BY <1>1, Running, FrontFacts DEF Direct, current, IInv, Types
<1>2. CASE InTry
  BY <1>2, TopFacts DEF InTry, current, IInv, DriverRec
<1> QED
  BY <1>1, <1>2

(* A driver whose frame and tries change. *)
With(t, h, ts) == [target |-> t.target, base |-> t.base, held |-> h, tries |-> ts]

LEMMA Updates ==
  ASSUME NEW t \in DriverRec, NEW h \in Frame \union {NoFrame},
         NEW ts \in Seq(TryContext)
  PROVE  /\ [t EXCEPT !.held = h] = With(t, h, t.tries)
         /\ [t EXCEPT !.tries = ts] = With(t, t.held, ts)
         /\ With(t, h, ts) \in DriverRec
<1>1. [t EXCEPT !.held = h] = With(t, h, t.tries)
  BY DEF DriverRec, With
<1>2. [t EXCEPT !.tries = ts] = With(t, t.held, ts)
  BY DEF DriverRec, With
<1>3. With(t, h, ts) \in DriverRec
  BY DEF DriverRec, With
<1> QED
  BY <1>1, <1>2, <1>3

LEMMA BothUpdates ==
  ASSUME NEW t \in DriverRec, NEW h \in Frame \union {NoFrame},
         NEW ts \in Seq(TryContext)
  PROVE  [t EXCEPT !.held = h, !.tries = ts] = With(t, h, ts)
<1>1. [t EXCEPT !.held = h] = With(t, h, t.tries)
  BY Updates
<1>2. [t EXCEPT !.held = h, !.tries = ts] = [[t EXCEPT !.held = h] EXCEPT !.tries = ts]
  BY DEF DriverRec
<1>3. [With(t, h, t.tries) EXCEPT !.tries = ts] = With(t, h, ts)
  BY DEF DriverRec, With
<1> QED
  BY <1>1, <1>2, <1>3, Zenon

(* What is left of the drivers when the innermost one changes. *)
TopBecomes(h, ts) ==
  /\ drivers' \in Seq(DriverRec) /\ Len(drivers') = Len(drivers)
  /\ \A d \in 1 .. Len(drivers) :
       /\ drivers'[d].target = drivers[d].target
       /\ drivers'[d].base = drivers[d].base
       /\ drivers'[d].held = IF d = Len(drivers) THEN h ELSE drivers[d].held
       /\ drivers'[d].tries = IF d = Len(drivers) THEN ts ELSE drivers[d].tries

LEMMA TopChanges ==
  ASSUME Types, drivers # <<>>, NEW h \in Frame \union {NoFrame},
         NEW ts \in Seq(TryContext), drivers' = SetTop(With(top, h, ts))
  PROVE  TopBecomes(h, ts)
<1> DEFINE w == With(top, h, ts)
<1>1. top \in DriverRec /\ top = drivers[Len(drivers)]
  BY TopFacts
<1>2. w \in DriverRec
  BY <1>1, Updates
<1>3. w.target = top.target /\ w.base = top.base /\ w.held = h /\ w.tries = ts
  BY DEF With
<1>4. drivers \in Seq(DriverRec) /\ drivers' = SetTop(w)
  BY DEF Types
<1> HIDE DEF w
<1> QED
  BY <1>1, <1>2, <1>3, <1>4, SetTopFacts DEF TopBecomes

-----------------------------------------------------------------------------
(* Stacks with the same first k frames, drivers with the same segment. *)
Same(s, t, k) == \A j \in 1 .. k : t[j] = s[j]
Kept(ds, es, d) ==
  /\ es[d].base = ds[d].base /\ es[d].target = ds[d].target
  /\ d > 1 => es[d - 1].held = ds[d - 1].held

(* A frame stays linked in a stack with the same frames below it.          *)
LEMMA LinkedSame ==
  ASSUME NEW ds, NEW es, NEW d, Kept(ds, es, d), NEW s, NEW r, NEW t \in Nat, Same(s, r, t),
         ds[d].base \in Nat, NEW i \in ds[d].base + 1 .. t + 1, NEW f, Linked(ds, s, d, i, f)
  PROVE  Linked(es, r, d, i, f)
<1>1. i = ds[d].base + 1 \/ i - 1 \in 1 .. t
  OBVIOUS
<1>2. i - 1 \in 1 .. t => r[i - 1] = s[i - 1]
  BY DEF Same
<1> QED
  BY <1>1, <1>2 DEF Linked, CalledBy, Kept

(* The segment of a driver that keeps its frames, or lets go of the one it *)
(* holds.                                                                  *)
LEMMA SegmentSame ==
  ASSUME NEW ds, NEW es, NEW d, Kept(ds, es, d), es[d].held \in {ds[d].held, NoFrame},
         NEW s, NEW r, NEW t \in Nat, Same(s, r, t),
         ds[d].base \in Nat, ds[d].base <= t, Segment(ds, s, d, t)
  PROVE  Segment(es, r, d, t)
<1>1. ASSUME NEW i \in es[d].base + 1 .. t PROVE Linked(es, r, d, i, r[i])
  <2>1. i \in ds[d].base + 1 .. t /\ i \in ds[d].base + 1 .. t + 1 /\ i \in 1 .. t
    BY DEF Kept
  <2>2. Linked(ds, s, d, i, s[i]) /\ r[i] = s[i]
    BY <2>1 DEF Segment, Same
  <2> QED
    BY <2>1, <2>2, LinkedSame
<1>2. ASSUME es[d].held # NoFrame PROVE Linked(es, r, d, t + 1, es[d].held)
  <2>1. es[d].held = ds[d].held /\ t + 1 \in ds[d].base + 1 .. t + 1
    BY <1>2
  <2>2. Linked(ds, s, d, t + 1, ds[d].held)
    BY <1>2, <2>1 DEF Segment
  <2> QED
    BY <2>1, <2>2, LinkedSame
<1> QED
  BY <1>1, <1>2 DEF Segment

(* The segments of the drivers that wait, when they and the frames below   *)
(* the innermost driver's base stay.                                       *)
LEMMA LowerSame ==
  ASSUME IInv, drivers # <<>>, NEW s, NEW r, NEW es, NEW k \in Nat, Same(s, r, k),
         NEW d \in 1 .. Len(drivers) - 1, drivers[d + 1].base \in Nat, drivers[d + 1].base <= k,
         Kept(drivers, es, d), es[d].held \in {drivers[d].held, NoFrame},
         Segment(drivers, s, d, drivers[d + 1].base)
  PROVE  Segment(es, r, d, drivers[d + 1].base)
<1> DEFINE b == drivers[d + 1].base
<1>1. Len(drivers) \in Nat \ {0} /\ DOMAIN drivers = 1 .. Len(drivers)
  BY Domains, TopFacts DEF IInv
<1>2. d \in DOMAIN drivers /\ d + 1 \in DOMAIN drivers /\ d <= d + 1
  BY <1>1
<1>3. drivers[d].base \in Nat
  BY <1>2, Domains DEF IInv, DriverRec
<1>4. drivers[d].base <= b
  BY <1>2 DEF IInv, Bases
<1>5. b \in Nat /\ b <= k /\ Segment(drivers, s, d, b)
  OBVIOUS
<1> HIDE DEF b
<1>6. Same(s, r, b)
  BY <1>5 DEF Same
<1>7. Segment(es, r, d, b)
  BY <1>3, <1>4, <1>5, <1>6, SegmentSame
<1> QED
  BY <1>7 DEF b

-----------------------------------------------------------------------------
(* The frame in hand and the stack below it: what is popped to execute an  *)
(* instruction, or held by a try.                                          *)
LowerLinks(stack) ==
  \A d \in 1 .. Len(drivers) - 1 : Segment(drivers, stack, d, drivers[d + 1].base)
HandLinks(frame, stack) ==
  /\ LowerLinks(stack)
  /\ \A i \in top.base + 1 .. Len(stack) :
       Linked(drivers, stack, Len(drivers), i, stack[i])
  /\ Linked(drivers, stack, Len(drivers), Len(stack) + 1, frame)

InHand(frame, stack) ==
  /\ frame \in Frame /\ frame.id < nextId
  /\ stack \in Seq(Frame) /\ Len(stack) <= Len(frames) /\ top.base <= Len(stack)
  /\ \A i \in 1 .. Len(stack) : stack[i] = frames[i] /\ stack[i].id # frame.id
  /\ \A d \in 1 .. Len(drivers) - 1 : drivers[d].held.id # frame.id
  /\ \/ frame.id = top.target
     \/ \E i \in top.base + 1 .. Len(stack) : stack[i].id = top.target
  /\ Links => HandLinks(frame, stack)

LEMMA PoppedInHand ==
  ASSUME IInv, Direct
  PROVE  InHand(Last(frames), Front(frames))
<1>1. /\ frames \in Seq(Frame) /\ frames # <<>> /\ top.base < Len(frames)
      /\ \E i \in top.base + 1 .. Len(frames) : frames[i].id = top.target
  BY Running DEF IInv, Types
<1>2. /\ Front(frames) \in Seq(Frame) /\ Len(frames) \in Nat \ {0}
      /\ Len(Front(frames)) = Len(frames) - 1
      /\ \A i \in 1 .. Len(frames) - 1 : Front(frames)[i] = frames[i]
      /\ Last(frames) = frames[Len(frames)] /\ Last(frames) \in Frame
  BY <1>1, FrontFacts
<1>3. /\ DOMAIN frames = 1 .. Len(frames) /\ DOMAIN drivers = 1 .. Len(drivers)
      /\ top.base \in Nat
  BY Domains, TopFacts DEF IInv, Direct, DriverRec
<1>4. /\ \A i \in 1 .. Len(frames) - 1 : frames[i].id # Last(frames).id
      /\ \A d \in 1 .. Len(drivers) - 1 : drivers[d].held.id # Last(frames).id
      /\ Last(frames).id < nextId
  BY <1>2, <1>3 DEF IInv, Once, Fresh
<1>5. \/ Last(frames).id = top.target
      \/ \E i \in top.base + 1 .. Len(frames) - 1 : frames[i].id = top.target
  BY <1>1, <1>2, <1>3
<1>6. \/ Last(frames).id = top.target
      \/ \E i \in top.base + 1 .. Len(Front(frames)) : Front(frames)[i].id = top.target
  BY <1>2, <1>3, <1>5
<1>8. Links => HandLinks(Last(frames), Front(frames))
  <2> DEFINE n == Len(drivers)
             m == Len(frames)
             stack == Front(frames)
  <2> SUFFICES ASSUME Links PROVE HandLinks(Last(frames), stack)
    OBVIOUS
  <2>1. /\ n \in Nat \ {0} /\ n \in 1 .. n /\ top = drivers[n] /\ drivers # <<>>
        /\ m \in Nat \ {0} /\ m - 1 \in Nat /\ Len(stack) = m - 1 /\ m = (m - 1) + 1
        /\ Last(frames) = frames[m] /\ drivers[n].base \in Nat /\ drivers[n].base < m
    BY <1>1, <1>2, <1>3, TopFacts DEF IInv, Direct
  <2>2. Same(frames, stack, m - 1)
    BY <1>2 DEF Same
  <2>3. \A i \in drivers[n].base + 1 .. m : Linked(drivers, frames, n, i, frames[i])
    BY <2>1 DEF Links, Segment, Top
  <2>4. Kept(drivers, drivers, n)
    BY DEF Kept
  <2> HIDE DEF n, m, stack
  <2>5. \A i \in drivers[n].base + 1 .. m : Linked(drivers, stack, n, i, frames[i])
    <3> SUFFICES ASSUME NEW i \in drivers[n].base + 1 .. m
                 PROVE  Linked(drivers, stack, n, i, frames[i])
      OBVIOUS
    <3>1. i \in drivers[n].base + 1 .. (m - 1) + 1
      BY <2>1
    <3> QED
      BY <2>1, <2>2, <2>3, <2>4, <3>1, LinkedSame
  <2>6. \A i \in drivers[n].base + 1 .. m - 1 :
          i \in drivers[n].base + 1 .. m /\ stack[i] = frames[i]
    BY <2>1, <2>2 DEF Same
  <2>7. m \in drivers[n].base + 1 .. m
    BY <2>1
  <2>8. ASSUME NEW d \in 1 .. n - 1
        PROVE  Segment(drivers, stack, d, drivers[d + 1].base)
    <3>1. d \in 1 .. n /\ d # n /\ d + 1 \in 1 .. n
      BY <2>1, BelowLast
    <3>2. Segment(drivers, frames, d, drivers[d + 1].base)
      BY <3>1 DEF Links, Top, n
    <3>3. drivers[d + 1].base \in Nat
      BY <3>1, Domains DEF IInv, DriverRec, n
    <3>4. drivers[d + 1].base <= drivers[n].base
      <4>1. d + 1 <= n
        BY <2>1, <3>1
      <4> QED
        BY <1>3, <2>1, <3>1, <4>1 DEF IInv, Bases, n
    <3>5. drivers[d + 1].base <= m - 1
      BY <2>1, <3>3, <3>4
    <3>6. Kept(drivers, drivers, d)
      BY DEF Kept
    <3> QED
      BY <2>1, <2>2, <3>2, <3>3, <3>5, <3>6, LowerSame DEF n
  <2>9. LowerLinks(stack)
    BY <2>8 DEF LowerLinks, n
  <2>10. \A i \in drivers[n].base + 1 .. m - 1 : Linked(drivers, stack, n, i, stack[i])
    BY <2>5, <2>6
  <2>11. Linked(drivers, stack, n, (m - 1) + 1, Last(frames))
    BY <2>1, <2>5, <2>7
  <2> QED
    BY <2>1, <2>9, <2>10, <2>11 DEF HandLinks, n
<1> QED
  BY <1>1, <1>2, <1>3, <1>4, <1>6, <1>8 DEF InHand

LEMMA HeldInHand ==
  ASSUME IInv, drivers # <<>>, top.held # NoFrame
  PROVE  InHand(top.held, frames)
<1>1. /\ frames \in Seq(Frame) /\ Len(frames) \in Nat
      /\ DOMAIN frames = 1 .. Len(frames) /\ DOMAIN drivers = 1 .. Len(drivers)
      /\ Len(drivers) \in Nat \ {0} /\ top = drivers[Len(drivers)] /\ top \in DriverRec
  BY Domains, TopFacts DEF IInv, Types
<1>2. top.held \in Frame /\ top.held.id # 0 /\ top.base <= Len(frames)
  BY <1>1, FrameIds DEF IInv, Bases, DriverRec
<1>3. /\ \A i \in 1 .. Len(frames) : frames[i].id # top.held.id
      /\ \A d \in 1 .. Len(drivers) - 1 : drivers[d].held.id # top.held.id
      /\ top.held.id < nextId
  BY <1>1, <1>2 DEF IInv, Once, Fresh
<1>4. \/ top.held.id = top.target
      \/ \E i \in top.base + 1 .. Len(frames) : frames[i].id = top.target
  BY <1>1 DEF IInv, Targets, HasTarget, Top
<1>6. Links => HandLinks(top.held, frames)
  <2> DEFINE n == Len(drivers)
  <2> SUFFICES ASSUME Links PROVE HandLinks(top.held, frames)
    OBVIOUS
  <2>1. n \in Nat \ {0} /\ n \in 1 .. n /\ top = drivers[n]
    BY <1>1, BelowLast
  <2>2. Segment(drivers, frames, n, Len(frames))
    BY <2>1 DEF Links, Top
  <2>3. ASSUME NEW d \in 1 .. n - 1
        PROVE  Segment(drivers, frames, d, drivers[d + 1].base)
    <3>1. d \in 1 .. n /\ d # n
      BY <2>1, BelowLast
    <3> QED
      BY <3>1 DEF Links, Top
  <2> QED
    BY <2>1, <2>2, <2>3 DEF HandLinks, LowerLinks, Segment
<1> QED
  BY <1>1, <1>2, <1>3, <1>4, <1>6 DEF InHand

(* What the invariant says of the frame in hand, the stack below it and    *)
(* the drivers that wait: sizes, ids, and bases.                           *)
HandSizes(frame, stack) ==
  /\ Len(drivers) \in Nat \ {0} /\ DOMAIN drivers = 1 .. Len(drivers)
  /\ top = drivers[Len(drivers)] /\ top \in DriverRec /\ top.base \in Nat
  /\ Len(stack) \in Nat /\ DOMAIN stack = 1 .. Len(stack)
  /\ nextId \in Nat /\ frame.id \in Nat \ {0} /\ frame.id < nextId /\ frame # NoFrame

HandIds(frame, stack) ==
  /\ \A i \in 1 .. Len(stack) :
       /\ stack[i] = frames[i] /\ stack[i].id \in Nat \ {0}
       /\ stack[i].id < nextId /\ stack[i].id # frame.id
  /\ \A i, j \in 1 .. Len(stack) : stack[i].id = stack[j].id => i = j
  /\ \A d \in 1 .. Len(drivers) - 1 :
       /\ drivers[d].held \in Frame /\ drivers[d].held # NoFrame
       /\ drivers[d].held.id \in Nat \ {0} /\ drivers[d].held.id < nextId
       /\ drivers[d].held.id # frame.id
  /\ \A d, e \in 1 .. Len(drivers) - 1 : drivers[d].held.id = drivers[e].held.id => d = e
  /\ \A i \in 1 .. Len(stack), d \in 1 .. Len(drivers) - 1 :
       stack[i].id # drivers[d].held.id

HandBases(stack) ==
  /\ \A d \in 1 .. Len(drivers) :
       /\ drivers[d].base \in Nat /\ drivers[d].base <= top.base
       /\ drivers[d].base <= Len(stack)
  /\ \A d, e \in 1 .. Len(drivers) : d <= e => drivers[d].base <= drivers[e].base
  /\ \A d \in 1 .. Len(drivers) - 1 : HasTarget(d)

AtHand(frame, stack) ==
  HandSizes(frame, stack) /\ HandIds(frame, stack) /\ HandBases(stack)

LEMMA HandFacts ==
  ASSUME IInv, drivers # <<>>, NEW frame, NEW stack, InHand(frame, stack)
  PROVE  AtHand(frame, stack)
<1> DEFINE n == Len(drivers)
<1>1. /\ Len(frames) \in Nat /\ DOMAIN frames = 1 .. Len(frames)
      /\ Len(stack) \in Nat /\ DOMAIN stack = 1 .. Len(stack)
      /\ Len(stack) <= Len(frames) /\ nextId \in Nat
  BY Domains, LenProperties, BoundsAssumption DEF IInv, InHand, Types
<1>2. /\ n \in Nat \ {0} /\ DOMAIN drivers = 1 .. n
      /\ top = drivers[n] /\ top \in DriverRec
      /\ \A d \in 1 .. n : drivers[d] \in DriverRec
  BY Domains, TopFacts DEF IInv
<1>3. top.base \in Nat /\ top.base <= Len(stack)
  BY <1>2 DEF InHand, DriverRec
<1>4. frame \in Frame /\ frame # NoFrame /\ frame.id \in Nat \ {0} /\ frame.id < nextId
  BY FrameIds DEF InHand
<1>5. \A i \in 1 .. Len(stack) :
        /\ stack[i] = frames[i] /\ stack[i] \in Frame /\ stack[i].id \in Nat \ {0}
        /\ stack[i].id < nextId /\ stack[i].id # frame.id
  <2>1. \A i \in 1 .. Len(stack) : stack[i] = frames[i] /\ stack[i].id # frame.id
    BY DEF InHand
  <2>2. \A i \in 1 .. Len(frames) : frames[i] \in Frame /\ frames[i].id < nextId
    BY <1>1, Domains DEF IInv, Fresh
  <2>3. \A i \in 1 .. Len(stack) : i \in 1 .. Len(frames)
    BY <1>1
  <2> QED
    BY <2>1, <2>2, <2>3, FrameIds
<1>6. \A i, j \in 1 .. Len(stack) : stack[i].id = stack[j].id => i = j
  BY <1>1, <1>5 DEF IInv, Once
<1>7. \A d \in 1 .. n - 1 : drivers[d].held \in Frame /\ drivers[d].held # NoFrame
  <2>1. \A d \in 1 .. n - 1 : drivers[d].held # NoFrame
    BY <1>2 DEF IInv, Waiting
  <2> QED
    BY <1>2, <2>1 DEF DriverRec
<1>8. \A d \in 1 .. n - 1 :
        /\ HasTarget(d) /\ drivers[d].held.id \in Nat \ {0}
        /\ drivers[d].held.id < nextId /\ drivers[d].held.id # frame.id
  <2>1. \A d \in 1 .. n - 1 : HasTarget(d)
    BY <1>2, <1>7 DEF IInv, Targets
  <2>2. \A d \in 1 .. n - 1 : drivers[d].held.id < nextId
    BY <1>2 DEF IInv, Fresh
  <2> QED
    BY <1>7, <2>1, <2>2, FrameIds DEF InHand
<1>9. \A d, e \in 1 .. n - 1 : drivers[d].held.id = drivers[e].held.id => d = e
  BY <1>2, <1>8 DEF IInv, Once
<1>10. ASSUME NEW i \in 1 .. Len(stack), NEW d \in 1 .. n - 1
       PROVE  stack[i].id # drivers[d].held.id
  <2>1. i \in DOMAIN frames /\ d \in DOMAIN drivers /\ stack[i] = frames[i]
    BY <1>1, <1>2, <1>5
  <2> QED
    BY <2>1 DEF IInv, Once
<1>11. \A d, e \in 1 .. n : d <= e => drivers[d].base <= drivers[e].base
  BY <1>2 DEF IInv, Bases
<1>12. \A d \in 1 .. n :
         /\ drivers[d].base \in Nat /\ drivers[d].base <= top.base
         /\ drivers[d].base <= Len(stack)
  <2>1. \A d \in 1 .. n : drivers[d].base \in Nat
    BY <1>2 DEF DriverRec
  <2>2. \A d \in 1 .. n : drivers[d].base <= top.base
    BY <1>2, <1>11
  <2> QED
    BY <1>1, <1>3, <2>1, <2>2
<1> QED
  BY <1>1, <1>2, <1>3, <1>4, <1>5, <1>6, <1>7, <1>8, <1>9, <1>10, <1>11, <1>12
     DEF AtHand, HandSizes, HandIds, HandBases

(* Frames below the innermost driver's base keep the targets of the        *)
(* drivers that wait.                                                      *)
LEMMA TargetsBelow ==
  ASSUME IInv, drivers # <<>>, NEW frame, NEW stack, InHand(frame, stack),
         NEW d \in 1 .. Len(drivers) - 1
  PROVE  /\ drivers[d + 1].base \in 0 .. Len(stack)
         /\ \/ drivers[d].held.id = drivers[d].target
            \/ \E i \in drivers[d].base + 1 .. drivers[d + 1].base :
                  stack[i].id = drivers[d].target
<1>1. AtHand(frame, stack)
  BY HandFacts
<1>2. d \in 1 .. Len(drivers) /\ d + 1 \in 1 .. Len(drivers) /\ d # Len(drivers)
  <2>1. Len(drivers) \in Nat \ {0}
    BY <1>1 DEF AtHand, HandSizes, HandIds, HandBases
  <2> QED
    BY <2>1, BelowLast
<1>3. drivers[d].base \in Nat /\ drivers[d + 1].base \in 0 .. Len(stack)
  <2>1. /\ Len(stack) \in Nat
        /\ \A e \in 1 .. Len(drivers) : drivers[e].base \in Nat /\ drivers[e].base <= Len(stack)
    BY <1>1 DEF AtHand, HandSizes, HandIds, HandBases
  <2> QED
    BY <1>2, <2>1
<1>4. \/ drivers[d].held.id = drivers[d].target
      \/ \E i \in drivers[d].base + 1 .. drivers[d + 1].base : frames[i].id = drivers[d].target
  BY <1>1, <1>2 DEF HasTarget, Top, AtHand, HandBases
<1>5. \A i \in drivers[d].base + 1 .. drivers[d + 1].base : stack[i] = frames[i]
  BY <1>1, <1>3 DEF InHand, AtHand, HandSizes, HandBases
<1> QED
  BY <1>3, <1>4, <1>5

(* The conclusion of TargetsBelow for every driver that waits. *)
OwnBelow(stack) ==
  \A d \in 1 .. Len(drivers) - 1 :
    /\ drivers[d + 1].base \in 0 .. Len(stack)
    /\ \/ drivers[d].held.id = drivers[d].target
       \/ \E i \in drivers[d].base + 1 .. drivers[d + 1].base :
             stack[i].id = drivers[d].target

LEMMA AllTargetsBelow ==
  ASSUME IInv, drivers # <<>>, NEW frame, NEW stack, InHand(frame, stack)
  PROVE  OwnBelow(stack)
BY TargetsBelow DEF OwnBelow

-----------------------------------------------------------------------------
(* The drivers that are left when the innermost one returns to an          *)
(* instruction of driver p.                                                *)
ReturnsTo(p) ==
  /\ drivers' \in Seq(DriverRec) /\ Len(drivers') = p
  /\ \A d \in 1 .. p :
       /\ drivers'[d].target = drivers[d].target
       /\ drivers'[d].base = drivers[d].base
       /\ drivers'[d].held = IF d = p THEN NoFrame ELSE drivers[d].held
       /\ d = p => drivers'[d].tries = <<>>

-----------------------------------------------------------------------------
(* What the steps do to the callers. *)
LEMMA LowerKept ==
  ASSUME IInv, drivers # <<>>, Links, NEW frame, NEW stack, InHand(frame, stack),
         Same(stack, frames', Len(stack)),
         NEW d \in 1 .. Len(drivers) - 1, Kept(drivers, drivers', d),
         drivers'[d].held \in {drivers[d].held, NoFrame}
  PROVE  Segment(drivers', frames', d, drivers[d + 1].base)
<1>1. AtHand(frame, stack) /\ OwnBelow(stack)
  BY HandFacts, AllTargetsBelow
<1>2. Len(stack) \in Nat /\ drivers[d + 1].base \in 0 .. Len(stack)
  BY <1>1 DEF AtHand, HandSizes, OwnBelow
<1>3. drivers[d + 1].base \in Nat /\ drivers[d + 1].base <= Len(stack)
  BY <1>2
<1>4. HandLinks(frame, stack)
  BY DEF InHand
<1>5. Segment(drivers, stack, d, drivers[d + 1].base)
  BY <1>4 DEF HandLinks, LowerLinks
<1> QED
  BY <1>2, <1>3, <1>5, LowerSame

LEMMA HandKept ==
  ASSUME IInv, drivers # <<>>, Links, NEW frame, NEW stack, InHand(frame, stack),
         Same(stack, frames', Len(stack)), Kept(drivers, drivers', Len(drivers))
  PROVE  /\ \A i \in top.base + 1 .. Len(stack) :
              Linked(drivers', frames', Len(drivers), i, frames'[i])
         /\ Linked(drivers', frames', Len(drivers), Len(stack) + 1, frame)
<1> DEFINE n == Len(drivers)
           k == Len(stack)
<1>1. AtHand(frame, stack) /\ HandLinks(frame, stack)
  BY HandFacts DEF InHand
<1>2. /\ top = drivers[n] /\ drivers[n].base \in Nat /\ k \in Nat
      /\ drivers[n].base <= k
  BY <1>1 DEF InHand, AtHand, HandSizes
<1>3. \A i \in drivers[n].base + 1 .. k : Linked(drivers, stack, n, i, stack[i])
  BY <1>1, <1>2 DEF HandLinks
<1>4. Linked(drivers, stack, n, k + 1, frame)
  BY <1>1 DEF HandLinks
<1>5. Same(stack, frames', k) /\ Kept(drivers, drivers', n)
  OBVIOUS
<1> HIDE DEF n, k
<1>6. ASSUME NEW i \in drivers[n].base + 1 .. k
      PROVE  Linked(drivers', frames', n, i, frames'[i])
  <2>1. i \in drivers[n].base + 1 .. k + 1 /\ i \in 1 .. k
    BY <1>2
  <2>2. frames'[i] = stack[i]
    BY <1>5, <2>1 DEF Same
  <2>3. Linked(drivers, stack, n, i, frames'[i])
    BY <1>3, <2>2
  <2> QED
    BY <1>2, <1>5, <2>1, <2>3, LinkedSame
<1>7. Linked(drivers', frames', n, k + 1, frame)
  <2>1. k + 1 \in drivers[n].base + 1 .. k + 1
    BY <1>2
  <2> QED
    BY <1>2, <1>4, <1>5, <2>1, LinkedSame
<1> QED
  BY <1>2, <1>6, <1>7 DEF n, k

(* At the base of its segment a driver has its own frame, and no other.    *)
LEMMA TargetAtBase ==
  ASSUME IInv, drivers # <<>>, Links, NEW frame, NEW stack, InHand(frame, stack),
         frame.id = top.target
  PROVE  Len(stack) = top.base
<1>1. AtHand(frame, stack) /\ HandLinks(frame, stack)
  BY HandFacts DEF InHand
<1>2. /\ top.base \in Nat /\ Len(stack) \in Nat /\ top.base <= Len(stack)
      /\ top = drivers[Len(drivers)]
  BY <1>1 DEF InHand, AtHand, HandSizes
<1>3. ASSUME top.base < Len(stack) PROVE FALSE
  <2> DEFINE i == top.base + 1
  <2>1. i \in top.base + 1 .. Len(stack) /\ i \in 1 .. Len(stack)
    BY <1>2, <1>3
  <2>2. Linked(drivers, stack, Len(drivers), i, stack[i])
    BY <1>1, <2>1 DEF HandLinks
  <2>3. stack[i].id = top.target
    BY <1>2, <2>2 DEF Linked
  <2>4. stack[i].id # frame.id
    BY <2>1 DEF InHand
  <2> QED
    BY <2>3, <2>4
<1> QED
  BY <1>2, <1>3

LEMMA TopLinks ==
  ASSUME IInv, drivers # <<>>, NEW frame, NEW stack, InHand(frame, stack),
         NEW h, NEW ts, TopBecomes(h, ts), leaked' = leaked,
         \/ frames' = stack /\ h \in {frame, NoFrame}
         \/ frames' = Append(stack, frame) /\ h = NoFrame
  PROVE  KeepsChain
<1> SUFFICES ASSUME Links PROVE Links'
  BY DEF KeepsChain, Chain
<1> DEFINE n == Len(drivers)
           k == Len(stack)
<1>1. AtHand(frame, stack)
  BY HandFacts
<1>a. stack \in Seq(Frame) /\ frame \in Frame
  BY DEF InHand
<1>2. /\ n \in Nat \ {0} /\ Len(drivers') = n /\ k \in Nat /\ top = drivers[n]
  BY <1>1 DEF AtHand, HandSizes, TopBecomes
<1>3. \A d \in 1 .. n :
        /\ drivers'[d].target = drivers[d].target
        /\ drivers'[d].base = drivers[d].base
        /\ drivers'[d].held = IF d = n THEN h ELSE drivers[d].held
  BY DEF TopBecomes
<1>4. /\ \A i \in 1 .. k : frames'[i] = stack[i]
      /\ \/ Len(frames') = k /\ h \in {frame, NoFrame}
         \/ Len(frames') = k + 1 /\ frames'[k + 1] = frame /\ h = NoFrame
  BY <1>a, AppendProperties
<1>5. Same(stack, frames', k)
  BY <1>4 DEF Same
<1>6. ASSUME NEW d \in 1 .. n PROVE Kept(drivers, drivers', d)
  <2>1. d > 1 => d - 1 \in 1 .. n /\ d - 1 # n
    BY <1>2
  <2> QED
    BY <1>3, <2>1 DEF Kept
<1>7. ASSUME NEW d \in 1 .. n - 1
      PROVE  Segment(drivers', frames', d, drivers[d + 1].base)
  <2>1. d \in 1 .. n /\ d # n
    BY <1>2, BelowLast
  <2>2. Kept(drivers, drivers', d) /\ drivers'[d].held \in {drivers[d].held, NoFrame}
    BY <1>3, <1>6, <2>1
  <2> QED
    BY <1>5, <2>2, LowerKept
<1>8. /\ \A i \in top.base + 1 .. k : Linked(drivers', frames', n, i, frames'[i])
      /\ Linked(drivers', frames', n, k + 1, frame)
  <2>1. n \in 1 .. n
    BY <1>2, BelowLast
  <2>2. Kept(drivers, drivers', n)
    BY <1>6, <2>1
  <2> QED
    BY <1>5, <2>2, HandKept
<1> HIDE DEF k
<1>9. ASSUME NEW d \in 1 .. n PROVE Segment(drivers', frames', d, Top(d)')
  <2>1. CASE d = n
    <3>1. Top(d)' = Len(frames')
      BY <1>2, <2>1 DEF Top
    <3>2. drivers'[d].base = top.base /\ drivers'[d].held = h
      BY <1>2, <1>3, <2>1
    <3>3. NoFrame = NoFrame /\ \A i \in top.base + 1 .. k + 1 : i # k + 1 => i \in top.base + 1 .. k
      BY <1>2
    <3>4. CASE Len(frames') = k /\ h \in {frame, NoFrame}
      BY <1>8, <2>1, <3>1, <3>2, <3>4 DEF Segment
    <3>5. CASE Len(frames') = k + 1 /\ frames'[k + 1] = frame /\ h = NoFrame
      <4>1. \A i \in top.base + 1 .. k + 1 : Linked(drivers', frames', n, i, frames'[i])
        BY <1>8, <3>3, <3>5
      <4> QED
        BY <2>1, <3>1, <3>2, <3>5, <4>1 DEF Segment
    <3> QED
      BY <1>4, <3>4, <3>5
  <2>2. CASE d # n
    <3>1. d \in 1 .. n - 1 /\ d + 1 \in 1 .. n
      BY <1>2, <2>2, BelowLast
    <3>2. Top(d)' = drivers[d + 1].base
      BY <1>2, <1>3, <2>2, <3>1 DEF Top
    <3> QED
      BY <1>7, <3>1, <3>2
  <2> QED
    BY <2>1, <2>2
<1> QED
  BY <1>2, <1>9 DEF Links

(* The drivers below a driver that is gone, when nothing of its segment is *)
(* left.                                                                   *)
LEMMA LeaveLinks ==
  ASSUME IInv, drivers # <<>>, drivers' = Front(drivers),
         LowerLinks(frames'), Len(frames') = top.base
  PROVE  Links'
<1> DEFINE n == Len(drivers)
<1>1. /\ n \in Nat \ {0} /\ top = drivers[n] /\ drivers \in Seq(DriverRec)
  BY TopFacts DEF IInv, Types
<1>2. Len(drivers') = n - 1 /\ \A d \in 1 .. n - 1 : drivers'[d] = drivers[d]
  BY FrontFacts DEF IInv, Types
<1>3. ASSUME NEW d \in 1 .. n - 1 PROVE Segment(drivers', frames', d, Top(d)')
  <2>1. /\ d \in 1 .. n /\ d + 1 \in 1 .. n /\ d > 1 => d - 1 \in 1 .. n - 1
        /\ d # n - 1 => d + 1 \in 1 .. n - 1
    BY <1>1, BelowLast
  <2>2. Top(d)' = drivers[d + 1].base
    <3>1. CASE d = n - 1
      BY <1>1, <1>2, <3>1 DEF Top
    <3>2. CASE d # n - 1
      BY <1>2, <2>1, <3>2 DEF Top
    <3> QED
      BY <3>1, <3>2
  <2>3. Segment(drivers, frames', d, drivers[d + 1].base)
    BY DEF LowerLinks
  <2>4. /\ drivers'[d] = drivers[d]
        /\ d > 1 => drivers'[d - 1] = drivers[d - 1]
    BY <1>2, <2>1
  <2> QED
    BY <2>2, <2>3, <2>4 DEF Segment, Linked, CalledBy
<1> QED
  BY <1>2, <1>3 DEF Links

LEMMA NestLinks ==
  ASSUME IInv, drivers # <<>>, NEW frame, NEW stack, InHand(frame, stack),
         leaked' = leaked, nextId <= MaxFrames,
         NEW f \in Frame, f.id = nextId, ~f.direct, CalledBy(f, frame),
         frames' = Append(stack, f),
         NEW w \in DriverRec, w.target = top.target, w.base = top.base, w.held = frame,
         drivers' = Append(SetTop(w), NewDriver(Len(stack)))
  PROVE  KeepsChain
<1> SUFFICES ASSUME Links PROVE Links'
  BY DEF KeepsChain, Chain
<1> DEFINE n == Len(drivers)
           k == Len(stack)
           new == NewDriver(k)
<1>1. AtHand(frame, stack)
  BY HandFacts
<1>2. stack \in Seq(Frame)
  BY DEF InHand
<1>3. /\ n \in Nat \ {0} /\ drivers \in Seq(DriverRec)
      /\ k \in Nat /\ top = drivers[n] /\ nextId \in Ids /\ top.base \in Nat
  BY <1>1, BoundsAssumption DEF AtHand, HandSizes, IInv, Types, Ids
<1>4. /\ new \in DriverRec /\ new.target = nextId /\ new.base = k /\ new.held = NoFrame
  BY <1>3, EmptySeq DEF NewDriver, DriverRec
<1> HIDE DEF new
<1>5. /\ Len(drivers') = n + 1
      /\ \A d \in 1 .. n : drivers'[d] = IF d = n THEN w ELSE drivers[d]
      /\ drivers'[n + 1] = new
  <2>1. /\ SetTop(w) \in Seq(DriverRec) /\ Len(SetTop(w)) = n
        /\ \A d \in 1 .. n : SetTop(w)[d] = IF d = n THEN w ELSE drivers[d]
    BY <1>3, SetTopFacts
  <2>2. drivers' = Append(SetTop(w), new)
    BY DEF new
  <2> QED
    BY <1>4, <2>1, <2>2, AppendProperties
<1>6. /\ Len(frames') = k + 1 /\ frames'[k + 1] = f
      /\ \A i \in 1 .. k : frames'[i] = stack[i]
  BY <1>2, AppendProperties
<1>7. Same(stack, frames', k)
  BY <1>6 DEF Same
<1>8. n \in 1 .. n /\ n # n + 1 /\ drivers'[n] = w
  BY <1>3, <1>5
<1>9. ASSUME NEW d \in 1 .. n PROVE Kept(drivers, drivers', d)
  <2>1. d > 1 => d - 1 \in 1 .. n /\ d - 1 # n
    BY <1>3
  <2> QED
    BY <1>3, <1>5, <2>1 DEF Kept
<1>10. ASSUME NEW d \in 1 .. n - 1
       PROVE  Segment(drivers', frames', d, drivers[d + 1].base)
  <2>1. d \in 1 .. n /\ d # n
    BY <1>3, BelowLast
  <2>2. Kept(drivers, drivers', d) /\ drivers'[d].held \in {drivers[d].held, NoFrame}
    BY <1>5, <1>9, <2>1
  <2> QED
    BY <1>7, <2>2, LowerKept
<1>11. /\ \A i \in top.base + 1 .. k : Linked(drivers', frames', n, i, frames'[i])
       /\ Linked(drivers', frames', n, k + 1, frame)
  <2>1. Kept(drivers, drivers', n)
    BY <1>8, <1>9
  <2> QED
    BY <1>7, <2>1, HandKept
<1>12. /\ \A d \in 1 .. n + 1 : d # n + 1 => d \in 1 .. n
       /\ \A d \in 1 .. n : d # n => d \in 1 .. n - 1 /\ d + 1 \in 1 .. n
  BY <1>3, OneMore, BelowLast
<1> HIDE DEF n, k
<1>13. Segment(drivers', frames', n + 1, k + 1)
  <2>1. /\ drivers'[n + 1].base = k /\ drivers'[n + 1].held = NoFrame
        /\ drivers'[n + 1].target = nextId /\ (n + 1) - 1 = n
        /\ \A i \in k + 1 .. k + 1 : i = k + 1
    BY <1>3, <1>4, <1>5
  <2>2. drivers'[(n + 1) - 1].held = frame
    BY <1>8, <2>1, Zenon
  <2>3. n + 1 > 1
    BY <1>3
  <2>4. Linked(drivers', frames', n + 1, k + 1, f)
    BY <1>3, <2>1, <2>2, <2>3 DEF Linked, CalledBy
  <2> QED
    BY <1>6, <2>1, <2>4 DEF Segment
<1>14. ASSUME NEW d \in 1 .. n + 1 PROVE Segment(drivers', frames', d, Top(d)')
  <2>1. CASE d = n + 1
    BY <1>5, <1>6, <1>13, <2>1 DEF Top
  <2>2. CASE d = n
    <3>1. drivers'[d + 1].base = k /\ d # n + 1
      BY <1>4, <1>5, <1>8, <2>2
    <3>2. Top(d)' = k
      BY <1>5, <3>1 DEF Top
    <3> QED
      BY <1>8, <1>11, <2>2, <3>2 DEF Segment
  <2>3. CASE d # n /\ d # n + 1
    <3>1. d \in 1 .. n - 1 /\ d + 1 \in 1 .. n
      BY <1>12, <2>3
    <3>2. drivers'[d + 1].base = drivers[d + 1].base
      BY <1>3, <1>5, <3>1
    <3>3. Top(d)' = drivers[d + 1].base
      BY <1>5, <2>3, <3>2 DEF Top
    <3> QED
      BY <1>10, <3>1, <3>3
  <2> QED
    BY <2>1, <2>2, <2>3
<1> QED
  BY <1>5, <1>14 DEF Links

LEMMA ReturnLinks ==
  ASSUME IInv, drivers # <<>>, NEW frame, NEW stack, InHand(frame, stack),
         frame.id = top.target, leaked' = leaked,
         NEW p \in Nat \ {0}, Len(drivers) = p + 1, ReturnsTo(p),
         frames' = Append(stack, drivers[p].held)
  PROVE  KeepsChain
<1> SUFFICES ASSUME Links PROVE Links'
  BY DEF KeepsChain, Chain
<1> DEFINE k == Len(stack)
<1>1. /\ AtHand(frame, stack) /\ k = top.base
      /\ p \in 1 .. p /\ Len(drivers) - 1 = p
  BY HandFacts, TargetAtBase, BelowLast
<1>2. stack \in Seq(Frame)
  BY DEF InHand
<1>3. /\ k \in Nat /\ drivers[p].held \in Frame /\ drivers[p + 1].base = k
      /\ drivers[p].held # NoFrame /\ drivers[p].base \in Nat /\ drivers[p].base <= k
      /\ p \in 1 .. Len(drivers)
  BY <1>1 DEF AtHand, HandSizes, HandIds, HandBases
<1>4. /\ Len(drivers') = p
      /\ \A d \in 1 .. p :
           /\ drivers'[d].target = drivers[d].target
           /\ drivers'[d].base = drivers[d].base
           /\ drivers'[d].held = IF d = p THEN NoFrame ELSE drivers[d].held
  BY DEF ReturnsTo
<1>5. /\ Len(frames') = k + 1 /\ frames'[k + 1] = drivers[p].held
      /\ \A i \in 1 .. k : frames'[i] = stack[i]
  BY <1>2, <1>3, AppendProperties
<1>6. Same(stack, frames', k)
  BY <1>5 DEF Same
<1>7. ASSUME NEW d \in 1 .. p PROVE Kept(drivers, drivers', d)
  <2>1. d > 1 => d - 1 \in 1 .. p /\ d - 1 # p
    OBVIOUS
  <2> QED
    BY <1>4, <2>1 DEF Kept
<1>8. ASSUME NEW d \in 1 .. p PROVE Segment(drivers', frames', d, drivers[d + 1].base)
  <2>1. drivers'[d].held \in {drivers[d].held, NoFrame}
    BY <1>4
  <2> QED
    BY <1>1, <1>6, <1>7, <2>1, LowerKept
<1>9. Linked(drivers', frames', p, k + 1, frames'[k + 1])
  <2>1. HandLinks(frame, stack)
    BY DEF InHand
  <2>2. Linked(drivers, stack, p, k + 1, drivers[p].held)
    BY <1>1, <1>3, <2>1 DEF HandLinks, LowerLinks, Segment
  <2>3. k + 1 \in drivers[p].base + 1 .. k + 1 /\ Kept(drivers, drivers', p)
    BY <1>1, <1>3, <1>7
  <2> HIDE DEF k
  <2> QED
    BY <1>3, <1>5, <1>6, <2>2, <2>3, LinkedSame
<1> HIDE DEF k
<1>10. ASSUME NEW d \in 1 .. p PROVE Segment(drivers', frames', d, Top(d)')
  <2>1. CASE d = p
    <3>1. /\ Top(d)' = k + 1 /\ drivers'[d].held = NoFrame
          /\ drivers'[d].base = drivers[p].base
      BY <1>4, <1>5, <2>1 DEF Top
    <3>2. Segment(drivers', frames', p, k)
      BY <1>1, <1>3, <1>8
    <3>3. \A i \in drivers[p].base + 1 .. k : Linked(drivers', frames', p, i, frames'[i])
      BY <2>1, <3>1, <3>2 DEF Segment
    <3>4. \A i \in drivers[p].base + 1 .. k + 1 : i # k + 1 => i \in drivers[p].base + 1 .. k
      BY <1>3
    <3>5. \A i \in drivers[p].base + 1 .. k + 1 : Linked(drivers', frames', p, i, frames'[i])
      BY <1>9, <3>3, <3>4
    <3> QED
      BY <2>1, <3>1, <3>5 DEF Segment
  <2>2. CASE d # p
    <3>1. d + 1 \in 1 .. p
      BY <2>2
    <3>2. Top(d)' = drivers[d + 1].base
      BY <1>4, <2>2, <3>1 DEF Top
    <3> QED
      BY <1>8, <3>2
  <2> QED
    BY <2>1, <2>2
<1> QED
  BY <1>4, <1>10 DEF Links

LEMMA DirectCallLinks ==
  ASSUME IInv, DirectCall
  PROVE  KeepsChain
<1> SUFFICES ASSUME Links PROVE Links'
  BY DEF KeepsChain, Chain, DirectCall
<1> DEFINE f == NewFrame(current.id, TRUE, Handles)
           n == Len(drivers)
           k == Len(frames)
<1>1. /\ Direct /\ drivers # <<>> /\ drivers' = drivers /\ frames' = Append(frames, f)
      /\ frames \in Seq(Frame) /\ top.held = NoFrame /\ current = Last(frames)
  BY DEF DirectCall, Direct, IInv, Types, current
<1>2. /\ n \in Nat \ {0} /\ n \in 1 .. n /\ top = drivers[n] /\ top.base \in Nat
      /\ frames # <<>> /\ top.base < Len(frames)
  BY <1>1, TopFacts, Running DEF IInv, DriverRec
<1>a. k \in Nat \ {0} /\ current = frames[k]
  BY <1>1, <1>2, FrontFacts
<1>3. k \in Nat \ {0} /\ current = frames[k] /\ top.base < k /\ k # top.base
  BY <1>a, <1>2
<1>4. f \in Frame /\ CalledBy(f, current)
  <2>1. current \in Frame
    BY <1>1, CurrentFrame
  <2> QED
    BY <1>1, <2>1, BoundsAssumption
       DEF IInv, Types, NewFrame, Handles, Frame, Ids, DirectCall, CalledBy
<1> HIDE DEF f
<1>5. /\ Len(frames') = k + 1 /\ frames'[k + 1] = f
      /\ \A i \in 1 .. k : frames'[i] = frames[i]
  BY <1>1, <1>4, AppendProperties
<1>6. Same(frames, frames', k)
  BY <1>5 DEF Same
<1>7. \A d \in 1 .. n : Kept(drivers, drivers', d)
  BY <1>1 DEF Kept
<1>8. ASSUME NEW d \in 1 .. n PROVE drivers[d].base \in Nat /\ Segment(drivers', frames', d, Top(d))
  <2>1. Top(d) \in Nat /\ drivers[d].base \in Nat /\ drivers[d].base <= Top(d) /\ Top(d) <= k
    <3>1. CASE d = n
      BY <1>2, <1>3, <3>1 DEF Top
    <3>2. CASE d # n
      <4>1. /\ d \in 1 .. n /\ d + 1 \in 1 .. n /\ d <= d + 1
            /\ d \in DOMAIN drivers /\ d + 1 \in DOMAIN drivers
        <5>1. n \in Nat /\ DOMAIN drivers = 1 .. n
          BY Domains DEF IInv
        <5> HIDE DEF n
        <5> QED
          BY <3>2, <5>1
      <4>2. Top(d) = drivers[d + 1].base
        BY <3>2 DEF Top
      <4> QED
        BY <4>1, <4>2, Domains DEF IInv, Bases, DriverRec
    <3> QED
      BY <3>1, <3>2
  <2>2. Same(frames, frames', Top(d))
    BY <1>3, <1>6, <2>1 DEF Same
  <2>3. drivers'[d].held \in {drivers[d].held, NoFrame} /\ Segment(drivers, frames, d, Top(d))
    BY <1>1 DEF Links
  <2> QED
    BY <1>7, <2>1, <2>2, <2>3, SegmentSame
<1>9. ASSUME NEW d \in 1 .. n PROVE Segment(drivers', frames', d, Top(d)')
  <2>1. CASE d = n
    <3>1. Top(d) = k /\ Top(d)' = k + 1 /\ drivers'[d].held = NoFrame
      BY <1>1, <1>2, <1>5, <2>1 DEF Top
    <3>2. /\ \A i \in top.base + 1 .. k : Linked(drivers', frames', n, i, frames'[i])
          /\ drivers'[n].base = top.base
      BY <1>1, <1>2, <1>8, <2>1, <3>1 DEF Segment
    <3>3. Linked(drivers', frames', n, k + 1, frames'[k + 1])
      <4>1. k + 1 # drivers'[n].base + 1 /\ (k + 1) - 1 = k /\ k \in 1 .. k
        BY <1>2, <1>3, <3>2
      <4>2. CalledBy(f, frames'[k])
        BY <1>3, <1>4, <1>5, <4>1
      <4> QED
        BY <1>5, <4>1, <4>2 DEF Linked
    <3>4. \A i \in top.base + 1 .. k + 1 : i # k + 1 => i \in top.base + 1 .. k
      BY <1>2, <1>3
    <3>5. \A i \in top.base + 1 .. k + 1 : Linked(drivers', frames', n, i, frames'[i])
      BY <3>2, <3>3, <3>4
    <3> QED
      BY <2>1, <3>1, <3>2, <3>5 DEF Segment
  <2>2. CASE d # n
    <3>1. Top(d)' = Top(d)
      BY <1>1, <2>2 DEF Top
    <3> QED
      BY <1>8, <3>1
  <2> QED
    BY <2>1, <2>2
<1> QED
  BY <1>1, <1>9 DEF Links
=============================================================================
