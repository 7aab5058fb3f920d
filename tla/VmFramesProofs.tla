--------------------------- MODULE VmFramesProofs ---------------------------
(***************************************************************************)
(* The theorems of VmFrames: each action is an instance of one of seven    *)
(* steps on the frame in hand of VmFramesHand, and a lemma for each of the *)
(* seven shows what it preserves.                                          *)
(***************************************************************************)
EXTENDS VmFramesHand, LeastFixpoint

-----------------------------------------------------------------------------
(* A direct call. *)
LEMMA DirectCallStep == ASSUME IInv, DirectCall PROVE Preserved
<1>chain. KeepsChain
  BY DirectCallLinks
<1>1. /\ Direct /\ nextId <= MaxFrames /\ nextId' = nextId + 1
      /\ UNCHANGED <<drivers, signal>>
  BY DEF DirectCall
<1> DEFINE f == NewFrame(current.id, TRUE, Handles)
<1>2. f \in Frame /\ f.id = nextId
  <2>1. current \in Frame
    BY <1>1, CurrentFrame
  <2> QED
    BY <1>1, <2>1, BoundsAssumption DEF IInv, Types, NewFrame, Handles, Frame, Ids
<1>3. frames' = Append(frames, f)
  BY DEF DirectCall
<1> HIDE DEF f
<1>4. /\ frames' \in Seq(Frame) /\ Len(frames') = Len(frames) + 1
      /\ \A i \in 1 .. Len(frames) : frames'[i] = frames[i]
      /\ frames'[Len(frames) + 1] = f
  BY <1>2, <1>3, AppendProperties DEF IInv, Types
<1>5. Types /\ Types'
  BY <1>1, <1>4, BoundsAssumption DEF IInv, Types
<1>6. /\ DOMAIN frames = 1 .. Len(frames) /\ DOMAIN frames' = 1 .. Len(frames) + 1
      /\ Len(frames) \in Nat /\ Len(drivers) \in Nat /\ DOMAIN drivers = 1 .. Len(drivers)
      /\ \A i \in DOMAIN frames : frames[i].id \in Nat
      /\ \A d \in DOMAIN drivers : drivers[d].held.id \in Nat /\ drivers[d].base \in Nat
  BY <1>4, <1>5, Domains, LenProperties, FrameIds DEF DriverRec
<1>7. Fresh'
  <2>1. nextId \in Nat /\ nextId' = nextId + 1
    BY <1>1, <1>5, BoundsAssumption DEF Types
  <2>2. \A i \in 1 .. Len(frames) : frames'[i].id \in Nat /\ frames'[i].id < nextId
    BY <1>4, <1>6 DEF IInv, Fresh
  <2>3. \A d \in DOMAIN drivers : drivers[d].held.id \in Nat /\ drivers[d].held.id < nextId
    BY <1>6 DEF IInv, Fresh
  <2>4. \A x \in Nat : x < nextId => x < nextId + 1
    BY <2>1
  <2>5. \A i \in 1 .. Len(frames) + 1 : i # Len(frames) + 1 => i \in 1 .. Len(frames)
    BY <1>6
  <2>6. frames'[Len(frames) + 1].id < nextId + 1
    BY <1>2, <1>4, <2>1
  <2>7. \A i \in 1 .. Len(frames) + 1 : frames'[i].id < nextId + 1
    BY <2>2, <2>4, <2>5, <2>6
  <2> QED
    BY <1>1, <1>6, <2>1, <2>3, <2>4, <2>7 DEF Fresh
<1>8. Once'
  <2>1. \A i \in DOMAIN frames : frames'[i].id = frames[i].id /\ frames'[i].id # nextId
    BY <1>4, <1>5, <1>6 DEF IInv, Fresh, Types
  <2>2. \A d \in DOMAIN drivers : drivers[d].held.id # nextId
    BY <1>5, <1>6 DEF IInv, Fresh, Types
  <2>3. \A i, j \in DOMAIN frames' : frames'[i].id = frames'[j].id => i = j
    BY <1>2, <1>4, <1>6, <2>1 DEF IInv, Once
  <2>4. \A i \in DOMAIN frames', d \in DOMAIN drivers : frames'[i].id # drivers[d].held.id
    BY <1>2, <1>4, <1>6, <2>1, <2>2 DEF IInv, Once
  <2> QED
    BY <1>1, <2>3, <2>4 DEF IInv, Once
<1>9. Waiting' /\ Bases'
  BY <1>1, <1>4, <1>6 DEF IInv, Waiting, Bases
<1>10. Targets'
  <2> SUFFICES ASSUME NEW d \in DOMAIN drivers
               PROVE  HasTarget(d)'
    BY <1>1 DEF Targets
  <2>1. HasTarget(d)
    BY <1>1 DEF IInv, Targets, Direct
  <2>2. Top(d) \in 0 .. Len(frames) /\ Top(d)' >= Top(d) /\ Top(d)' \in Nat
    BY <1>1, <1>4, <1>6 DEF IInv, Bases, Top
  <2> QED
    BY <1>1, <1>4, <1>6, <2>1, <2>2 DEF HasTarget
<1>inv. IInv'
  BY <1>5, <1>7, <1>8, <1>9, <1>10 DEF IInv
<1> QED
  BY <1>chain, <1>inv DEF Preserved

(* The driver holds the frame in hand: a try is entered, goes on or ends. *)
LEMMA HoldStep ==
  ASSUME IInv, drivers # <<>>, NEW frame, NEW stack, InHand(frame, stack),
         frames' = stack, nextId' = nextId, signal' \in Outcomes \union {"none"},
         NEW ts \in Seq(TryContext), TopBecomes(frame, ts),
         leaked' = leaked
  PROVE  Preserved
<1>chain. KeepsChain
  BY TopLinks
<1> DEFINE n == Len(drivers)
<1>1. AtHand(frame, stack)
  BY HandFacts
<1>2. /\ n \in Nat \ {0} /\ Len(drivers') = n /\ DOMAIN drivers = 1 .. n
      /\ DOMAIN drivers' = 1 .. n /\ drivers' \in Seq(DriverRec)
  BY <1>1, LenProperties DEF AtHand, HandSizes, TopBecomes
<1>3. \A d \in 1 .. n :
        /\ drivers'[d].target = drivers[d].target
        /\ drivers'[d].base = drivers[d].base
        /\ drivers'[d].held = IF d = n THEN frame ELSE drivers[d].held
  BY DEF TopBecomes
<1>a. \A d \in 1 .. n : d # n => d \in 1 .. n - 1 /\ d + 1 \in 1 .. n
  BY <1>2, BelowLast
<1>4. Types'
  BY <1>2 DEF IInv, InHand, Types
<1>5. Fresh'
  BY <1>1, <1>2, <1>3, <1>a DEF AtHand, HandSizes, HandIds, Fresh
<1>6. Once'
  <2>1. \A i, j \in DOMAIN stack : stack[i].id = stack[j].id => i = j
    BY <1>1 DEF AtHand, HandSizes, HandIds, HandBases
  <2>2. ASSUME NEW d \in 1 .. n, NEW e \in 1 .. n, drivers'[d].held.id = drivers'[e].held.id
        PROVE  d = e
    BY <1>1, <1>2, <1>3, <1>a, <2>2 DEF AtHand, HandSizes, HandIds
  <2>3. ASSUME NEW i \in DOMAIN stack, NEW d \in 1 .. n
        PROVE  stack[i].id # drivers'[d].held.id
    <3>1. /\ stack[i].id # frame.id
          /\ \A e \in 1 .. n - 1 : stack[i].id # drivers[e].held.id
      BY <1>1 DEF AtHand, HandSizes, HandIds, HandBases
    <3> QED
      BY <1>3, <1>a, <3>1
  <2> QED
    BY <1>2, <2>1, <2>2, <2>3 DEF Once
<1>7. Waiting'
  <2>1. \A d \in 1 .. n : drivers'[d].held # NoFrame
    BY <1>1, <1>2, <1>3, <1>a DEF AtHand, HandSizes, HandIds
  <2> QED
    BY <1>2, <2>1 DEF Waiting
<1>8. Bases'
  BY <1>1, <1>2, <1>3 DEF AtHand, HandSizes, HandBases, Bases
<1>9. Targets'
  <2> SUFFICES ASSUME NEW d \in 1 .. n PROVE HasTarget(d)'
    BY <1>2 DEF Targets
  <2>1. CASE d = n
    <3>1. Top(d)' = Len(stack)
      BY <1>2, <2>1 DEF Top
    <3>2. \/ frame.id = drivers[d].target
          \/ \E i \in drivers[d].base + 1 .. Len(stack) : stack[i].id = drivers[d].target
      BY <1>1, <2>1 DEF InHand, AtHand, HandSizes, HandBases
    <3> QED
      BY <1>3, <2>1, <3>1, <3>2 DEF HasTarget
  <2>2. CASE d # n
    <3>1. d \in 1 .. n - 1 /\ d + 1 \in 1 .. n
      BY <1>a, <2>2
    <3>2. Top(d)' = drivers[d + 1].base
      BY <1>2, <1>3, <2>2, <3>1 DEF Top
    <3>3. \/ drivers[d].held.id = drivers[d].target
          \/ \E i \in drivers[d].base + 1 .. drivers[d + 1].base :
                stack[i].id = drivers[d].target
      BY <3>1, TargetsBelow
    <3> QED
      BY <1>3, <2>2, <3>2, <3>3 DEF HasTarget
  <2> QED
    BY <2>1, <2>2
<1>inv. IInv'
  BY <1>4, <1>5, <1>6, <1>7, <1>8, <1>9 DEF IInv
<1> QED
  BY <1>chain, <1>inv DEF Preserved

(* The frame in hand goes back to the stack and is run. *)
LEMMA ResumeStep ==
  ASSUME IInv, drivers # <<>>, NEW frame, NEW stack, InHand(frame, stack),
         frames' = Append(stack, frame), nextId' = nextId, signal' = "none",
         TopBecomes(NoFrame, <<>>),
         leaked' = leaked
  PROVE  Preserved
<1>chain. KeepsChain
  BY TopLinks
<1> DEFINE n == Len(drivers)
           m == Len(stack) + 1
<1>1. AtHand(frame, stack) /\ frame \in Frame /\ stack \in Seq(Frame)
  BY HandFacts DEF InHand
<1>2. /\ n \in Nat \ {0} /\ Len(drivers') = n /\ DOMAIN drivers = 1 .. n
      /\ DOMAIN drivers' = 1 .. n /\ drivers' \in Seq(DriverRec)
  BY <1>1, LenProperties DEF AtHand, HandSizes, TopBecomes
<1>3. \A d \in 1 .. n :
        /\ drivers'[d].target = drivers[d].target
        /\ drivers'[d].base = drivers[d].base
        /\ drivers'[d].held = IF d = n THEN NoFrame ELSE drivers[d].held
        /\ d = n => drivers'[d].tries = <<>>
  BY DEF TopBecomes
<1>4. /\ frames' \in Seq(Frame) /\ Len(frames') = m /\ m \in Nat /\ Len(stack) \in Nat
      /\ DOMAIN frames' = 1 .. m /\ DOMAIN stack = 1 .. Len(stack)
      /\ \A i \in 1 .. Len(stack) : frames'[i] = stack[i]
      /\ frames'[m] = frame
  BY <1>1, AppendProperties, LenProperties
<1>5. \A d \in 1 .. n : d # n => d \in 1 .. n - 1 /\ d + 1 \in 1 .. n
  BY <1>2, BelowLast
<1>6. \A i \in 1 .. m : i # m => i \in 1 .. Len(stack)
  BY <1>4
<1>7. Types'
  BY <1>2, <1>4 DEF IInv, Types
<1>a. \A d \in 1 .. n - 1 :
        /\ drivers[d].held # NoFrame /\ drivers[d].held.id # 0
        /\ drivers[d].held.id < nextId /\ drivers[d].held.id # frame.id
        /\ \A i \in 1 .. Len(stack) : stack[i].id # drivers[d].held.id
  BY <1>1 DEF AtHand, HandIds
<1>b. /\ frame.id # 0 /\ frame.id < nextId /\ 0 < nextId /\ NoFrame.id = 0
      /\ \A i \in 1 .. Len(stack) :
           stack[i].id < nextId /\ stack[i].id # frame.id /\ stack[i].id # 0
  BY <1>1, FrameIds DEF AtHand, HandSizes, HandIds
<1>c. \A i \in 1 .. m, d \in 1 .. n - 1 : frames'[i].id # drivers[d].held.id
  BY <1>4, <1>6, <1>a
<1>d. \A i \in 1 .. m : frames'[i].id < nextId /\ frames'[i].id # 0
  BY <1>4, <1>6, <1>b
<1>8. Fresh'
  <2>1. \A d \in 1 .. n : drivers'[d].held.id < nextId
    BY <1>3, <1>5, <1>a, <1>b
  <2> QED
    BY <1>2, <1>4, <1>d, <2>1 DEF Fresh
<1>9. Once'
  <2>1. ASSUME NEW i \in 1 .. m, NEW j \in 1 .. m, frames'[i].id = frames'[j].id
        PROVE  i = j
    BY <1>1, <1>4, <1>6, <2>1 DEF AtHand, HandIds
  <2>2. ASSUME NEW d \in 1 .. n, NEW e \in 1 .. n,
               drivers'[d].held.id # 0, drivers'[d].held.id = drivers'[e].held.id
        PROVE  d = e
    <3>1. d # n /\ e # n
      BY <1>3, <1>b, <2>2
    <3>2. d \in 1 .. n - 1 /\ e \in 1 .. n - 1 /\ drivers[d].held.id = drivers[e].held.id
      BY <1>3, <1>5, <2>2, <3>1
    <3> QED
      BY <1>1, <3>2 DEF AtHand, HandIds
  <2>3. ASSUME NEW i \in 1 .. m, NEW d \in 1 .. n
        PROVE  frames'[i].id # drivers'[d].held.id
    <3>1. CASE d = n
      BY <1>3, <1>b, <1>d, <3>1
    <3>2. CASE d # n
      BY <1>3, <1>5, <1>c, <3>2
    <3> QED
      BY <3>1, <3>2
  <2> QED
    BY <1>2, <1>4, <2>1, <2>2, <2>3 DEF Once
<1>10. Waiting'
  <2>1. \A d \in 1 .. n : d # n => drivers'[d].held # NoFrame
    BY <1>1, <1>3, <1>5 DEF AtHand, HandSizes, HandIds
  <2> QED
    BY <1>2, <1>3, <2>1 DEF Waiting
<1>11. Bases'
  <2>1. \A d \in 1 .. n : drivers[d].base \in Nat /\ drivers[d].base <= Len(stack)
    BY <1>1 DEF AtHand, HandSizes, HandIds, HandBases
  <2>2. \A d, e \in 1 .. n : d <= e => drivers[d].base <= drivers[e].base
    BY <1>1 DEF AtHand, HandSizes, HandIds, HandBases
  <2>3. \A d \in 1 .. n : drivers[d].base <= m
    BY <1>4, <2>1
  <2> QED
    BY <1>2, <1>3, <1>4, <2>2, <2>3 DEF Bases
<1>12. Targets'
  <2> SUFFICES ASSUME NEW d \in 1 .. n PROVE HasTarget(d)'
    BY <1>2 DEF Targets
  <2>1. CASE d = n
    <3>1. Top(d)' = m
      BY <1>2, <1>4, <2>1 DEF Top
    <3>2. /\ drivers[d].base \in Nat /\ drivers[d].base <= Len(stack)
          /\ \/ frame.id = drivers[d].target
             \/ \E i \in drivers[d].base + 1 .. Len(stack) : stack[i].id = drivers[d].target
      BY <1>1, <2>1 DEF InHand, AtHand, HandSizes, HandBases
    <3>3. \E i \in drivers[d].base + 1 .. m : frames'[i].id = drivers[d].target
      BY <1>4, <3>2
    <3> QED
      BY <1>3, <3>1, <3>3 DEF HasTarget
  <2>2. CASE d # n
    <3>1. d \in 1 .. n - 1 /\ d + 1 \in 1 .. n
      BY <1>5, <2>2
    <3>2. Top(d)' = drivers[d + 1].base
      BY <1>2, <1>3, <2>2, <3>1 DEF Top
    <3>3. /\ drivers[d + 1].base \in 0 .. Len(stack) /\ drivers[d].base \in Nat
          /\ \/ drivers[d].held.id = drivers[d].target
             \/ \E i \in drivers[d].base + 1 .. drivers[d + 1].base :
                   stack[i].id = drivers[d].target
      BY <1>1, <3>1, TargetsBelow DEF AtHand, HandBases
    <3>4. \A i \in drivers[d].base + 1 .. drivers[d + 1].base : frames'[i] = stack[i]
      BY <1>4, <3>3
    <3>5. /\ drivers'[d].held = drivers[d].held /\ drivers'[d].target = drivers[d].target
          /\ drivers'[d].base = drivers[d].base
      BY <1>3, <2>2
    <3>6. CASE drivers[d].held.id = drivers[d].target
      BY <3>5, <3>6 DEF HasTarget
    <3>7. CASE \E i \in drivers[d].base + 1 .. drivers[d + 1].base :
                 stack[i].id = drivers[d].target
      BY <3>2, <3>4, <3>5, <3>7 DEF HasTarget
    <3> QED
      BY <3>3, <3>6, <3>7
  <2> QED
    BY <2>1, <2>2
<1>inv. IInv'
  BY <1>7, <1>8, <1>9, <1>10, <1>11, <1>12 DEF IInv
<1> QED
  BY <1>chain, <1>inv DEF Preserved

(* The frame in hand is dropped: it returned to a frame of its driver, or  *)
(* the driver is about to fail.                                            *)
LEMMA DropStep ==
  ASSUME IInv, drivers # <<>>, NEW frame, NEW stack, InHand(frame, stack),
         frames' = stack, nextId' = nextId, signal' \in Outcomes \union {"none"},
         signal' # "none" \/ frame.id # top.target,
         TopBecomes(NoFrame, <<>>),
         leaked' = leaked
  PROVE  Preserved
<1>chain. KeepsChain
  BY TopLinks
<1> DEFINE n == Len(drivers)
<1>1. AtHand(frame, stack)
  BY HandFacts
<1>2. /\ n \in Nat \ {0} /\ Len(drivers') = n /\ DOMAIN drivers = 1 .. n
      /\ DOMAIN drivers' = 1 .. n /\ drivers' \in Seq(DriverRec)
      /\ Len(stack) \in Nat /\ DOMAIN stack = 1 .. Len(stack)
  BY <1>1, LenProperties DEF AtHand, HandSizes, TopBecomes
<1>3. \A d \in 1 .. n :
        /\ drivers'[d].target = drivers[d].target
        /\ drivers'[d].base = drivers[d].base
        /\ drivers'[d].held = IF d = n THEN NoFrame ELSE drivers[d].held
        /\ d = n => drivers'[d].tries = <<>>
  BY DEF TopBecomes
<1>4. \A d \in 1 .. n : d # n => d \in 1 .. n - 1 /\ d + 1 \in 1 .. n
  BY <1>2, BelowLast
<1>5. \A d \in 1 .. n - 1 :
        /\ drivers[d].held # NoFrame /\ drivers[d].held.id < nextId
        /\ \A i \in 1 .. Len(stack) : stack[i].id # drivers[d].held.id
  BY <1>1 DEF AtHand, HandIds
<1>6. /\ 0 < nextId /\ NoFrame.id = 0
      /\ \A i \in 1 .. Len(stack) : stack[i].id < nextId /\ stack[i].id # 0
  BY <1>1, FrameIds DEF AtHand, HandSizes, HandIds
<1>7. Types'
  BY <1>2 DEF IInv, InHand, Types
<1>8. Fresh'
  <2>1. \A d \in 1 .. n : drivers'[d].held.id < nextId
    BY <1>3, <1>4, <1>5, <1>6
  <2> QED
    BY <1>2, <1>6, <2>1 DEF Fresh
<1>9. Once'
  <2>1. \A i, j \in 1 .. Len(stack) : stack[i].id = stack[j].id => i = j
    BY <1>1 DEF AtHand, HandIds
  <2>2. ASSUME NEW d \in 1 .. n, NEW e \in 1 .. n,
               drivers'[d].held.id # 0, drivers'[d].held.id = drivers'[e].held.id
        PROVE  d = e
    <3>1. d # n /\ e # n
      BY <1>3, <1>6, <2>2
    <3>2. d \in 1 .. n - 1 /\ e \in 1 .. n - 1 /\ drivers[d].held.id = drivers[e].held.id
      BY <1>3, <1>4, <2>2, <3>1
    <3> QED
      BY <1>1, <3>2 DEF AtHand, HandIds
  <2>3. ASSUME NEW i \in 1 .. Len(stack), NEW d \in 1 .. n
        PROVE  stack[i].id # drivers'[d].held.id
    BY <1>3, <1>4, <1>5, <1>6
  <2> QED
    BY <1>2, <2>1, <2>2, <2>3 DEF Once
<1>10. Waiting'
  <2>1. \A d \in 1 .. n : d # n => drivers'[d].held # NoFrame
    BY <1>3, <1>4, <1>5
  <2> QED
    BY <1>2, <1>3, <2>1 DEF Waiting
<1>11. Bases'
  BY <1>1, <1>2, <1>3 DEF AtHand, HandSizes, HandBases, Bases
<1>12. Targets'
  <2> SUFFICES ASSUME NEW d \in 1 .. n, d # n \/ signal' = "none" PROVE HasTarget(d)'
    BY <1>2, <1>3 DEF Targets
  <2>1. CASE d = n
    <3>1. Top(d)' = Len(stack)
      BY <1>2, <2>1 DEF Top
    <3>2. \E i \in drivers[d].base + 1 .. Len(stack) : stack[i].id = drivers[d].target
      BY <1>1, <2>1 DEF InHand, AtHand, HandSizes
    <3> QED
      BY <1>3, <2>1, <3>1, <3>2 DEF HasTarget
  <2>2. CASE d # n
    <3>1. d \in 1 .. n - 1 /\ d + 1 \in 1 .. n
      BY <1>4, <2>2
    <3>2. Top(d)' = drivers[d + 1].base
      BY <1>2, <1>3, <2>2, <3>1 DEF Top
    <3>3. \/ drivers[d].held.id = drivers[d].target
          \/ \E i \in drivers[d].base + 1 .. drivers[d + 1].base :
                stack[i].id = drivers[d].target
      BY <3>1, TargetsBelow
    <3> QED
      BY <1>3, <2>2, <3>2, <3>3 DEF HasTarget
  <2> QED
    BY <2>1, <2>2
<1>inv. IInv'
  BY <1>7, <1>8, <1>9, <1>10, <1>11, <1>12 DEF IInv
<1> QED
  BY <1>chain, <1>inv DEF Preserved

(* The innermost driver is gone and the one below goes on in its try, or   *)
(* hands the failure on.                                                   *)
LEMMA LeaveStep ==
  ASSUME IInv, drivers # <<>>, drivers' = Front(drivers), nextId' = nextId,
         frames' \in Seq(Frame), Len(frames') <= Len(frames), top.base <= Len(frames'),
         \A i \in 1 .. Len(frames') : frames'[i] = frames[i],
         signal' \in Outcomes \union {"none"},
         leaked' = {} /\ Chain => LowerLinks(frames') /\ Len(frames') = top.base
  PROVE  Preserved
<1>chain. KeepsChain
  <2> SUFFICES ASSUME Chain, leaked' = {} PROVE Links'
    BY DEF KeepsChain, Chain
  <2> QED
    BY LeaveLinks
<1> DEFINE n == Len(drivers)
           m == Len(frames')
<1>1. /\ n \in Nat \ {0} /\ DOMAIN drivers = 1 .. n /\ top = drivers[n]
      /\ \A d \in 1 .. n : drivers[d] \in DriverRec
      /\ Len(frames) \in Nat /\ DOMAIN frames = 1 .. Len(frames)
  BY Domains, TopFacts DEF IInv
<1>2. /\ drivers' \in Seq(DriverRec) /\ Len(drivers') = n - 1
      /\ \A d \in 1 .. n - 1 : drivers'[d] = drivers[d]
  BY FrontFacts DEF IInv, Types
<1>3. DOMAIN drivers' = 1 .. n - 1 /\ DOMAIN frames' = 1 .. m /\ m \in Nat
  BY <1>2, LenProperties
<1>4. /\ \A d \in 1 .. n - 1 : d \in 1 .. n /\ d + 1 \in 1 .. n /\ d # n
      /\ \A i \in 1 .. m : i \in 1 .. Len(frames)
  <2>1. \A d \in 1 .. n - 1 : d \in 1 .. n /\ d + 1 \in 1 .. n /\ d # n
    BY <1>1, BelowLast
  <2>2. \A i \in 1 .. m : i \in 1 .. Len(frames)
    BY <1>1, <1>3
  <2> QED
    BY <2>1, <2>2
<1>5. \A d \in 1 .. n - 1 : drivers[d].held # NoFrame
  BY <1>1, <1>4 DEF IInv, Waiting
<1>6. Types'
  BY <1>2 DEF IInv, Types
<1>7. Fresh'
  BY <1>1, <1>2, <1>3, <1>4 DEF IInv, Fresh
<1>8. Once'
  <2>1. \A i, j \in 1 .. m : frames'[i].id = frames'[j].id => i = j
    BY <1>1, <1>4 DEF IInv, Once
  <2>2. ASSUME NEW d \in 1 .. n - 1, NEW e \in 1 .. n - 1,
               drivers'[d].held.id # 0, drivers'[d].held.id = drivers'[e].held.id
        PROVE  d = e
    <3>1. d \in DOMAIN drivers /\ e \in DOMAIN drivers
      BY <1>1, <1>4
    <3>2. drivers[d].held.id # 0 /\ drivers[d].held.id = drivers[e].held.id
      BY <1>2, <2>2
    <3> QED
      BY <3>1, <3>2 DEF IInv, Once
  <2>3. ASSUME NEW i \in 1 .. m, NEW d \in 1 .. n - 1
        PROVE  frames'[i].id # drivers'[d].held.id
    <3>1. frames[i].id # drivers[d].held.id
      BY <1>1, <1>4 DEF IInv, Once
    <3> QED
      BY <1>2, <3>1
  <2> QED
    BY <1>3, <2>1, <2>2, <2>3 DEF Once
<1>9. Waiting'
  BY <1>2, <1>3, <1>5 DEF Waiting
<1>10. \A d \in 1 .. n - 1 : drivers[d + 1].base <= m
  <2>1. \A d \in 1 .. n : drivers[d].base \in Nat
    BY <1>1 DEF DriverRec
  <2>2. \A d \in 1 .. n : d <= n /\ n \in 1 .. n
    BY <1>1
  <2>3. \A d \in 1 .. n : drivers[d].base <= drivers[n].base
    BY <1>1, <2>2 DEF IInv, Bases
  <2>4. drivers[n].base <= m
    BY <1>1
  <2>5. ASSUME NEW d \in 1 .. n, NEW e \in 1 .. n, drivers[d].base <= drivers[e].base,
               drivers[e].base <= m
        PROVE  drivers[d].base <= m
    BY <1>3, <2>1, <2>5
  <2> QED
    BY <1>4, <2>2, <2>3, <2>4, <2>5
<1>11. Bases'
  <2>1. \A d \in 1 .. n - 1 : drivers[d].base <= m
    <3>1. \A d \in 1 .. n : drivers[d].base \in Nat
      BY <1>1 DEF DriverRec
    <3>2. \A d \in 1 .. n - 1 : d <= d + 1
      BY <1>1
    <3>3. \A d \in 1 .. n - 1 : drivers[d].base <= drivers[d + 1].base
      BY <1>1, <1>4, <3>2 DEF IInv, Bases
    <3> SUFFICES ASSUME NEW d \in 1 .. n - 1 PROVE drivers[d].base <= m
      OBVIOUS
    <3>4. /\ drivers[d].base \in Nat /\ drivers[d + 1].base \in Nat
          /\ drivers[d].base <= drivers[d + 1].base /\ drivers[d + 1].base <= m
      BY <1>4, <1>10, <3>1, <3>3
    <3> HIDE DEF m, n
    <3> QED
      BY <1>3, <3>4
  <2> QED
    BY <1>1, <1>2, <1>3, <1>4, <2>1 DEF IInv, Bases
<1>12. Targets'
  <2> SUFFICES ASSUME NEW d \in 1 .. n - 1 PROVE HasTarget(d)'
    BY <1>3 DEF Targets
  <2>1. \/ drivers[d].held.id = drivers[d].target
        \/ \E i \in drivers[d].base + 1 .. drivers[d + 1].base : frames[i].id = drivers[d].target
    BY <1>1, <1>4, <1>5 DEF IInv, Targets, HasTarget, Top
  <2>2. /\ drivers[d].base \in Nat /\ drivers[d + 1].base \in Nat
        /\ drivers[d + 1].base <= m
    BY <1>1, <1>4, <1>10 DEF DriverRec
  <2>3. Top(d)' \in Nat /\ drivers[d + 1].base <= Top(d)'
    <3>1. CASE d = n - 1
      BY <1>2, <1>3, <2>2, <3>1 DEF Top
    <3>2. CASE d # n - 1
      <4>1. d + 1 \in 1 .. n - 1
        BY <1>1, <3>2, BelowLast
      <4> QED
        BY <1>2, <2>2, <3>2, <4>1 DEF Top
    <3> QED
      BY <3>1, <3>2
  <2>4. \A i \in drivers[d].base + 1 .. drivers[d + 1].base :
          i \in drivers[d].base + 1 .. Top(d)' /\ frames'[i] = frames[i]
    <3>1. \A a, b, c \in Nat : b <= c => \A i \in a + 1 .. b : i \in a + 1 .. c
      OBVIOUS
    <3>2. \A i \in drivers[d].base + 1 .. drivers[d + 1].base : i \in drivers[d].base + 1 .. Top(d)'
      BY <2>2, <2>3, <3>1, Zenon
    <3>3. m \in Nat /\ drivers[d + 1].base \in 0 .. m
      BY <1>1, <2>2
    <3>4. \A i \in drivers[d].base + 1 .. drivers[d + 1].base : i \in 1 .. m
      BY <2>2, <3>3, SegmentBelow, Zenon
    <3> QED
      BY <1>3, <3>2, <3>4
  <2> QED
    BY <1>2, <2>1, <2>4 DEF HasTarget
<1>inv. IInv'
  BY <1>6, <1>7, <1>8, <1>9, <1>11, <1>12 DEF IInv
<1> QED
  BY <1>chain, <1>inv DEF Preserved

(* A nested call: the frame in hand waits, a new driver starts with a new  *)
(* frame on top of the stack.                                              *)
LEMMA NestStep ==
  ASSUME IInv, drivers # <<>>, NEW frame, NEW stack, InHand(frame, stack),
         signal = "none", signal' = "none", nextId <= MaxFrames, nextId' = nextId + 1,
         NEW f \in Frame, f.id = nextId, ~f.direct, CalledBy(f, frame),
         frames' = Append(stack, f),
         NEW w \in DriverRec, w.target = top.target, w.base = top.base, w.held = frame,
         drivers' = Append(SetTop(w), NewDriver(Len(stack))),
         leaked' = leaked
  PROVE  Preserved
<1>chain. KeepsChain
  BY NestLinks
<1> DEFINE n == Len(drivers)
           k == Len(stack)
           new == NewDriver(Len(stack))
<1>1. AtHand(frame, stack) /\ stack \in Seq(Frame)
  BY HandFacts DEF InHand
<1>2. /\ n \in Nat \ {0} /\ DOMAIN drivers = 1 .. n /\ drivers \in Seq(DriverRec)
      /\ k \in Nat /\ DOMAIN stack = 1 .. k
      /\ nextId \in Nat \ {0} /\ nextId \in Ids /\ top = drivers[n]
  BY <1>1, BoundsAssumption DEF AtHand, HandSizes, IInv, Types, Ids
<1>3. /\ new \in DriverRec /\ new.target = nextId /\ new.base = k
      /\ new.held = NoFrame /\ new.tries = <<>>
  BY <1>2, EmptySeq DEF NewDriver, DriverRec
<1> HIDE DEF new
<1>4. /\ drivers' \in Seq(DriverRec) /\ Len(drivers') = n + 1 /\ DOMAIN drivers' = 1 .. n + 1
      /\ \A d \in 1 .. n : drivers'[d] = IF d = n THEN w ELSE drivers[d]
      /\ drivers'[n + 1] = new
  <2>1. /\ SetTop(w) \in Seq(DriverRec) /\ Len(SetTop(w)) = n
        /\ \A d \in 1 .. n : SetTop(w)[d] = IF d = n THEN w ELSE drivers[d]
    BY <1>2, SetTopFacts
  <2>2. drivers' = Append(SetTop(w), new)
    BY DEF new
  <2> QED
    BY <1>3, <2>1, <2>2, AppendProperties, LenProperties
<1>5. /\ frames' \in Seq(Frame) /\ Len(frames') = k + 1 /\ DOMAIN frames' = 1 .. k + 1
      /\ \A i \in 1 .. k : frames'[i] = stack[i]
      /\ frames'[k + 1] = f
  BY <1>1, <1>2, AppendProperties, LenProperties
<1>a. n \in Nat \ {0} /\ k \in Nat /\ nextId \in Nat /\ nextId' \in 1 .. MaxFrames + 1
  BY <1>2, BoundsAssumption
<1>6. Types'
  BY <1>4, <1>5, <1>a DEF Types
<1>7. /\ frame # NoFrame /\ frame.id \in Nat \ {0} /\ frame.id < nextId
      /\ NoFrame.id = 0
      /\ \A i \in 1 .. k :
           /\ stack[i].id \in Nat \ {0} /\ stack[i].id < nextId /\ stack[i].id # frame.id
      /\ \A i, j \in 1 .. k : stack[i].id = stack[j].id => i = j
  BY <1>1, FrameIds DEF AtHand, HandSizes, HandIds
<1>8. /\ \A d \in 1 .. n - 1 :
           /\ drivers[d].held # NoFrame /\ drivers[d].held.id \in Nat \ {0}
           /\ drivers[d].held.id < nextId /\ drivers[d].held.id # frame.id
           /\ \A i \in 1 .. k : stack[i].id # drivers[d].held.id
      /\ \A d, e \in 1 .. n - 1 : drivers[d].held.id = drivers[e].held.id => d = e
  BY <1>1 DEF AtHand, HandIds
<1>9. /\ \A d \in 1 .. n : drivers[d].base \in Nat /\ drivers[d].base <= k
      /\ \A d, e \in 1 .. n : d <= e => drivers[d].base <= drivers[e].base
  BY <1>1 DEF AtHand, HandBases
<1>10. \A d \in 1 .. n - 1 :
         /\ drivers[d + 1].base \in 0 .. k
         /\ \/ drivers[d].held.id = drivers[d].target
            \/ \E i \in drivers[d].base + 1 .. drivers[d + 1].base :
                  stack[i].id = drivers[d].target
  <2>1. OwnBelow(stack)
    BY AllTargetsBelow
  <2> QED
    BY <2>1 DEF OwnBelow
<1>11. \/ frame.id = drivers[n].target
       \/ \E i \in drivers[n].base + 1 .. k : stack[i].id = drivers[n].target
  BY <1>2 DEF InHand
<1>12. Len(drivers) = n /\ Len(stack) = k
  OBVIOUS
<1> HIDE DEF n, k
(* The new driver and frame come last; the driver that calls holds `frame`. *)
<1>13. /\ drivers'[n].held = frame /\ drivers'[n].base = drivers[n].base
       /\ drivers'[n].target = drivers[n].target
       /\ \A d \in 1 .. n - 1 : drivers'[d] = drivers[d]
       /\ \A d \in 1 .. n : d # n => d \in 1 .. n - 1
  BY <1>2, <1>4, BelowLast
<1>14. \A d \in 1 .. n :
         /\ drivers'[d].held # NoFrame /\ drivers'[d].held.id \in Nat \ {0}
         /\ drivers'[d].held.id < nextId
         /\ drivers'[d].base = drivers[d].base
         /\ \A i \in 1 .. k : stack[i].id # drivers'[d].held.id
  <2> SUFFICES ASSUME NEW d \in 1 .. n
               PROVE  /\ drivers'[d].held # NoFrame /\ drivers'[d].held.id \in Nat \ {0}
                      /\ drivers'[d].held.id < nextId
                      /\ drivers'[d].base = drivers[d].base
                      /\ \A i \in 1 .. k : stack[i].id # drivers'[d].held.id
    OBVIOUS
  <2>1. CASE d = n
    BY <1>7, <1>13, <2>1
  <2>2. CASE d # n
    <3>1. d \in 1 .. n - 1 /\ drivers'[d] = drivers[d]
      BY <1>13, <2>2
    <3> QED
      BY <1>8, <3>1
  <2> QED
    BY <2>1, <2>2
<1>15. /\ \A d \in 1 .. n + 1 : d # n + 1 => d \in 1 .. n
       /\ \A i \in 1 .. k + 1 : i # k + 1 => i \in 1 .. k
  BY <1>2, OneMore
<1>16. \A i \in 1 .. k + 1 : frames'[i].id \in Nat \ {0} /\ frames'[i].id <= nextId
  <2>1. \A i \in 1 .. k : frames'[i].id \in Nat \ {0} /\ frames'[i].id <= nextId
    BY <1>2, <1>5, <1>7
  <2>2. frames'[k + 1].id \in Nat \ {0} /\ frames'[k + 1].id <= nextId
    BY <1>2, <1>5
  <2> QED
    BY <1>15, <2>1, <2>2
<1>17. Fresh'
  <2>1. \A i \in 1 .. k + 1 : frames'[i].id < nextId + 1
    <3>1. nextId \in Nat /\ \A i \in 1 .. k + 1 : frames'[i].id \in Nat /\ frames'[i].id <= nextId
      BY <1>a, <1>16
    <3> QED
      BY <3>1, Successor, Zenon
  <2>2. \A d \in 1 .. n : drivers'[d].held.id < nextId + 1
    <3>1. nextId \in Nat /\ \A d \in 1 .. n : drivers'[d].held.id \in Nat /\ drivers'[d].held.id < nextId
      BY <1>a, <1>14
    <3> QED
      BY <3>1, Successor, Zenon
  <2>3. drivers'[n + 1].held.id < nextId + 1
    BY <1>2, <1>3, <1>4, <1>7
  <2>4. \A d \in 1 .. n + 1 : drivers'[d].held.id < nextId + 1
    BY <1>15, <2>2, <2>3
  <2> QED
    BY <1>4, <1>5, <2>1, <2>4 DEF Fresh
<1>18. Once'
  <2>1. ASSUME NEW i \in 1 .. k + 1, NEW j \in 1 .. k + 1, frames'[i].id = frames'[j].id
        PROVE  i = j
    <3>1. \A h \in 1 .. k : frames'[h].id # frames'[k + 1].id
      BY <1>2, <1>5, <1>7
    <3>2. \A g, h \in 1 .. k : frames'[g].id = frames'[h].id => g = h
      BY <1>5, <1>7
    <3> QED
      BY <1>15, <2>1, <3>1, <3>2
  <2>2. ASSUME NEW d \in 1 .. n + 1, NEW e \in 1 .. n + 1,
               drivers'[d].held.id # 0, drivers'[d].held.id = drivers'[e].held.id
        PROVE  d = e
    <3>1. drivers'[n + 1].held.id = 0
      BY <1>3, <1>4, <1>7
    <3>2. d \in 1 .. n /\ e \in 1 .. n
      BY <1>15, <2>2, <3>1
    <3>3. \A c \in 1 .. n : c # n => drivers'[c].held.id # drivers'[n].held.id
      BY <1>8, <1>13
    <3>4. \A b, c \in 1 .. n : b # n /\ c # n /\ drivers'[b].held.id = drivers'[c].held.id => b = c
      BY <1>8, <1>13
    <3> QED
      BY <2>2, <3>2, <3>3, <3>4
  <2>3. ASSUME NEW i \in 1 .. k + 1, NEW d \in 1 .. n + 1
        PROVE  frames'[i].id # drivers'[d].held.id
    <3>1. CASE d = n + 1
      <4>1. drivers'[d].held.id = 0
        BY <1>3, <1>4, <1>7, <3>1
      <4> QED
        BY <1>16, <4>1
    <3>2. CASE d # n + 1
      <4>1. d \in 1 .. n
        BY <1>15, <3>2
      <4>2. frames'[k + 1].id # drivers'[d].held.id
        <5>1. drivers'[d].held.id \in Nat /\ drivers'[d].held.id < nextId
          BY <1>14, <4>1
        <5> QED
          BY <1>5, <1>a, <5>1, Successor, Zenon
      <4>3. \A h \in 1 .. k : frames'[h].id # drivers'[d].held.id
        BY <1>5, <1>14, <4>1
      <4> QED
        BY <1>15, <4>2, <4>3
    <3> QED
      BY <3>1, <3>2
  <2> QED
    BY <1>4, <1>5, <2>1, <2>2, <2>3 DEF Once
<1>19. Waiting'
  <2>1. \A d \in 1 .. n + 1 : drivers'[d].held = NoFrame => d = n + 1
    BY <1>14, <1>15
  <2> QED
    BY <1>3, <1>4, <2>1 DEF Waiting
<1>20. Bases'
  <2>1. drivers'[n + 1].base = k
    BY <1>3, <1>4
  <2>2. ASSUME NEW d \in 1 .. n + 1 PROVE drivers'[d].base \in Nat /\ drivers'[d].base <= k
    <3>1. CASE d = n + 1
      BY <1>a, <2>1, <3>1, Successor, Zenon
    <3>2. CASE d # n + 1
      BY <1>9, <1>14, <1>15, <3>2
    <3> QED
      BY <3>1, <3>2
  <2>3. ASSUME NEW d \in 1 .. n + 1, NEW e \in 1 .. n + 1, d <= e
        PROVE  drivers'[d].base <= drivers'[e].base
    <3>1. CASE e = n + 1
      BY <2>1, <2>2, <3>1
    <3>2. CASE e # n + 1
      <4>1. d \in 1 .. n /\ e \in 1 .. n
        BY <1>2, <1>15, <2>3, <3>2, OneMore
      <4> QED
        BY <1>9, <1>14, <2>3, <4>1
    <3> QED
      BY <3>1, <3>2
  <2>4. \A d \in 1 .. n + 1 : drivers'[d].base <= k + 1
    BY <1>a, <2>2, Successor, Zenon
  <2> QED
    BY <1>4, <1>5, <2>3, <2>4 DEF Bases
<1>21. Targets'
  <2> SUFFICES ASSUME NEW d \in 1 .. n + 1 PROVE HasTarget(d)'
    BY <1>4 DEF Targets
  <2>1. CASE d = n + 1
    <3>1. Top(d)' = k + 1
      BY <1>4, <1>5, <2>1 DEF Top
    <3>2. drivers'[d].base + 1 = k + 1 /\ frames'[k + 1].id = drivers'[d].target
      BY <1>3, <1>4, <1>5, <2>1
    <3>3. k + 1 \in k + 1 .. k + 1
      BY <1>2
    <3> QED
      BY <3>1, <3>2, <3>3 DEF HasTarget
  <2>2. CASE d = n
    <3>1. d # n + 1 /\ drivers'[d + 1].base = k
      BY <1>2, <1>3, <1>4, <2>2, OneMore, BelowLast
    <3>2. Top(d)' = k
      BY <1>4, <3>1 DEF Top
    <3>3. drivers[n].base \in Nat
      BY <1>2, <1>9, BelowLast
    <3>4. \A i \in drivers[n].base + 1 .. k : frames'[i] = stack[i]
      BY <1>2, <1>5, <3>3
    <3> QED
      BY <1>11, <1>13, <2>2, <3>2, <3>4 DEF HasTarget
  <2>3. CASE d \in 1 .. n /\ d # n
    <3>1. d \in 1 .. n - 1 /\ d + 1 \in 1 .. n /\ d # n + 1
      BY <1>2, <1>13, <2>3, BelowLast, OneMore
    <3>2. Top(d)' = drivers[d + 1].base
      BY <1>4, <1>14, <3>1 DEF Top
    <3>3. drivers[d + 1].base \in 0 .. k /\ drivers[d].base \in Nat
      BY <1>9, <1>10, <2>3, <3>1
    <3>4. \A i \in drivers[d].base + 1 .. drivers[d + 1].base : frames'[i] = stack[i]
      <4>1. k \in Nat
        BY <1>2
      <4>2. \A i \in drivers[d].base + 1 .. drivers[d + 1].base : i \in 1 .. k
        BY <3>3, <4>1, SegmentBelow, Zenon
      <4> QED
        BY <1>5, <4>2
    <3>5. drivers'[d] = drivers[d]
      BY <1>13, <3>1
    <3>6. CASE drivers[d].held.id = drivers[d].target
      BY <3>5, <3>6 DEF HasTarget
    <3>7. CASE \E i \in drivers[d].base + 1 .. drivers[d + 1].base :
                 stack[i].id = drivers[d].target
      BY <3>2, <3>4, <3>5, <3>7 DEF HasTarget
    <3> QED
      BY <1>10, <3>1, <3>6, <3>7
  <2> QED
    BY <1>15, <2>1, <2>2, <2>3
<1>inv. IInv'
  BY <1>6, <1>17, <1>18, <1>19, <1>20, <1>21 DEF IInv
<1> QED
  BY <1>chain, <1>inv DEF Preserved

(* The innermost driver returns to an instruction: the frame that the      *)
(* driver below holds goes back to the stack.                              *)
LEMMA ReturnStep ==
  ASSUME IInv, drivers # <<>>, NEW frame, NEW stack, InHand(frame, stack),
         NEW p \in Nat \ {0}, Len(drivers) = p + 1,
         ReturnsTo(p),
         frames' = Append(stack, drivers[p].held), nextId' = nextId, signal' = "none",
         leaked' = leaked, frame.id = top.target
  PROVE  Preserved
<1>chain. KeepsChain
  BY ReturnLinks
<1>u. /\ drivers' \in Seq(DriverRec) /\ Len(drivers') = p
      /\ \A d \in 1 .. p :
           /\ drivers'[d].target = drivers[d].target
           /\ drivers'[d].base = drivers[d].base
           /\ drivers'[d].held = IF d = p THEN NoFrame ELSE drivers[d].held
           /\ d = p => drivers'[d].tries = <<>>
  BY DEF ReturnsTo
<1> USE <1>u
<1> DEFINE k == Len(stack)
           g == drivers[p].held
<1>1. /\ AtHand(frame, stack) /\ stack \in Seq(Frame)
      /\ p \in 1 .. p /\ Len(drivers) - 1 = p /\ p + 1 \in 1 .. Len(drivers)
  BY HandFacts, BelowLast DEF InHand
<1>2. \A d \in 1 .. p :
        /\ drivers[d].held \in Frame /\ drivers[d].held # NoFrame
        /\ drivers[d].held.id \in Nat \ {0} /\ drivers[d].held.id < nextId
        /\ \A i \in 1 .. k : stack[i].id # drivers[d].held.id
        /\ \A e \in 1 .. p : drivers[d].held.id = drivers[e].held.id => d = e
  BY <1>1 DEF AtHand, HandIds
<1>3. /\ \A i \in 1 .. k : stack[i].id \in Nat \ {0} /\ stack[i].id < nextId
      /\ \A i, j \in 1 .. k : stack[i].id = stack[j].id => i = j
  BY <1>1 DEF AtHand, HandIds
<1>4. k \in Nat /\ DOMAIN drivers' = 1 .. p
  BY <1>1, LenProperties DEF AtHand, HandSizes
<1>5. /\ frames' \in Seq(Frame) /\ Len(frames') = k + 1 /\ DOMAIN frames' = 1 .. k + 1
      /\ \A i \in 1 .. k : frames'[i] = stack[i]
      /\ frames'[k + 1] = g
  BY <1>1, <1>2, AppendProperties, LenProperties
<1>6. /\ \A d \in 1 .. p : d \in 1 .. Len(drivers)
      /\ \A d \in 1 .. Len(drivers) : drivers[d].base \in Nat /\ drivers[d].base <= k
      /\ \A d, e \in 1 .. Len(drivers) : d <= e => drivers[d].base <= drivers[e].base
  BY <1>1 DEF AtHand, HandBases
<1>7. \A d \in 1 .. p :
        /\ drivers[d + 1].base \in 0 .. k
        /\ \/ drivers[d].held.id = drivers[d].target
           \/ \E i \in drivers[d].base + 1 .. drivers[d + 1].base :
                 stack[i].id = drivers[d].target
  <2>1. OwnBelow(stack)
    BY AllTargetsBelow
  <2> QED
    BY <1>1, <2>1 DEF OwnBelow
<1>8. Types'
  BY <1>5 DEF IInv, Types
<1> HIDE DEF k, g
<1>9. \A i \in 1 .. k + 1 : i # k + 1 => i \in 1 .. k
  BY <1>4, OneMore
<1>10. NoFrame.id = 0 /\ 0 < nextId
  BY FrameIds, BoundsAssumption DEF IInv, Types
<1>11. g.id \in Nat \ {0} /\ g.id < nextId /\ \A i \in 1 .. k : stack[i].id # g.id
  BY <1>1, <1>2 DEF g
<1>12. \A i \in 1 .. k + 1 : frames'[i].id < nextId /\ frames'[i].id # 0
  BY <1>3, <1>5, <1>9, <1>11
<1>13. Fresh'
  <2>1. \A d \in 1 .. p : drivers'[d].held.id < nextId
    BY <1>2, <1>10
  <2> QED
    BY <1>4, <1>5, <1>12, <2>1 DEF Fresh
<1>14. Once'
  <2>1. ASSUME NEW i \in 1 .. k + 1, NEW j \in 1 .. k + 1, frames'[i].id = frames'[j].id
        PROVE  i = j
    <3>1. \A h \in 1 .. k : frames'[h].id # frames'[k + 1].id
      BY <1>5, <1>11
    <3>2. \A c, h \in 1 .. k : frames'[c].id = frames'[h].id => c = h
      BY <1>3, <1>5
    <3> QED
      BY <1>9, <2>1, <3>1, <3>2
  <2>2. ASSUME NEW d \in 1 .. p, NEW e \in 1 .. p,
               drivers'[d].held.id # 0, drivers'[d].held.id = drivers'[e].held.id
        PROVE  d = e
    <3>1. d # p /\ e # p
      BY <1>10, <2>2
    <3> QED
      BY <1>2, <2>2, <3>1
  <2>3. ASSUME NEW i \in 1 .. k + 1, NEW d \in 1 .. p
        PROVE  frames'[i].id # drivers'[d].held.id
    <3>1. CASE d = p
      BY <1>10, <1>12, <3>1
    <3>2. CASE d # p
      <4>1. drivers'[d].held.id = drivers[d].held.id /\ g.id # drivers[d].held.id
        <5>1. drivers'[d].held.id = drivers[d].held.id
          BY <3>2
        <5>2. g.id = drivers[d].held.id => d = p
          BY <1>1, <1>2 DEF g
        <5> QED
          BY <3>2, <5>1, <5>2
      <4>2. ASSUME NEW h \in 1 .. k PROVE frames'[h].id # drivers[d].held.id
        <5>1. stack[h].id # drivers[d].held.id
          BY <1>2
        <5> QED
          BY <1>5, <5>1
      <4> QED
        BY <1>5, <1>9, <4>1, <4>2
    <3> QED
      BY <3>1, <3>2
  <2> QED
    BY <1>4, <1>5, <2>1, <2>2, <2>3 DEF Once
<1>15. Waiting'
  <2>1. \A d \in 1 .. p : d # p => drivers'[d].held # NoFrame
    BY <1>2
  <2> QED
    BY <1>4, <2>1 DEF Waiting
<1>16. Bases'
  <2>1. \A d, e \in 1 .. p : d <= e => drivers'[d].base <= drivers'[e].base
    BY <1>6
  <2>2. \A d \in 1 .. p : drivers'[d].base <= k + 1
    BY <1>4, <1>6, Successor, Zenon
  <2> QED
    BY <1>4, <1>5, <2>1, <2>2 DEF Bases
<1>17. Targets'
  <2> SUFFICES ASSUME NEW d \in 1 .. p PROVE HasTarget(d)'
    BY <1>4 DEF Targets
  <2>1. drivers[d].base \in Nat /\ drivers[d].base <= k
    BY <1>6
  <2>2. CASE d = p
    <3>1. Top(d)' = k + 1
      BY <1>5, <2>2 DEF Top
    <3>2. CASE g.id = drivers[d].target
      <4>1. k + 1 \in drivers[d].base + 1 .. k + 1
        BY <1>4, <2>1
      <4> QED
        BY <1>5, <3>1, <3>2, <4>1 DEF HasTarget
    <3>3. CASE \E i \in drivers[d].base + 1 .. drivers[d + 1].base :
                 stack[i].id = drivers[d].target
      <4>1. drivers[d + 1].base \in 0 .. k
        BY <1>7
      <4>2. \A i \in drivers[d].base + 1 .. drivers[d + 1].base :
              i \in 1 .. k /\ i \in drivers[d].base + 1 .. k + 1
        BY <1>4, <2>1, <4>1
      <4> QED
        BY <1>5, <3>1, <3>3, <4>2 DEF HasTarget
    <3> QED
      BY <1>7, <2>2, <3>2, <3>3 DEF g
  <2>3. CASE d # p
    <3>1. d + 1 \in 1 .. p
      BY <2>3
    <3>2. Top(d)' = drivers[d + 1].base
      BY <2>3, <3>1 DEF Top
    <3>3. drivers[d + 1].base \in 0 .. k
      BY <1>7
    <3>4. \A i \in drivers[d].base + 1 .. drivers[d + 1].base : frames'[i] = stack[i]
      <4>1. \A i \in drivers[d].base + 1 .. drivers[d + 1].base : i \in 1 .. k
        BY <1>4, <2>1, <3>3, SegmentBelow, Zenon
      <4> QED
        BY <1>5, <4>1
    <3>5. drivers'[d].held = drivers[d].held /\ drivers'[d].target = drivers[d].target
      BY <2>3
    <3>6. CASE drivers[d].held.id = drivers[d].target
      BY <3>5, <3>6 DEF HasTarget
    <3>7. CASE \E i \in drivers[d].base + 1 .. drivers[d + 1].base :
                 stack[i].id = drivers[d].target
      BY <3>2, <3>4, <3>5, <3>7 DEF HasTarget
    <3> QED
      BY <1>7, <3>6, <3>7
  <2> QED
    BY <2>2, <2>3
<1>inv. IInv'
  BY <1>8, <1>13, <1>14, <1>15, <1>16, <1>17 DEF IInv
<1> QED
  BY <1>chain, <1>inv DEF Preserved
-----------------------------------------------------------------------------
LEMMA DriversUnchanged ==
  ASSUME IInv, drivers # <<>>, drivers' = drivers
  PROVE  /\ TopBecomes(top.held, top.tries)
         /\ top.tries \in Seq(TryContext) /\ top \in DriverRec
<1>1. /\ drivers \in Seq(DriverRec) /\ top = drivers[Len(drivers)] /\ top \in DriverRec
  BY TopFacts DEF IInv, Types
<1> QED
  BY <1>1 DEF TopBecomes, DriverRec

LEMMA FrameOfTop ==
  ASSUME IInv, drivers # <<>>
  PROVE  /\ top \in DriverRec /\ top.tries \in Seq(TryContext)
         /\ top.held \in Frame \union {NoFrame}
         /\ top.held = NoFrame => top.tries = <<>>
         /\ NoFrame \in Frame \union {NoFrame} /\ <<>> \in Seq(TryContext)
<1>1. /\ top \in DriverRec /\ top = drivers[Len(drivers)] /\ Len(drivers) \in DOMAIN drivers
  BY TopFacts, Domains, BelowLast DEF IInv
<1>2. top.tries \in Seq(TryContext) /\ top.held \in Frame \union {NoFrame}
  BY <1>1 DEF DriverRec
<1>3. top.held = NoFrame => top.tries = <<>>
  BY <1>1 DEF IInv, Waiting
<1> QED
  BY <1>1, <1>2, <1>3, EmptySeq

(* What replaces the innermost driver. *)
LEMMA HeldChanges ==
  ASSUME IInv, drivers # <<>>, NEW h \in Frame \union {NoFrame},
         drivers' = SetTop([top EXCEPT !.held = h])
  PROVE  TopBecomes(h, top.tries)
<1>1. top \in DriverRec /\ top.tries \in Seq(TryContext)
  BY FrameOfTop
<1>2. [top EXCEPT !.held = h] = With(top, h, top.tries)
  BY <1>1, Updates, Zenon
<1>3. drivers' = SetTop(With(top, h, top.tries))
  BY <1>2, Zenon
<1> QED
  BY <1>1, <1>3, TopChanges DEF IInv

LEMMA TriesChange ==
  ASSUME IInv, drivers # <<>>, NEW ts \in Seq(TryContext),
         drivers' = SetTop([top EXCEPT !.tries = ts])
  PROVE  TopBecomes(top.held, ts)
<1>1. top \in DriverRec /\ top.held \in Frame \union {NoFrame}
  BY FrameOfTop
<1>2. [top EXCEPT !.tries = ts] = With(top, top.held, ts)
  BY <1>1, Updates, Zenon
<1>3. drivers' = SetTop(With(top, top.held, ts))
  BY <1>2, Zenon
<1> QED
  BY <1>1, <1>3, TopChanges DEF IInv

LEMMA DriverFailsStep == ASSUME IInv, DriverFails PROVE Preserved
<1>1. /\ drivers # <<>> /\ drivers' = Front(drivers)
      /\ frames' = frames /\ nextId' = nextId /\ signal' = signal
      /\ leaked' = leaked \union {frames[i].id : i \in top.base + 1 .. Len(frames)}
  BY DEF DriverFails
<1>2. /\ frames \in Seq(Frame) /\ Len(frames) \in Nat /\ signal \in Outcomes \union {"none"}
      /\ top = drivers[Len(drivers)] /\ Len(drivers) \in DOMAIN drivers
  BY <1>1, Domains, TopFacts, BelowLast DEF IInv, Types
<1>3. top.base <= Len(frames)
  BY <1>2 DEF IInv, Bases
<1>4. leaked' = {} /\ Chain => LowerLinks(frames') /\ Len(frames') = top.base
  <2> SUFFICES ASSUME leaked' = {}, Chain
               PROVE  LowerLinks(frames) /\ Len(frames) = top.base
    BY <1>1
  <2>1. leaked = {} /\ \A i \in top.base + 1 .. Len(frames) : FALSE
    BY <1>1
  <2>2. top.base \in Nat
    BY <1>1, TopFacts DEF IInv, DriverRec
  <2>3. Len(frames) = top.base
    <3>1. ASSUME top.base < Len(frames) PROVE FALSE
      <4>1. Len(frames) \in top.base + 1 .. Len(frames)
        BY <1>2, <2>2, <3>1
      <4> QED
        BY <2>1, <4>1
    <3> QED
      BY <1>2, <1>3, <2>2, <3>1
  <2>4. Links /\ Len(drivers) \in Nat \ {0}
    BY <1>1, <2>1, TopFacts DEF Chain, IInv
  <2>5. LowerLinks(frames)
    BY <2>4, BelowLast DEF Links, LowerLinks, Top
  <2> QED
    BY <2>3, <2>5
<1>5. /\ frames' \in Seq(Frame) /\ Len(frames') <= Len(frames) /\ top.base <= Len(frames')
      /\ \A i \in 1 .. Len(frames') : frames'[i] = frames[i]
      /\ signal' \in Outcomes \union {"none"}
  BY <1>1, <1>2, <1>3
<1> QED
  BY <1>1, <1>4, <1>5, LeaveStep

LEMMA FrameFailsStep == ASSUME IInv, FrameFails PROVE Preserved
<1>1. /\ Direct /\ drivers # <<>> /\ top.held = NoFrame /\ top.tries = <<>>
      /\ frames' = Front(frames) /\ drivers' = drivers /\ nextId' = nextId /\ leaked' = leaked
      /\ signal' \in Outcomes \union {"none"} /\ signal' # "none"
  BY Running DEF FrameFails, Direct, Errors, Outcomes
<1>2. InHand(Last(frames), Front(frames))
  BY <1>1, PoppedInHand
<1>3. TopBecomes(NoFrame, <<>>)
  BY <1>1, DriversUnchanged
<1> QED
  BY <1>1, <1>2, <1>3, DropStep

LEMMA RegionEndsStep == ASSUME IInv, RegionEnds PROVE Preserved
<1>1. /\ drivers # <<>> /\ top.held # NoFrame
      /\ frames' = frames /\ drivers' = drivers /\ nextId' = nextId /\ leaked' = leaked
      /\ signal' \in Outcomes \union {"none"}
  BY DEF RegionEnds, InTry, Errors, Outcomes
<1>2. InHand(top.held, frames)
  BY <1>1, HeldInHand
<1>3. TopBecomes(top.held, top.tries) /\ top.tries \in Seq(TryContext)
  BY <1>1, DriversUnchanged
<1> QED
  BY <1>1, <1>2, <1>3, HoldStep

LEMMA NestedCallStep == ASSUME IInv, NestedCall PROVE Preserved
<1> DEFINE rest == IF Direct THEN Front(frames) ELSE frames
           f == NewFrame(current.id, FALSE, Handles)
           w == With(top, current, top.tries)
<1>1. /\ Direct \/ InTry
      /\ drivers # <<>> /\ signal = "none" /\ signal' = "none"
      /\ nextId <= MaxFrames /\ nextId' = nextId + 1 /\ leaked' = leaked
      /\ frames' = Append(rest, f)
      /\ drivers' = Append(SetTop([top EXCEPT !.held = current]), NewDriver(Len(rest)))
  BY DEF NestedCall, Direct, InTry
<1>2. InHand(current, rest)
  <2>1. CASE Direct
    BY <2>1, PoppedInHand DEF Direct, current
  <2>2. CASE ~Direct
    BY <1>1, <2>2, HeldInHand DEF InTry, current
  <2> QED
    BY <2>1, <2>2
<1>3. current \in Frame
  BY <1>1, CurrentFrame
<1>4. f \in Frame /\ f.id = nextId /\ ~f.direct /\ CalledBy(f, current)
  BY <1>1, <1>3, BoundsAssumption DEF IInv, Types, NewFrame, Handles, Frame, Ids, CalledBy
<1>5. top \in DriverRec /\ top.tries \in Seq(TryContext)
  BY <1>1, FrameOfTop
<1>6. w \in DriverRec /\ [top EXCEPT !.held = current] = w
  BY <1>3, <1>5, Updates, Zenon
<1>7. w.target = top.target /\ w.base = top.base /\ w.held = current
  BY DEF With
<1>8. drivers' = Append(SetTop(w), NewDriver(Len(rest)))
  BY <1>1, <1>6, Zenon
<1> HIDE DEF rest, f, w
<1> QED
  BY <1>1, <1>2, <1>4, <1>6, <1>7, <1>8, NestStep

LEMMA EnterTryChanges ==
  ASSUME IInv, EnterTry
  PROVE  \E ts \in Seq(TryContext) :
           Len(ts) = Len(top.tries) + 1 /\ TopBecomes(current, ts)
<1>1. drivers # <<>> /\ current \in Frame \union {NoFrame}
  BY CurrentFrame DEF EnterTry, Direct, InTry
<1>2. top \in DriverRec /\ top.tries \in Seq(TryContext)
  BY <1>1, FrameOfTop
<1>3. PICK final \in BOOLEAN :
        drivers' = SetTop([top EXCEPT
          !.held = current,
          !.tries = Append(@, [stage |-> "body", final |-> final, pending |-> "none"])])
  BY DEF EnterTry
<1> DEFINE c == [stage |-> "body", final |-> final, pending |-> "none"]
           ts == Append(top.tries, c)
<1>4. c \in TryContext
  BY DEF TryContext, Stages
<1>5. ts \in Seq(TryContext) /\ Len(ts) = Len(top.tries) + 1
  BY <1>2, <1>4, AppendProperties
<1>6. drivers' = SetTop([top EXCEPT !.held = current, !.tries = ts])
  BY <1>3
<1> HIDE DEF ts, c
<1>7. [top EXCEPT !.held = current, !.tries = ts] = With(top, current, ts)
  BY <1>1, <1>2, <1>5, BothUpdates, Zenon
<1>8. drivers' = SetTop(With(top, current, ts))
  BY <1>6, <1>7, Zenon
<1>9. TopBecomes(current, ts)
  BY <1>1, <1>5, <1>8, TopChanges DEF IInv
<1> QED
  BY <1>5, <1>9

LEMMA EnterTryStep == ASSUME IInv, EnterTry PROVE Preserved
<1> DEFINE rest == IF Direct THEN Front(frames) ELSE frames
<1>1. /\ Direct \/ InTry
      /\ drivers # <<>> /\ frames' = rest /\ nextId' = nextId /\ leaked' = leaked
      /\ signal' = signal /\ signal \in Outcomes \union {"none"}
  BY DEF EnterTry, Direct, InTry, IInv, Types
<1>2. InHand(current, rest)
  <2>1. CASE Direct
    BY <2>1, PoppedInHand DEF Direct, current
  <2>2. CASE ~Direct
    BY <1>1, <2>2, HeldInHand DEF InTry, current
  <2> QED
    BY <2>1, <2>2
<1>3. PICK ts \in Seq(TryContext) : TopBecomes(current, ts)
  BY EnterTryChanges
<1> HIDE DEF rest
<1> QED
  BY <1>1, <1>2, <1>3, HoldStep

(* What follows the end of a region changes the tries of the driver only. *)
ChangesTries ==
  /\ drivers # <<>> /\ top.tries # <<>>
  /\ frames' = frames /\ nextId' = nextId /\ leaked' = leaked /\ signal' \in Outcomes \union {"none"}
  /\ \E ts \in Seq(TryContext) : drivers' = SetTop([top EXCEPT !.tries = ts])

LEMMA TriesStep == ASSUME IInv, ChangesTries PROVE Preserved
<1>1. PICK ts \in Seq(TryContext) : drivers' = SetTop([top EXCEPT !.tries = ts])
  BY DEF ChangesTries
<1>2. /\ drivers # <<>> /\ frames' = frames /\ nextId' = nextId /\ leaked' = leaked
      /\ signal' \in Outcomes \union {"none"} /\ top.held # NoFrame
  BY FrameOfTop DEF ChangesTries
<1>3. TopBecomes(top.held, ts) /\ InHand(top.held, frames)
  BY <1>1, <1>2, TriesChange, HeldInHand
<1> QED
  BY <1>2, <1>3, HoldStep

(* A driver in a try: its contexts. *)
LEMMA ContextFacts ==
  ASSUME IInv, drivers # <<>>, top.tries # <<>>
  PROVE  /\ context \in TryContext /\ Front(top.tries) \in Seq(TryContext)
         /\ context.pending \in Outcomes \union {"none"}
         /\ signal \in Outcomes \union {"none"}
<1>1. context \in TryContext /\ Front(top.tries) \in Seq(TryContext)
  BY FrameOfTop, FrontFacts DEF context
<1> QED
  BY <1>1 DEF TryContext, IInv, Types

LEMMA EnterTries ==
  ASSUME IInv, drivers # <<>>, top.tries # <<>>, NEW stage \in Stages,
         NEW pending \in Outcomes \union {"none"}, Enter(stage, pending)
  PROVE  \E ts \in Seq(TryContext) :
           Len(ts) = Len(top.tries) /\ drivers' = SetTop([top EXCEPT !.tries = ts])
<1> DEFINE c == [context EXCEPT !.stage = stage, !.pending = pending]
           ts == Append(Front(top.tries), c)
<1>1. c \in TryContext
  <2>1. \A x \in TryContext : [x EXCEPT !.stage = stage, !.pending = pending] \in TryContext
    BY DEF TryContext
  <2> QED
    BY <2>1, ContextFacts, Zenon
<1>2. /\ Front(top.tries) \in Seq(TryContext) /\ Len(top.tries) \in Nat \ {0}
      /\ Len(Front(top.tries)) = Len(top.tries) - 1
  BY FrameOfTop, FrontFacts
<1>3. ts \in Seq(TryContext) /\ Len(ts) = Len(Front(top.tries)) + 1
  BY <1>1, <1>2, AppendProperties
<1>4. drivers' = SetTop([top EXCEPT !.tries = ts])
  BY DEF Enter
<1> HIDE DEF ts
<1>5. Len(ts) = Len(top.tries)
  BY <1>2, <1>3
<1> QED
  BY <1>3, <1>4, <1>5, Zenon

LEMMA EnterChanges ==
  ASSUME IInv, drivers # <<>>, top.tries # <<>>, NEW stage \in Stages,
         NEW pending \in Outcomes \union {"none"}, Enter(stage, pending)
  PROVE  ChangesTries
<1>1. \E ts \in Seq(TryContext) : drivers' = SetTop([top EXCEPT !.tries = ts])
  BY EnterTries
<1>2. frames' = frames /\ nextId' = nextId /\ leaked' = leaked /\ signal' \in Outcomes \union {"none"}
  BY DEF Enter
<1> QED
  BY <1>1, <1>2, Zenon DEF ChangesTries

LEMMA LeaveChanges ==
  ASSUME IInv, drivers # <<>>, top.tries # <<>>,
         NEW outcome \in Outcomes \union {"none"}, Leave(outcome)
  PROVE  ChangesTries
<1> DEFINE ts == Front(top.tries)
<1>1. ts \in Seq(TryContext)
  BY ContextFacts
<1>2. drivers' = SetTop([top EXCEPT !.tries = ts])
  BY DEF Leave
<1>3. frames' = frames /\ nextId' = nextId /\ leaked' = leaked /\ signal' \in Outcomes \union {"none"}
  BY DEF Leave
<1> HIDE DEF ts
<1> QED
  BY <1>1, <1>2, <1>3, Zenon DEF ChangesTries

LEMMA ToFinallyChanges ==
  ASSUME IInv, drivers # <<>>, top.tries # <<>>,
         NEW outcome \in Outcomes \union {"none"}, ToFinally(outcome)
  PROVE  ChangesTries
<1>1. "finally" \in Stages
  BY DEF Stages
<1> QED
  BY <1>1, EnterChanges, LeaveChanges DEF ToFinally

LEMMA TryEndsStep ==
  ASSUME IInv, BodyEnds \/ CleanupEnds \/ CleanupFails \/ HandlerEnds \/ FinallyEnds
  PROVE  Preserved
<1>1. drivers # <<>> /\ top.tries # <<>>
  BY DEF BodyEnds, CleanupEnds, CleanupFails, HandlerEnds, FinallyEnds, Ended
<1>2. /\ signal \in Outcomes \union {"none"} /\ context.pending \in Outcomes \union {"none"}
      /\ "Fault" \in Outcomes /\ {"cleanup", "handler", "else"} \subseteq Stages
  BY <1>1, ContextFacts DEF Outcomes, Errors, Stages
<1>3. CASE BodyEnds
  BY <1>1, <1>2, <1>3, ToFinallyChanges, EnterChanges, TriesStep DEF BodyEnds
<1>4. CASE CleanupEnds
  BY <1>1, <1>2, <1>4, ToFinallyChanges, EnterChanges, TriesStep DEF CleanupEnds
<1>5. CASE CleanupFails
  BY <1>1, <1>2, <1>5, LeaveChanges, TriesStep DEF CleanupFails
<1>6. CASE HandlerEnds
  BY <1>1, <1>2, <1>6, ToFinallyChanges, TriesStep DEF HandlerEnds
<1>7. CASE FinallyEnds
  <2>1. (IF signal = "Normal" THEN context.pending ELSE signal) \in Outcomes \union {"none"}
    BY <1>2
  <2> QED
    BY <1>1, <1>7, <2>1, LeaveChanges, TriesStep DEF FinallyEnds
<1> QED
  BY <1>3, <1>4, <1>5, <1>6, <1>7

(* The driver that is left when the innermost one returns. *)
LEMMA FinishTargetStep ==
  ASSUME IInv, drivers # <<>>, NEW frame, NEW stack, InHand(frame, stack),
         FinishTarget(frame, stack)
  PROVE  Preserved
<1> DEFINE below == Front(drivers)
<1>1. /\ drivers' = Resume(below) /\ frames' = ResumeStack(below, stack)
      /\ signal' = "none" /\ nextId' = nextId /\ leaked' = leaked
      /\ "none" \in Outcomes \union {"none"} /\ frame.id = top.target
  BY DEF FinishTarget
<1>2. /\ below \in Seq(DriverRec) /\ Len(drivers) \in Nat \ {0}
      /\ Len(below) = Len(drivers) - 1
      /\ \A d \in 1 .. Len(drivers) - 1 : below[d] = drivers[d]
  BY FrontFacts DEF IInv, Types
<1>3. /\ stack \in Seq(Frame) /\ Len(stack) <= Len(frames) /\ top.base <= Len(stack)
      /\ \A i \in 1 .. Len(stack) : stack[i] = frames[i]
  BY DEF InHand
<1> HIDE DEF below
<1>4. CASE below = <<>> \/ Last(below).tries # <<>>
  <2>1. drivers' = below /\ frames' = stack
    BY <1>1, <1>4 DEF Resume, ResumeStack
  <2>2. drivers' = Front(drivers)
    BY <2>1 DEF below
  <2>3. leaked' = {} /\ Chain => LowerLinks(frames') /\ Len(frames') = top.base
    <3> SUFFICES ASSUME Links PROVE LowerLinks(stack) /\ Len(stack) = top.base
      BY <1>1, <2>1 DEF Chain
    <3>1. HandLinks(frame, stack)
      BY DEF InHand
    <3> QED
      BY <1>1, <3>1, TargetAtBase DEF HandLinks
  <2> QED
    BY <1>1, <1>3, <2>1, <2>2, <2>3, LeaveStep
<1>5. CASE below # <<>> /\ Last(below).tries = <<>>
  <2> DEFINE p == Len(below)
  <2>1. /\ p \in Nat \ {0} /\ Last(below) = below[p] /\ Len(drivers) = p + 1
        /\ \A d \in 1 .. p : below[d] = drivers[d] /\ below[d] \in DriverRec
    <3>1. p \in Nat \ {0} /\ Last(below) = below[p]
      BY <1>2, <1>5, FrontFacts
    <3>2. Len(drivers) = p + 1 /\ Len(drivers) - 1 = p
      BY <1>2
    <3> QED
      BY <1>2, <3>1, <3>2, ElementOfSeq
  <2>2. /\ drivers' = [below EXCEPT ![p].held = NoFrame]
        /\ frames' = Append(stack, below[p].held)
    BY <1>1, <1>5, <2>1 DEF Resume, ResumeStack
  <2> HIDE DEF p
  <2>3. p \in 1 .. p /\ p = Len(below)
    BY <2>1, BelowLast DEF p
  <2> DEFINE w == With(below[p], NoFrame, below[p].tries)
  <2>4. w \in DriverRec /\ [below[p] EXCEPT !.held = NoFrame] = w
    <3>1. below[p].tries \in Seq(TryContext) /\ NoFrame \in Frame \union {NoFrame}
      BY <2>1, <2>3 DEF DriverRec
    <3> QED
      BY <2>1, <2>3, <3>1, Updates, Zenon
  <2>5. drivers' = [below EXCEPT ![p] = w]
    BY <2>2, <2>4, Zenon
  <2>6. /\ w.target = below[p].target /\ w.base = below[p].base
        /\ w.held = NoFrame /\ w.tries = below[p].tries
    BY DEF With
  <2> HIDE DEF w
  <2>7. /\ drivers' \in Seq(DriverRec) /\ Len(drivers') = p
        /\ \A d \in 1 .. p : drivers'[d] = IF d = p THEN w ELSE below[d]
    BY <1>2, <2>3, <2>4, <2>5, ExceptSeq
  <2>8. \A d \in 1 .. p :
          /\ drivers'[d].target = drivers[d].target
          /\ drivers'[d].base = drivers[d].base
          /\ drivers'[d].held = IF d = p THEN NoFrame ELSE drivers[d].held
          /\ d = p => drivers'[d].tries = <<>>
    BY <1>5, <2>1, <2>6, <2>7
  <2>9. frames' = Append(stack, drivers[p].held)
    BY <2>1, <2>2, <2>3
  <2>10. ReturnsTo(p)
    BY <2>7, <2>8 DEF ReturnsTo
  <2>11. p \in Nat \ {0} /\ Len(drivers) = p + 1
    BY <2>1
  <2> QED
    BY <1>1, <2>9, <2>10, <2>11, ReturnStep
<1> QED
  BY <1>4, <1>5

LEMMA FinishStep ==
  ASSUME IInv, drivers # <<>>, top.tries = <<>>,
         NEW frame, NEW stack, InHand(frame, stack), Finish(frame, stack)
  PROVE  Preserved
<1>2. ASSUME drivers' = SetTop([top EXCEPT !.held = NoFrame])
      PROVE  TopBecomes(NoFrame, <<>>)
  BY <1>2, FrameOfTop, HeldChanges
<1>3. CASE FinishTarget(frame, stack)
  BY <1>3, FinishTargetStep
<1>4. CASE FinishChild(frame, stack)
  <2>1. /\ frames' = stack /\ nextId' = nextId /\ leaked' = leaked /\ signal' \in Outcomes \union {"none"}
        /\ frame.id # top.target /\ TopBecomes(NoFrame, <<>>)
    BY <1>2, <1>4 DEF FinishChild
  <2> QED
    BY <2>1, DropStep
<1>5. CASE FinishLost(frame, stack)
  <2>1. /\ frames' = stack /\ nextId' = nextId /\ leaked' = leaked /\ signal' \in Outcomes \union {"none"}
        /\ signal' # "none" /\ TopBecomes(NoFrame, <<>>)
    BY <1>2, <1>5 DEF FinishLost, Outcomes, Errors
  <2> QED
    BY <2>1, DropStep
<1> QED
  BY <1>3, <1>4, <1>5 DEF Finish

LEMMA ReturnsStep == ASSUME IInv, FrameReturns \/ TryReturns PROVE Preserved
<1>1. CASE FrameReturns
  <2>1. /\ Direct /\ drivers # <<>> /\ top.tries = <<>>
        /\ Finish(Last(frames), Front(frames))
    BY <1>1, Running DEF FrameReturns, Direct
  <2> QED
    BY <2>1, PoppedInHand, FinishStep
<1>2. CASE TryReturns
  <2>1. /\ drivers # <<>> /\ top.held # NoFrame /\ top.tries = <<>>
        /\ Finish(top.held, frames)
    BY <1>2 DEF TryReturns, TryOver
  <2> QED
    BY <2>1, HeldInHand, FinishStep
<1> QED
  BY <1>1, <1>2

LEMMA TryContinuesStep == ASSUME IInv, TryContinues PROVE Preserved
<1>1. /\ drivers # <<>> /\ top.held # NoFrame /\ top.tries = <<>>
      /\ frames' = Append(frames, top.held)
      /\ drivers' = SetTop([top EXCEPT !.held = NoFrame])
      /\ nextId' = nextId /\ leaked' = leaked /\ signal' = "none"
  BY DEF TryContinues, TryOver
<1>2. TopBecomes(NoFrame, <<>>)
  BY <1>1, FrameOfTop, HeldChanges
<1> QED
  BY <1>1, <1>2, HeldInHand, ResumeStep

LEMMA InitHolds == Init => IInv /\ Chain
<1> SUFFICES ASSUME Init PROVE IInv /\ Chain
  OBVIOUS
<1> DEFINE f == [id |-> 1, caller |-> 0, direct |-> FALSE, refs |-> {}]
           d == [target |-> 1, base |-> 0, held |-> NoFrame, tries |-> <<>>]
<1>1. /\ frames = <<f>> /\ drivers = <<d>> /\ nextId = 2 /\ signal = "none"
      /\ f \in Frame /\ f.id = 1 /\ d \in DriverRec /\ d.held = NoFrame
      /\ d.base = 0 /\ d.target = 1 /\ d.tries = <<>>
  BY BoundsAssumption, EmptySeq DEF Init, Frame, Ids, DriverRec
<1> HIDE DEF f, d
<1>2. /\ frames \in Seq(Frame) /\ Len(frames) = 1 /\ DOMAIN frames = 1 .. 1 /\ frames[1] = f
      /\ drivers \in Seq(DriverRec) /\ Len(drivers) = 1 /\ DOMAIN drivers = 1 .. 1
      /\ drivers[1] = d
  BY <1>1
<1>3. Types
  BY <1>1, <1>2, BoundsAssumption DEF Types
<1>4. drivers[1].held.id = 0 /\ frames[1].id = 1
  BY <1>1, <1>2, FrameIds
<1>5. Fresh
  <2>1. \A i \in 1 .. 1 : i = 1
    OBVIOUS
  <2>2. nextId = 2 /\ frames[1].id < nextId /\ drivers[1].held.id < nextId
    BY <1>1, <1>4
  <2> QED
    BY <1>2, <2>1, <2>2 DEF Fresh
<1>6. Once
  BY <1>2, <1>4 DEF Once
<1>7. Waiting /\ Bases
  BY <1>1, <1>2 DEF Waiting, Bases
<1>8. Targets
  BY <1>1, <1>2 DEF Targets, HasTarget, Top
<1>10. Chain
  <2>1. \A i \in 1 .. 1 : i = 1 /\ i = 0 + 1 /\ ~(i > 1)
    OBVIOUS
  <2>2. /\ drivers[1].base = 0 /\ drivers[1].target = 1 /\ drivers[1].held = NoFrame
        /\ frames[1].id = 1 /\ ~frames[1].direct /\ frames[1].refs = {}
    BY <1>1, <1>2 DEF f
  <2>3. Top(1) = 1
    BY <1>2 DEF Top
  <2>4. Segment(drivers, frames, 1, 1)
    BY <2>1, <2>2 DEF Segment, Linked
  <2> QED
    BY <1>2, <2>1, <2>3, <2>4 DEF Chain, Links
<1> QED
  BY <1>3, <1>5, <1>6, <1>7, <1>8, <1>10 DEF IInv

LEMMA NextPreserves == IInv /\ [Next]_vars => Preserved
<1> SUFFICES ASSUME IInv, [Next]_vars PROVE Preserved
  OBVIOUS
<1>1. CASE Code
  BY <1>1, DirectCallStep, NestedCallStep, EnterTryStep, FrameFailsStep,
     RegionEndsStep, ReturnsStep DEF Code
<1>2. CASE Unwind
  BY <1>2, ReturnsStep, TryContinuesStep, DriverFailsStep, TryEndsStep DEF Unwind
<1>3. CASE UNCHANGED vars
  <2>1. IInv'
    BY <1>3 DEF vars, IInv, Types, Fresh, Once, Waiting, Bases, Targets, HasTarget, Top
  <2>2. KeepsChain
    BY <1>3 DEF vars, KeepsChain, Chain, Links, Top
  <2> QED
    BY <2>1, <2>2 DEF Preserved
<1> QED
  BY <1>1, <1>2, <1>3 DEF Next, Over

-----------------------------------------------------------------------------
(* The inductive invariant holds of every behaviour of the machine. *)
THEOREM FramesInvariant == Spec => []IInv
<1>1. Init => IInv
  BY InitHolds
<1>2. IInv /\ [Next]_vars => IInv'
  BY NextPreserves DEF Preserved
<1> QED
  BY <1>1, <1>2, PTL DEF Spec

(* Every frame has one owner, whatever the program does and however deep. *)
THEOREM FramesStayOwned == Spec => []FramesAreOwned
<1>1. IInv => FramesAreOwned
  <2> SUFFICES ASSUME IInv PROVE FramesAreOwned
    OBVIOUS
  <2>1. EachFrameOnce
    <3>1. \A d \in DOMAIN drivers : drivers[d].held # NoFrame => drivers[d].held.id # 0
      BY Domains, FrameIds DEF IInv, DriverRec
    <3>2. OnStack \cap HeldIds = {}
      BY DEF IInv, Once, OnStack, HeldIds
    <3> QED
      BY <3>1, <3>2 DEF IInv, Once, EachFrameOnce
  <2>2. DriversKeepApart
    <3>1. Direct => Len(frames) > top.base
      BY Running, TopFacts, Domains DEF Direct, IInv, DriverRec
    <3>2. ASSUME NEW d \in 1 .. Len(drivers) - 1
          PROVE  /\ drivers[d].held # NoFrame
                 /\ drivers[d].base <= drivers[d + 1].base
                 /\ drivers[d + 1].base <= Len(frames)
      <4>1. /\ d \in DOMAIN drivers /\ d + 1 \in DOMAIN drivers
            /\ d # Len(drivers) /\ d <= d + 1
        <5>1. \A n \in Nat : \A c \in 1 .. n - 1 :
                c \in 1 .. n /\ c + 1 \in 1 .. n /\ c # n /\ c <= c + 1
          OBVIOUS
        <5> QED
          BY <5>1, Domains DEF IInv
      <4> QED
        BY <4>1 DEF IInv, Waiting, Bases
    <3> QED
      BY <3>1, <3>2 DEF DriversKeepApart
  <2> QED
    BY <2>1, <2>2 DEF FramesAreOwned
<1> QED
  BY <1>1, FramesInvariant, PTL

(* A frame resolves its handles when they lead to frames that are alive.   *)
Alive == OnStack \union HeldIds
Good(f) == f.refs \subseteq Alive
GoodSegment(d) ==
  /\ \A i \in drivers[d].base + 1 .. Top(d) : Good(frames[i])
  /\ drivers[d].held # NoFrame => Good(drivers[d].held)

(* A frame has its handles from its caller.                                *)
LEMMA CalledByGood ==
  ASSUME NEW f, NEW c, CalledBy(f, c), Good(c), c.id \in Alive
  PROVE  Good(f)
BY DEF CalledBy, Good

(* In the segment of a driver handles resolve, when they do in the frame   *)
(* that is held by the driver below.                                       *)
LEMMA SegmentResolves ==
  ASSUME IInv, Links, NEW d \in 1 .. Len(drivers), d > 1 => GoodSegment(d - 1)
  PROVE  GoodSegment(d)
<1> DEFINE b == drivers[d].base
           t == Top(d)
           at(i) == IF i = t + 1 THEN drivers[d].held ELSE frames[i]
           N == IF drivers[d].held # NoFrame THEN t + 1 - b ELSE t - b
           S == {k \in 0 .. N : k > 0 => Good(at(b + k))}
<1>1. /\ b \in Nat /\ t \in Nat /\ b <= t /\ t <= Len(frames) /\ Len(frames) \in Nat
      /\ Len(drivers) \in Nat
  <2>1. /\ Len(drivers) \in Nat /\ DOMAIN drivers = 1 .. Len(drivers) /\ Len(frames) \in Nat
        /\ \A e \in 1 .. Len(drivers) : drivers[e].base \in Nat
    BY Domains DEF IInv, DriverRec
  <2>2. d # Len(drivers) => d + 1 \in 1 .. Len(drivers)
    BY <2>1
  <2> QED
    BY <2>1, <2>2 DEF Top, IInv, Bases
<1>2. \A i \in b + 1 .. t : frames[i].id \in Alive
  BY <1>1, Domains DEF IInv, Alive, OnStack
<1>3. Segment(drivers, frames, d, t)
  BY DEF Links
<1>4. \A i \in b + 1 .. b + N : Linked(drivers, frames, d, i, at(i))
  <2>1. \A i \in b + 1 .. t : Linked(drivers, frames, d, i, frames[i]) /\ i # t + 1
    BY <1>1, <1>3 DEF Segment
  <2>2. drivers[d].held # NoFrame => Linked(drivers, frames, d, t + 1, drivers[d].held)
    BY <1>3 DEF Segment
  <2>3. \A i \in b + 1 .. b + N :
          i \in b + 1 .. t \/ (i = t + 1 /\ drivers[d].held # NoFrame)
    BY <1>1
  <2> HIDE DEF b, t, N
  <2> QED
    BY <2>1, <2>2, <2>3
<1>5. d > 1 => Good(drivers[d - 1].held) /\ drivers[d - 1].held.id \in Alive
  <2> SUFFICES ASSUME d > 1
               PROVE  Good(drivers[d - 1].held) /\ drivers[d - 1].held.id \in Alive
    OBVIOUS
  <2>1. d - 1 \in DOMAIN drivers /\ d - 1 # Len(drivers)
    BY <1>1, Domains DEF IInv
  <2>2. drivers[d - 1].held # NoFrame
    BY <2>1 DEF IInv, Waiting
  <2> QED
    BY <2>1, <2>2 DEF GoodSegment, Alive, HeldIds
<1>6. Good(at(b + 1)) \/ N = 0
  <2>1. CASE N # 0
    <3>1. b + 1 \in b + 1 .. b + N
      BY <1>1, <2>1
    <3>2. Linked(drivers, frames, d, b + 1, at(b + 1))
      BY <1>4, <3>1
    <3> HIDE DEF at, N, t
    <3>3. IF d > 1 THEN CalledBy(at(b + 1), drivers[d - 1].held) ELSE at(b + 1).refs = {}
      BY <3>2 DEF Linked
    <3> QED
      BY <1>5, <3>3, CalledByGood DEF Good
  <2> QED
    BY <2>1
<1>7. ASSUME NEW k \in 1 .. N, k - 1 \in S, k # 1
      PROVE  Good(at(b + k))
  <2>1. /\ b + k \in b + 1 .. b + N /\ b + k # b + 1 /\ k - 1 > 0 /\ k \in Nat
        /\ b + k - 1 \in b + 1 .. t /\ b + k - 1 # t + 1 /\ b + (k - 1) = b + k - 1
    BY <1>1, <1>7
  <2>2. Good(at(b + k - 1)) /\ at(b + k - 1) = frames[b + k - 1]
    BY <1>7, <2>1
  <2>3. Linked(drivers, frames, d, b + k, at(b + k))
    BY <1>4, <2>1
  <2>4. frames[b + k - 1].id \in Alive
    BY <1>2, <2>1
  <2> HIDE DEF at, N, t, S
  <2>5. CalledBy(at(b + k), frames[b + k - 1])
    BY <1>1, <2>1, <2>3 DEF Linked
  <2> QED
    BY <2>2, <2>4, <2>5, CalledByGood
<1>8. \A k \in 1 .. N : k - 1 \in S => k \in S
  <2> SUFFICES ASSUME NEW k \in 1 .. N, k - 1 \in S
               PROVE  Good(at(b + k))
    OBVIOUS
  <2>1. CASE k = 1
    BY <1>6, <2>1
  <2> QED
    BY <1>7, <2>1
<1>9. N \in Nat /\ 0 \in S
  BY <1>1
<1>10. \A k \in 0 .. N : k \in S
  <2> HIDE DEF N, S
  <2> QED
    BY <1>8, <1>9, RangeInduction
<1>11. ASSUME NEW i \in b + 1 .. b + N
       PROVE  Good(at(i))
  <2>1. i - b \in 0 .. N /\ i - b > 0 /\ b + (i - b) = i
    BY <1>1, <1>9
  <2>2. i - b \in S
    BY <1>10, <2>1
  <2>3. Good(at(b + (i - b)))
    BY <2>1, <2>2
  <2> HIDE DEF at, b, N
  <2> QED
    BY <2>1, <2>3, Zenon
<1>12. \A i \in b + 1 .. t : i \in b + 1 .. b + N /\ at(i) = frames[i]
  BY <1>1
<1>13. drivers[d].held # NoFrame => t + 1 \in b + 1 .. b + N /\ at(t + 1) = drivers[d].held
  BY <1>1
<1> HIDE DEF at, N
<1> QED
  BY <1>11, <1>12, <1>13 DEF GoodSegment

LEMMA AllResolve ==
  ASSUME IInv, Links
  PROVE  \A d \in 1 .. Len(drivers) : GoodSegment(d)
<1> DEFINE S == {d \in 0 .. Len(drivers) : d > 0 => GoodSegment(d)}
<1>1. Len(drivers) \in Nat
  BY Domains DEF IInv
<1>2. ASSUME NEW d \in 1 .. Len(drivers), d - 1 \in S
      PROVE  GoodSegment(d)
  <2>1. d > 1 => GoodSegment(d - 1)
    BY <1>2
  <2> QED
    BY <2>1, SegmentResolves
<1>3. \A d \in 0 .. Len(drivers) : d \in S
  <2>1. 0 \in S /\ \A d \in 1 .. Len(drivers) : d - 1 \in S => d \in S
    BY <1>1, <1>2
  <2> HIDE DEF S
  <2> QED
    BY <1>1, <2>1, RangeInduction
<1> QED
  BY <1>1, <1>3

(* RefsResolveUnlessHeldOrLeaked: a handle leads to a frame that is alive, *)
(* and what was called directly finds its caller on the stack, whatever    *)
(* the nesting of drivers, as long as none has failed with frames left.    *)
THEOREM HandlesResolve == Spec => []RefsResolveUnlessHeldOrLeaked
<1> DEFINE RInv == IInv /\ Chain
<1>1. Init => RInv
  BY InitHolds
<1>2. RInv /\ [Next]_vars => RInv'
  BY NextPreserves DEF Preserved, KeepsChain
<1>3. RInv => RefsResolveUnlessHeldOrLeaked
  <2> SUFFICES ASSUME IInv, Links, Direct \/ InTry
               PROVE  /\ Good(current)
                      /\ current.direct => current.caller \in OnStack
    BY DEF RefsResolveUnlessHeldOrLeaked, Chain, Good, Alive
  <2> DEFINE n == Len(drivers)
             b == top.base
  <2>1. drivers # <<>>
    BY DEF Direct, InTry
  <2>2. /\ n \in 1 .. n /\ top = drivers[n] /\ b \in Nat
        /\ Len(frames) \in Nat /\ DOMAIN frames = 1 .. Len(frames)
        /\ Top(n) = Len(frames) /\ n \in DOMAIN drivers
    BY <2>1, TopFacts, Domains, BelowLast DEF IInv, DriverRec, Top
  <2>3. GoodSegment(n) /\ Segment(drivers, frames, n, Len(frames))
    BY <2>2, AllResolve DEF Links
  <2>4. ASSUME NEW i \in b + 1 .. Len(frames) + 1, Linked(drivers, frames, n, i, current)
        PROVE  current.direct => current.caller \in OnStack
    <3> SUFFICES ASSUME current.direct PROVE current.caller \in OnStack
      OBVIOUS
    <3>1. i # b + 1 /\ current.caller = frames[i - 1].id
      BY <2>2, <2>4 DEF Linked, CalledBy
    <3>2. i - 1 \in DOMAIN frames
      BY <2>2, <3>1
    <3> QED
      BY <3>1, <3>2 DEF OnStack
  <2>5. CASE Direct
    <3>1. b < Len(frames) /\ current = frames[Len(frames)]
      BY <2>5, Running, FrontFacts DEF Direct, current, IInv, Types
    <3>2. Len(frames) \in b + 1 .. Len(frames) /\ Len(frames) \in b + 1 .. Len(frames) + 1
      BY <2>2, <3>1
    <3>3. Good(current) /\ Linked(drivers, frames, n, Len(frames), current)
      BY <2>2, <2>3, <3>1, <3>2 DEF GoodSegment, Segment
    <3> QED
      BY <2>4, <3>2, <3>3
  <2>6. CASE InTry
    <3>1. current = top.held /\ top.held # NoFrame
      BY <2>6 DEF InTry, current
    <3>2. Len(frames) + 1 \in b + 1 .. Len(frames) + 1
      BY <2>2 DEF IInv, Bases
    <3>3. Good(current) /\ Linked(drivers, frames, n, Len(frames) + 1, current)
      BY <2>2, <2>3, <3>1 DEF GoodSegment, Segment
    <3> QED
      BY <2>4, <3>2, <3>3
  <2> QED
    BY <2>5, <2>6
<1> QED
  BY <1>1, <1>2, <1>3, PTL DEF Spec

-----------------------------------------------------------------------------
(* What a returning frame hands over goes to its caller: the frame held    *)
(* below when the driver's own frame returns, else the one it was called   *)
(* from, which is now on top of the stack.                                 *)
LEMMA FinishDelivers ==
  ASSUME IInv, drivers # <<>>, Links, NEW frame, NEW stack, InHand(frame, stack),
         Finish(frame, stack), delivery.to = delivery.due
  PROVE  delivery'.to = delivery'.due
<1> DEFINE n == Len(drivers)
           k == Len(stack)
           below == Front(drivers)
<1>1. /\ drivers \in Seq(DriverRec) /\ n \in Nat \ {0} /\ top = drivers[n]
      /\ top.base \in Nat /\ stack \in Seq(Frame) /\ k \in Nat
  BY TopFacts, LenProperties DEF IInv, Types, InHand, DriverRec
<1>2. Linked(drivers, stack, n, k + 1, frame)
  BY DEF InHand, HandLinks
<1>3. CASE FinishTarget(frame, stack)
  <2>1. CASE below = <<>>
    BY <1>3, <2>1 DEF FinishTarget
  <2>2. CASE below # <<>>
    <3>1. /\ below \in Seq(DriverRec) /\ Len(below) = n - 1
          /\ \A d \in 1 .. n - 1 : below[d] = drivers[d]
      BY <1>1, FrontFacts
    <3>2. n - 1 \in Nat \ {0} /\ Last(below) = below[n - 1]
      <4> HIDE DEF below, n
      <4>1. Len(below) \in Nat \ {0} /\ Last(below) = below[Len(below)]
        BY <2>2, <3>1, FrontFacts
      <4> QED
        BY <3>1, <4>1
    <3>3. n > 1 /\ n - 1 \in 1 .. n - 1
      <4>1. \A m \in Nat : m - 1 \in Nat \ {0} => m > 1 /\ m - 1 \in 1 .. m - 1
        OBVIOUS
      <4> QED
        BY <1>1, <3>2, <4>1
    <3>4. Last(below) = drivers[n - 1]
      BY <3>1, <3>2, <3>3
    <3>5. frame.id = top.target
      BY <1>3 DEF FinishTarget
    <3>6. k + 1 = drivers[n].base + 1
      BY <1>1, <3>5, TargetAtBase
    <3>7. frame.caller = drivers[n - 1].held.id
      BY <1>2, <3>3, <3>6 DEF Linked, CalledBy
    <3>8. delivery' = [to |-> Last(below).held.id, due |-> frame.caller]
      BY <1>3, <2>2 DEF FinishTarget
    <3> QED
      BY <3>4, <3>7, <3>8
  <2> QED
    BY <2>1, <2>2
<1>4. CASE FinishChild(frame, stack)
  <2>1. /\ frame.id # drivers[n].target /\ stack # <<>>
        /\ delivery' = [to |-> Last(stack).id, due |-> frame.caller]
    BY <1>1, <1>4 DEF FinishChild
  <2>2. frame.caller = stack[(k + 1) - 1].id
    BY <1>2, <2>1 DEF Linked, CalledBy
  <2>3. \A m \in Nat : (m + 1) - 1 = m
    OBVIOUS
  <2>4. (k + 1) - 1 = k /\ Last(stack) = stack[k]
    BY <1>1, <2>1, <2>3, FrontFacts
  <2> QED
    BY <2>1, <2>2, <2>4
<1>5. CASE FinishLost(frame, stack)
  BY <1>5 DEF FinishLost
<1> QED
  BY <1>3, <1>4, <1>5 DEF Finish

(* No other step delivers a value, and what was left behind stays so.      *)
LEMMA DeliveryElsewhere ==
  ASSUME [Next]_vars, ~FrameReturns, ~TryReturns
  PROVE  delivery' = delivery /\ (leaked' = {} => leaked = {})
<1>1. CASE DirectCall \/ NestedCall \/ EnterTry \/ FrameFails \/ RegionEnds
  BY <1>1 DEF DirectCall, NestedCall, EnterTry, FrameFails, RegionEnds
<1>2. CASE TryContinues
  BY <1>2 DEF TryContinues
<1>3. CASE DriverFails
  BY <1>3 DEF DriverFails
<1>4. CASE BodyEnds \/ CleanupEnds \/ CleanupFails \/ HandlerEnds \/ FinallyEnds
  BY <1>4 DEF BodyEnds, CleanupEnds, CleanupFails, HandlerEnds, FinallyEnds,
              ToFinally, Enter, Leave
<1>5. CASE UNCHANGED vars
  BY <1>5 DEF vars
<1> QED
  BY <1>1, <1>2, <1>3, <1>4, <1>5 DEF Next, Code, Unwind, Over

(* In a run in which no driver has failed with frames left over, every     *)
(* value that a frame returns reaches the frame that made the call,        *)
(* however direct calls, nested drivers and tries interleave.              *)
THEOREM ReturnsReachCaller == Spec => []ReturnsReachCallerUnlessLeaked
<1> DEFINE CInv == IInv /\ Chain /\ ReturnsReachCallerUnlessLeaked
<1>1. Init => CInv
  BY InitHolds DEF Init, ReturnsReachCallerUnlessLeaked
<1>2. ASSUME CInv, [Next]_vars PROVE CInv'
  <2>1. IInv' /\ Chain'
    BY <1>2, NextPreserves DEF Preserved, KeepsChain
  <2>2. CASE ~FrameReturns /\ ~TryReturns
    BY <1>2, <2>1, <2>2, DeliveryElsewhere DEF ReturnsReachCallerUnlessLeaked
  <2>3. ASSUME leaked = {}, drivers # <<>>, NEW frame, NEW stack,
               InHand(frame, stack), Finish(frame, stack)
        PROVE  delivery'.to = delivery'.due
    BY <1>2, <2>3, FinishDelivers DEF Chain, ReturnsReachCallerUnlessLeaked
  <2>4. ASSUME NEW frame, NEW stack, Finish(frame, stack)
        PROVE  leaked' = leaked
    BY <2>4 DEF Finish, FinishTarget, FinishChild, FinishLost
  <2>5. CASE FrameReturns
    <3>1. /\ Direct /\ drivers # <<>>
          /\ Finish(Last(frames), Front(frames))
      BY <2>5 DEF FrameReturns, Direct
    <3>2. InHand(Last(frames), Front(frames))
      BY <1>2, <3>1, PoppedInHand
    <3> QED
      BY <2>1, <2>3, <2>4, <3>1, <3>2 DEF ReturnsReachCallerUnlessLeaked
  <2>6. CASE TryReturns
    <3>1. /\ drivers # <<>> /\ top.held # NoFrame
          /\ Finish(top.held, frames)
      BY <2>6 DEF TryReturns, TryOver
    <3>2. InHand(top.held, frames)
      BY <1>2, <3>1, HeldInHand
    <3> QED
      BY <2>1, <2>3, <2>4, <3>1, <3>2 DEF ReturnsReachCallerUnlessLeaked
  <2> QED
    BY <2>2, <2>5, <2>6
<1>3. CInv => ReturnsReachCallerUnlessLeaked
  OBVIOUS
<1> QED
  BY <1>1, <1>2, <1>3, PTL DEF Spec

-----------------------------------------------------------------------------
(* A step that keeps the tries of the drivers that wait.                   *)
LowerTriesKept ==
  \A d \in 1 .. Len(drivers) - 1 :
    d \in DOMAIN drivers' /\ drivers'[d].tries = drivers[d].tries
TopTriesKept ==
  /\ Len(drivers) \in DOMAIN drivers'
  /\ ~(Len(drivers'[Len(drivers)].tries) < Len(top.tries))
FinallyDone ==
  drivers # <<>> =>
    \/ top.tries = <<>> \/ TopTriesKept
    \/ context.final => context.stage \in {"finally", "cleanup"}

LEMMA LeftOnly ==
  ASSUME Types, LowerTriesKept, FinallyDone
  PROVE  LeftOnlyFrom({"finally", "cleanup"})
<1> SUFFICES ASSUME NEW d \in DOMAIN drivers, drivers[d].tries # <<>>, TryLeft(d),
                    Last(drivers[d].tries).final
             PROVE  Last(drivers[d].tries).stage \in {"finally", "cleanup"}
  BY DEF LeftOnlyFrom
<1>1. Len(drivers) \in Nat /\ DOMAIN drivers = 1 .. Len(drivers) /\ d \in 1 .. Len(drivers)
  BY Domains
<1>2. drivers # <<>> /\ Len(drivers) \in Nat \ {0}
  BY <1>1
<1>3. drivers[d] \in DriverRec
  BY <1>1, Domains
<1>4. Len(drivers[d].tries) \in Nat
  BY <1>3, LenProperties DEF DriverRec
<1>5. CASE d = Len(drivers)
  BY <1>2, <1>5, TopFacts DEF FinallyDone, TopTriesKept, TryLeft, context
<1>6. CASE d # Len(drivers)
  <2>1. d \in 1 .. Len(drivers) - 1
    BY <1>1, <1>2, <1>6, BelowLast
  <2>2. ~(Len(drivers[d].tries) < Len(drivers[d].tries))
    BY <1>4
  <2> QED
    BY <2>1, <2>2 DEF LowerTriesKept, TryLeft
<1> QED
  BY <1>5, <1>6

LEMMA BecomesKeepsLower ==
  ASSUME Types, drivers # <<>>, NEW h, NEW ts, TopBecomes(h, ts)
  PROVE  /\ LowerTriesKept
         /\ ~(Len(ts) < Len(top.tries)) => TopTriesKept
<1>1. /\ Len(drivers) \in Nat \ {0} /\ DOMAIN drivers' = 1 .. Len(drivers)
      /\ drivers'[Len(drivers)].tries = ts
      /\ \A d \in 1 .. Len(drivers) - 1 : drivers'[d].tries = drivers[d].tries
  BY TopFacts, BelowLast, LenProperties DEF TopBecomes
<1> QED
  BY <1>1, BelowLast DEF LowerTriesKept, TopTriesKept


(* Each action: the waiting drivers keep their tries, and so does the      *)
(* innermost, unless it is in none or the one it leaves has had its        *)
(* `finally`.                                                              *)
LEMMA CodeKeepsTries ==
  ASSUME IInv, DirectCall \/ NestedCall \/ EnterTry \/ FrameFails \/ RegionEnds
  PROVE  drivers # <<>> /\ LowerTriesKept /\ TopTriesKept
<1>1. drivers # <<>>
  BY DEF DirectCall, NestedCall, EnterTry, FrameFails, RegionEnds, Direct, InTry
<1>2. /\ top \in DriverRec /\ top.tries \in Seq(TryContext)
      /\ Len(top.tries) \in Nat
  BY <1>1, FrameOfTop, LenProperties
<1>3. CASE DirectCall \/ FrameFails \/ RegionEnds
  <2>1. TopBecomes(top.held, top.tries)
    BY <1>1, <1>3, DriversUnchanged DEF DirectCall, FrameFails, RegionEnds
  <2> QED
    BY <1>1, <1>2, <2>1, BecomesKeepsLower DEF IInv
<1>4. CASE EnterTry
  <2>1. PICK ts \in Seq(TryContext) :
          Len(ts) = Len(top.tries) + 1 /\ TopBecomes(current, ts)
    BY <1>4, EnterTryChanges
  <2> QED
    BY <1>1, <1>2, <2>1, BecomesKeepsLower DEF IInv
<1>5. CASE NestedCall
  <2> DEFINE rest == IF Direct THEN Front(frames) ELSE frames
             w == With(top, current, top.tries)
  <2>1. drivers' = Append(SetTop([top EXCEPT !.held = current]), NewDriver(Len(rest)))
    BY <1>5 DEF NestedCall
  <2>2. current \in Frame \union {NoFrame}
    BY <1>5, CurrentFrame DEF NestedCall
  <2>3. w \in DriverRec /\ [top EXCEPT !.held = current] = w
    BY <1>2, <2>2, Updates, Zenon
  <2>4. drivers' = Append(SetTop(w), NewDriver(Len(rest))) /\ w.tries = top.tries
    BY <2>1, <2>3, Zenon DEF With
  <2> HIDE DEF w, rest
  <2>5. /\ SetTop(w) \in Seq(DriverRec) /\ Len(SetTop(w)) = Len(drivers)
        /\ \A i \in 1 .. Len(drivers) : SetTop(w)[i] = IF i = Len(drivers) THEN w ELSE drivers[i]
    BY <1>1, <2>3, SetTopFacts DEF IInv, Types
  <2>6. Len(drivers) \in Nat \ {0}
    BY <1>1, TopFacts DEF IInv
  <2>7. /\ \A i \in 1 .. Len(drivers) : drivers'[i] = SetTop(w)[i]
        /\ \A i \in 1 .. Len(drivers) : i \in DOMAIN drivers'
    BY <2>4, <2>5, <2>6
  <2>8. /\ \A i \in 1 .. Len(drivers) - 1 :
             i \in DOMAIN drivers' /\ drivers'[i] = drivers[i]
        /\ Len(drivers) \in DOMAIN drivers' /\ drivers'[Len(drivers)].tries = top.tries
    BY <2>4, <2>5, <2>6, <2>7, BelowLast
  <2> QED
    BY <1>1, <1>2, <2>8 DEF LowerTriesKept, TopTriesKept
<1> QED
  BY <1>1, <1>3, <1>4, <1>5

LEMMA FinishKeepsTries ==
  ASSUME IInv, drivers # <<>>, NEW frame, NEW stack, Finish(frame, stack)
  PROVE  LowerTriesKept
<1>1. NoFrame \in Frame \union {NoFrame} /\ top.tries \in Seq(TryContext)
  BY FrameOfTop
<1>2. CASE FinishTarget(frame, stack)
  <2> DEFINE below == Front(drivers)
             n == Len(drivers)
  <2>1. /\ below \in Seq(DriverRec) /\ n \in Nat \ {0} /\ Len(below) = n - 1
        /\ \A d \in 1 .. n - 1 : below[d] = drivers[d]
    BY FrontFacts DEF IInv, Types
  <2>2. drivers' = Resume(below)
    BY <1>2 DEF FinishTarget
  <2> HIDE DEF below
  <2>3. CASE drivers' = below
    BY <2>1, <2>3 DEF LowerTriesKept
  <2>4. CASE drivers' = [below EXCEPT ![Len(below)].held = NoFrame]
    <3>1. DOMAIN drivers' = 1 .. n - 1
      BY <2>1, <2>4
    <3>2. \A d \in 1 .. n - 1 : drivers'[d].tries = below[d].tries
      BY <2>1, <2>4, ElementOfSeq DEF DriverRec
    <3> QED
      BY <2>1, <3>1, <3>2 DEF LowerTriesKept
  <2> QED
    BY <2>2, <2>3, <2>4 DEF Resume
<1>3. CASE FinishChild(frame, stack) \/ FinishLost(frame, stack)
  <2>1. drivers' = SetTop([top EXCEPT !.held = NoFrame])
    BY <1>3 DEF FinishChild, FinishLost
  <2>2. TopBecomes(NoFrame, top.tries)
    BY <1>1, <2>1, HeldChanges
  <2> QED
    BY <2>2, BecomesKeepsLower DEF IInv
<1> QED
  BY <1>2, <1>3 DEF Finish

(* A driver that ends, returns or goes on from its try is in none.         *)
LEMMA DriverKeepsTries ==
  ASSUME IInv, FrameReturns \/ TryReturns \/ TryContinues \/ DriverFails
  PROVE  drivers # <<>> /\ LowerTriesKept /\ top.tries = <<>>
<1>1. CASE FrameReturns
  <2>1. Direct /\ drivers # <<>> /\ Finish(Last(frames), Front(frames))
    BY <1>1 DEF FrameReturns, Direct
  <2> QED
    BY <2>1, Running, FinishKeepsTries
<1>2. CASE TryReturns
  BY <1>2, FinishKeepsTries DEF TryReturns, TryOver
<1>3. CASE TryContinues
  <2>1. /\ drivers # <<>> /\ top.tries = <<>>
        /\ drivers' = SetTop([top EXCEPT !.held = NoFrame])
    BY <1>3 DEF TryContinues, TryOver
  <2>2. TopBecomes(NoFrame, top.tries)
    BY <2>1, FrameOfTop, HeldChanges
  <2> QED
    BY <2>1, <2>2, BecomesKeepsLower DEF IInv
<1>4. CASE DriverFails
  <2>1. drivers # <<>> /\ top.tries = <<>> /\ drivers' = Front(drivers)
    BY <1>4 DEF DriverFails
  <2>2. /\ Front(drivers) \in Seq(DriverRec) /\ Len(Front(drivers)) = Len(drivers) - 1
        /\ \A d \in 1 .. Len(drivers) - 1 : Front(drivers)[d] = drivers[d]
    BY <2>1, FrontFacts DEF IInv, Types
  <2>3. DOMAIN drivers' = 1 .. Len(drivers) - 1
    BY <2>1, <2>2
  <2> QED
    BY <2>1, <2>2, <2>3 DEF LowerTriesKept
<1> QED
  BY <1>1, <1>2, <1>3, <1>4

(* A step of the innermost try goes on in it or leaves it.                 *)
LEMMA EnterKeepsTries ==
  ASSUME IInv, drivers # <<>>, top.tries # <<>>, NEW stage \in Stages,
         NEW pending \in Outcomes \union {"none"}, Enter(stage, pending)
  PROVE  LowerTriesKept /\ TopTriesKept
<1>1. PICK ts \in Seq(TryContext) :
        Len(ts) = Len(top.tries) /\ drivers' = SetTop([top EXCEPT !.tries = ts])
  BY EnterTries
<1>2. TopBecomes(top.held, ts)
  BY <1>1, TriesChange
<1>3. ~(Len(ts) < Len(top.tries))
  <2>1. Len(ts) \in Nat
    BY LenProperties
  <2> QED
    BY <1>1, <2>1
<1> QED
  BY <1>2, <1>3, BecomesKeepsLower DEF IInv

LEMMA LeaveKeepsTries ==
  ASSUME IInv, drivers # <<>>, top.tries # <<>>, NEW outcome, Leave(outcome)
  PROVE  LowerTriesKept
<1> DEFINE ts == Front(top.tries)
<1>1. ts \in Seq(TryContext)
  BY ContextFacts
<1>2. drivers' = SetTop([top EXCEPT !.tries = ts])
  BY DEF Leave
<1> HIDE DEF ts
<1>3. TopBecomes(top.held, ts)
  BY <1>1, <1>2, TriesChange
<1> QED
  BY <1>3, BecomesKeepsLower DEF IInv

LEMMA ToFinallyKeepsTries ==
  ASSUME IInv, drivers # <<>>, top.tries # <<>>,
         NEW outcome \in Outcomes \union {"none"}, ToFinally(outcome)
  PROVE  LowerTriesKept /\ FinallyDone
<1>1. CASE context.final
  BY <1>1, EnterKeepsTries DEF ToFinally, Stages, FinallyDone
<1>2. CASE ~context.final
  BY <1>2, LeaveKeepsTries DEF ToFinally, FinallyDone
<1> QED
  BY <1>1, <1>2

LEMMA TryEndsKeepsTries ==
  ASSUME IInv, BodyEnds \/ CleanupEnds \/ CleanupFails \/ HandlerEnds \/ FinallyEnds
  PROVE  LowerTriesKept /\ FinallyDone
<1>1. drivers # <<>> /\ top.tries # <<>>
  BY DEF BodyEnds, CleanupEnds, CleanupFails, HandlerEnds, FinallyEnds, Ended
<1>2. /\ signal \in Outcomes \union {"none"} /\ context.pending \in Outcomes \union {"none"}
      /\ "Fault" \in Outcomes /\ {"cleanup", "handler", "else"} \subseteq Stages
  BY <1>1, ContextFacts DEF Outcomes, Errors, Stages
<1>3. ASSUME NEW stage \in {"cleanup", "handler", "else"},
             NEW pending \in Outcomes \union {"none"}, Enter(stage, pending)
      PROVE  LowerTriesKept /\ FinallyDone
  BY <1>1, <1>2, <1>3, EnterKeepsTries DEF FinallyDone
<1>4. ASSUME NEW outcome, Leave(outcome), Ended("cleanup") \/ Ended("finally")
      PROVE  LowerTriesKept /\ FinallyDone
  BY <1>1, <1>4, LeaveKeepsTries DEF Ended, FinallyDone
<1>5. CASE BodyEnds
  BY <1>1, <1>2, <1>3, <1>5, ToFinallyKeepsTries DEF BodyEnds
<1>6. CASE CleanupEnds
  BY <1>1, <1>2, <1>3, <1>6, ToFinallyKeepsTries DEF CleanupEnds
<1>7. CASE CleanupFails
  BY <1>4, <1>7 DEF CleanupFails
<1>8. CASE HandlerEnds
  BY <1>1, <1>2, <1>8, ToFinallyKeepsTries DEF HandlerEnds
<1>9. CASE FinallyEnds
  BY <1>4, <1>9 DEF FinallyEnds
<1> QED
  BY <1>5, <1>6, <1>7, <1>8, <1>9

(* A try with a `finally` is left only when that has run, or when a        *)
(* destructor of its cleanup failed: whatever the outcome of its body and  *)
(* of its handler, and whichever driver it is in.                          *)
THEOREM FinallyRuns == Spec => FinallyRunsUnlessCleanupFails
<1>1. IInv /\ [Next]_vars => [LeftOnlyFrom({"finally", "cleanup"})]_vars
  <2> SUFFICES ASSUME IInv, Next PROVE (LowerTriesKept /\ FinallyDone) \/ UNCHANGED vars
    BY LeftOnly DEF IInv
  <2>1. CASE DirectCall \/ NestedCall \/ EnterTry \/ FrameFails \/ RegionEnds
    BY <2>1, CodeKeepsTries DEF FinallyDone
  <2>2. CASE FrameReturns \/ TryReturns \/ TryContinues \/ DriverFails
    BY <2>2, DriverKeepsTries DEF FinallyDone
  <2>3. CASE BodyEnds \/ CleanupEnds \/ CleanupFails \/ HandlerEnds \/ FinallyEnds
    BY <2>3, TryEndsKeepsTries
  <2> QED
    BY <2>1, <2>2, <2>3 DEF Next, Code, Unwind, Over
<1> QED
  BY <1>1, FramesInvariant, PTL DEF Spec, FinallyRunsUnlessCleanupFails
=============================================================================
