--------------------------- MODULE DataPaths_proofs ---------------------------
(***************************************************************************)
(* Registers belong to the block asked for, whatever the bus does, and the *)
(* camera info describes the image, for every calibration and frame size   *)
(* that scale without a remainder.                                         *)
(***************************************************************************)
EXTENDS DataPaths, TLAPS

\* What is asked for is a block, and what was handed on last was asked for.
PollInv ==
  /\ asked \in Blocks \cup {"none"}
  /\ RegistersMatchRequest

\* Configuration and calibration are of the kinds the constants list.
ConfigInv ==
  /\ calibration \in Lenses \cup {None}
  /\ options \in Options /\ size \in FrameSizes

ImageInv == ConfigInv /\ InfoDescribesImage

\* The code scales with floating point numbers, the model with integers: they
\* agree when nothing is left over.
ScalesExactly(lens, frame) ==
  \A a \in Axes :
    /\ lens.size[a] > 0
    /\ \E q \in Int : lens.f[a] * frame[a] = q * lens.size[a]

------------------------------------------------------------------------------
\* The registers.

LEMMA RequestAsks ==
  ASSUME NEW block \in Blocks, Request(block)
  PROVE  asked' \in Blocks \cup {"none"}
BY DEF Request

LEMMA FailureKeepsDelivered ==
  ASSUME RegistersMatchRequest, ReadFails
  PROVE  PollInv'
BY DEF PollInv, RegistersMatchRequest, ReadFails

\* The lengths of the blocks differ, so an answer of the length asked for is of
\* the block asked for.
LEMMA LengthTellsBlock ==
  ASSUME asked \in Blocks, NEW block \in Blocks, LengthAsked(block)
  PROVE  block = asked
BY ModbusAssumption DEF LengthAsked

LEMMA SuccessMatches ==
  ASSUME asked \in Blocks, NEW block \in Blocks, LengthAsked(block), ReadSucceeds(block)
  PROVE  PollInv'
<1>1. block = asked BY LengthTellsBlock
<1>2. delivered' = << asked, asked >> BY <1>1 DEF ReadSucceeds
<1>3. asked' \in Blocks \cup {"none"}
  <2>1. "B" \in Blocks /\ "identity" \in Blocks BY DEF Blocks
  <2> QED BY <2>1, RequestAsks DEF ReadSucceeds
<1> QED BY <1>2, <1>3 DEF PollInv, RegistersMatchRequest

LEMMA PollStep ==
  ASSUME PollInv, ModbusNext
  PROVE  PollInv'
<1> USE DEF PollInv, RegistersMatchRequest
<1>a. "A" \in Blocks BY DEF Blocks
<1>1. CASE PollBegins BY <1>1, <1>a, RequestAsks DEF PollBegins
<1>2. CASE PollBeginsEarly BY <1>2, <1>a DEF PollBeginsEarly
<1>3. CASE ReceivesForeign BY <1>3, FailureKeepsDelivered DEF ReceivesForeign
<1>4. CASE ReceivesPart BY <1>4 DEF ReceivesPart
<1>5. CASE ReceivesLast
  <2>1. asked \in Blocks BY <1>5 DEF ReceivesLast, Reading
  <2>2. CASE ReadFails BY <2>2, FailureKeepsDelivered
  <2>3. CASE \E block \in Blocks : LengthAsked(block) /\ ReadSucceeds(block)
    BY <2>1, <2>3, SuccessMatches
  <2> QED BY <1>5, <2>2, <2>3 DEF ReceivesLast
<1>6. CASE TimesOut BY <1>6, FailureKeepsDelivered DEF TimesOut
<1>7. CASE TimesOutEarly BY <1>7, FailureKeepsDelivered DEF TimesOutEarly
<1>8. CASE Arrives BY <1>8 DEF Arrives
<1>9. CASE Intrudes BY <1>9 DEF Intrudes
<1> QED
  BY <1>1, <1>2, <1>3, <1>4, <1>5, <1>6, <1>7, <1>8, <1>9 DEF ModbusNext, PollSteps

LEMMA PollUnchanged ==
  ASSUME PollInv, UNCHANGED mvars
  PROVE  PollInv'
BY DEF PollInv, RegistersMatchRequest, mvars

\* The registers a read hands on are those of the block it has asked for, for
\* answers of any lengths, as long as they differ, and any number of faults.
THEOREM RegistersAreAskedFor == PathSpec => []RegistersMatchRequest
<1>1. PathInit => PollInv
  BY DEF PathInit, ModbusInit, PollInv, RegistersMatchRequest
<1>2. PollInv /\ [PathNext]_pathVars => PollInv'
  BY PollStep, PollUnchanged
     DEF PathNext, OnStream, OnModbus, OnImage, pathVars
<1>3. PollInv => RegistersMatchRequest BY DEF PollInv
<1> QED BY <1>1, <1>2, <1>3, PTL DEF PathSpec

------------------------------------------------------------------------------
\* The images.

\* A whole number of units goes through a division unchanged.
LEMMA WholeThroughDivision ==
  ASSUME NEW x \in Int, NEW q \in Int, NEW n \in Int, n > 0
  PROVE  (q * n + x) \div n = q + x \div n
<1> DEFINE d == x \div n
           r == x % n
<1>1. d \in Int /\ r \in 0..n - 1 /\ x = n * d + r OBVIOUS
<1>2. q * n + x = n * (q + d) + r
  <2>1. n * (q + d) = n * q + n * d BY <1>1
  <2> QED BY <1>1, <2>1
<1> HIDE DEF d, r
<1>3. (n * (q + d) + r) \div n = q + d
  <2> DEFINE k == q + d
  <2>1. k \in Int BY <1>1
  <2> HIDE DEF k
  <2>2. (n * k + r) \div n = k BY <1>1, <2>1
  <2> QED BY <2>2 DEF k
<1> QED BY <1>2, <1>3 DEF d

LEMMA LensType ==
  ASSUME NEW lens \in Lenses
  PROVE  /\ lens \in [model : Models, size : [Axes -> Nat], f : [Axes -> Int], c : [Axes -> Int]]
         /\ \A a \in Axes : lens.size[a] \in Nat /\ lens.f[a] \in Int /\ lens.c[a] \in Int
BY ImageAssumption

LEMMA ConfigType ==
  ASSUME ConfigInv
  PROVE  /\ options.crop \in Int /\ options.scale \in Nat /\ options.scale > 0
         /\ \A a \in Axes : size[a] \in Nat
<1>1. options.crop \in Crops /\ options.scale \in FocalScales BY DEF ConfigInv, Options
<1>2. size \in [Axes -> Nat] BY ImageAssumption DEF ConfigInv
<1>3. \A n \in Nat \ {0} : n > 0 OBVIOUS
<1> QED BY <1>1, <1>2, <1>3, ImageAssumption

LEMMA CutType ==
  ASSUME ConfigInv, NEW lens \in Lenses, NEW a \in Axes
  PROVE  Cut(lens, a) \in Int
<1>1. lens.size[a] - size[a] \in Int BY LensType, ConfigType
<1>2. (lens.size[a] - size[a]) \div 2 \in Int BY <1>1
<1>3. options.crop \in Int BY ConfigType
<1> QED BY <1>1, <1>2, <1>3 DEF Cut, Between

\* The camera info is of the lens the frame has been taken with.
LEMMA TakenAsScaled ==
  ASSUME ConfigInv, NEW lens \in Lenses, ScalesExactly(lens, size)
  PROVE  /\ Taken(lens).f = ScaleToFrame(lens).f
         /\ Taken(lens).c = ScaleToFrame(lens).c
<1> DEFINE cut == {axis \in Axes : IsCutAlong(lens, axis)}
           part(a) == IF IsCutAlong(lens, a) THEN Cut(lens, a) ELSE 0
           frame(u, a) == IF \E b \in Axes : IsCutAlong(lens, b) THEN u - part(a)
                          ELSE (u * size[a]) \div lens.size[a]
           place(r, a) == frame(lens.f[a] * r + lens.c[a], a)
           scaled(v, a) == IF cut = {} THEN (v * size[a]) \div lens.size[a] ELSE v
<1>1. /\ Taken(lens).f = [a \in Axes |-> place(1, a) - place(0, a)]
      /\ Taken(lens).c = [a \in Axes |-> place(0, a)]
  BY DEF Taken, Image
<1>2. /\ ScaleToFrame(lens).f = [a \in Axes |-> scaled(lens.f[a], a)]
      /\ ScaleToFrame(lens).c =
           [a \in Axes |-> scaled(lens.c[a], a) - IF a \in cut THEN Cut(lens, a) ELSE 0]
  BY LensType DEF ScaleToFrame
<1>3. ASSUME NEW a \in Axes
      PROVE  /\ place(1, a) - place(0, a) = scaled(lens.f[a], a)
             /\ place(0, a) = scaled(lens.c[a], a) - IF a \in cut THEN Cut(lens, a) ELSE 0
  <2> DEFINE f == lens.f[a]
             c == lens.c[a]
             s == size[a]
             n == lens.size[a]
  <2>1. f \in Int /\ c \in Int /\ s \in Nat /\ n \in Nat BY LensType, ConfigType
  <2>2. f * 1 + c = f + c /\ f * 0 + c = c BY <2>1
  <2>3. a \in cut <=> IsCutAlong(lens, a) OBVIOUS
  <2>4. cut = {} <=> ~\E b \in Axes : IsCutAlong(lens, b) OBVIOUS
  <2>5. CASE cut # {}
    <3>1. part(a) \in Int BY CutType
    <3>2. place(1, a) = (f + c) - part(a) /\ place(0, a) = c - part(a)
      BY <2>2, <2>4, <2>5
    <3> HIDE DEF part, place
    <3>3. place(1, a) - place(0, a) = f BY <2>1, <3>1, <3>2
    <3> QED BY <2>3, <2>5, <3>2, <3>3 DEF part
  <2>6. CASE cut = {}
    <3>1. PICK q \in Int : f * s = q * n BY DEF ScalesExactly
    <3>2. n > 0 BY DEF ScalesExactly
    <3>3. place(1, a) = ((f + c) * s) \div n /\ place(0, a) = (c * s) \div n
      BY <2>2, <2>4, <2>6
    <3> HIDE DEF place
    <3>4. (f + c) * s = q * n + c * s
      <4>1. (f + c) * s = f * s + c * s BY <2>1
      <4> QED BY <3>1, <4>1
    <3>5. c * s \in Int /\ n \in Int BY <2>1
    <3>6. ((f + c) * s) \div n = q + (c * s) \div n
      <4>1. (q * n + c * s) \div n = q + (c * s) \div n
        BY <3>2, <3>5, WholeThroughDivision
      <4> QED BY <3>4, <4>1
    <3>7. (f * s) \div n = q
      <4>1. (q * n + 0) \div n = q + 0 \div n BY <3>2, <3>5, WholeThroughDivision
      <4>2. 0 \div n = 0 BY <3>2, <2>1
      <4>3. q * n \in Int BY <3>1, <2>1
      <4> QED BY <4>1, <4>2, <4>3, <3>1
    <3>8. (c * s) \div n \in Int BY <3>2, <3>5
    <3> DEFINE d == (c * s) \div n
    <3>9. place(1, a) - place(0, a) = q
      <4>1. (q + d) - d = q
        <5> HIDE DEF d
        <5> QED BY <3>1, <3>8 DEF d
      <4>2. place(1, a) = q + d /\ place(0, a) = d BY <3>3, <3>6
      <4> HIDE DEF d
      <4> QED BY <4>1, <4>2
    <3>10. scaled(f, a) = q BY <2>6, <3>7
    <3>11. scaled(c, a) = d BY <2>6
    <3>12. a \notin cut BY <2>6
    <3>13. d - 0 = d BY <3>8
    <3> QED BY <3>3, <3>9, <3>10, <3>11, <3>12, <3>13
  <2> QED BY <2>5, <2>6
<1> HIDE DEF cut, place, scaled
<1> QED BY <1>1, <1>2, <1>3

LEMMA CaptureType ==
  ASSUME ConfigInv, NEW lens \in Lenses, ScalesExactly(lens, size), NEW a \in Axes
  PROVE  /\ ScaleToFrame(lens).f[a] \in Int
         /\ WideOutput(ScaleToFrame(lens)).f[a] \in Int
<1> DEFINE cut == {axis \in Axes : IsCutAlong(lens, axis)}
           f == lens.f[a]
           scale == Between(1, options.scale, 2)
<1>1. f \in Int /\ size[a] \in Nat /\ lens.size[a] \in Nat /\ lens.size[a] > 0
  BY LensType, ConfigType DEF ScalesExactly
<1>2. f * size[a] \in Int BY <1>1
<1>3. (f * size[a]) \div lens.size[a] \in Int BY <1>1, <1>2
<1>4. ScaleToFrame(lens).f[a] =
        IF cut = {} THEN (f * size[a]) \div lens.size[a] ELSE f
  BY LensType DEF ScaleToFrame
<1>5. ScaleToFrame(lens).f[a] \in Int BY <1>1, <1>3, <1>4
<1>6. scale \in Int BY ConfigType DEF Between
<1>7. WideOutput(ScaleToFrame(lens)).f[a] = (ScaleToFrame(lens).f[a] * scale) \div 2
  BY LensType DEF WideOutput, ScaleToFrame
<1> HIDE DEF scale
<1>8. ScaleToFrame(lens).f[a] * scale \in Int BY <1>5, <1>6
<1> QED BY <1>5, <1>7, <1>8

\* A map from the cache is as good as one built for these lenses.
LEMMA MapForItsLenses ==
  ASSUME NEW source, NEW output
  PROVE  MapFor(source, output).source = source /\ MapFor(source, output).output = output
BY DEF MapFor, Matches, BuildMap

\* What is shown, with and without undistortion, before it is rotated.
LEMMA ShownAsTold ==
  ASSUME ConfigInv, NEW lens \in Lenses, ScalesExactly(lens, size)
  PROVE  LET capture == ScaleToFrame(lens)
             output == WideOutput(capture)
             m == MapFor(capture, output)
         IN /\ Taken(lens) = Image(capture.f, capture.c, FALSE)
            /\ Remapped(Taken(lens), m) = Image(output.f, output.c, TRUE)
<1> DEFINE capture == ScaleToFrame(lens)
           output == WideOutput(capture)
<1>1. Taken(lens) = Image(capture.f, capture.c, FALSE)
  BY TakenAsScaled DEF Taken, Image
<1>2. Taken(lens).f = capture.f /\ Taken(lens).c = capture.c BY TakenAsScaled
<1> HIDE DEF capture, output
<1>3. Remapped(Taken(lens), MapFor(capture, output)) = Image(output.f, output.c, TRUE)
  <2> DEFINE m == MapFor(capture, output)
  <2>1. m.source = capture /\ m.output = output BY MapForItsLenses
  <2> HIDE DEF m
  <2>2. Remapped(Taken(lens), m) = Image(m.output.f, m.output.c, TRUE)
    BY <1>2, <2>1 DEF Remapped
  <2> QED BY <2>1, <2>2 DEF m
<1> USE DEF capture, output
<1> QED BY <1>1, <1>3

LEMMA PublishStep ==
  ASSUME ConfigInv, PublishFrame,
         \A lens \in Lenses, frame \in FrameSizes : ScalesExactly(lens, frame)
  PROVE  InfoDescribesImage'
<1> DEFINE capture == ScaleToFrame(calibration)
           output == WideOutput(capture)
           undistorts == options.undistort /\ Supports(capture)
           told == IF undistorts THEN output ELSE capture
           shown == Image(told.f, told.c, undistorts)
           lens == [model |-> "info", f |-> told.f, c |-> told.c, zero |-> undistorts]
<1>1. calibration \in Lenses /\ size \in FrameSizes BY DEF ConfigInv, PublishFrame
<1>2. ScalesExactly(calibration, size) BY <1>1
<1>3. undistorts \in BOOLEAN OBVIOUS
<1>4. /\ image' = IF options.rotate /\ shown # None THEN Rotated(shown) ELSE shown
      /\ info' = IF options.rotate THEN RotatedInfo(lens) ELSE lens
      /\ options' = options
  <2>1. /\ Taken(calibration) = Image(capture.f, capture.c, FALSE)
        /\ Remapped(Taken(calibration), MapFor(capture, output)) = Image(output.f, output.c, TRUE)
    BY <1>1, <1>2, ShownAsTold
  <2>2. shown = IF undistorts THEN Remapped(Taken(calibration), MapFor(capture, output))
                              ELSE Taken(calibration)
    BY <1>3, <2>1
  <2> HIDE DEF shown
  <2> QED BY <2>2 DEF PublishFrame
<1>5. \A a \in Axes : told.f[a] \in Int BY <1>1, <1>2, CaptureType
<1> HIDE DEF undistorts, told
<1>6. shown # None BY DEF Image, None
<1>7. CASE options.rotate
  <2>1. image' = Image([a \in Axes |-> -told.f[a]], [a \in Axes |-> size[a] - 1 - told.c[a]],
                       undistorts)
    BY <1>4, <1>6, <1>7 DEF Rotated, Image
  <2>2. info' = [model |-> "info", f |-> told.f, c |-> [a \in Axes |-> size[a] - 1 - told.c[a]],
                 zero |-> undistorts]
    BY <1>4, <1>7 DEF RotatedInfo
  <2>3. \A a \in Axes : told.f[a] = -(-told.f[a]) BY <1>5
  <2>4. image' # None BY <2>1 DEF Image, None
  <2> QED BY <1>4, <1>7, <2>1, <2>2, <2>3, <2>4 DEF InfoDescribesImage, Image
<1>8. CASE ~options.rotate
  <2>1. image' = shown /\ info' = lens BY <1>4, <1>8
  <2> QED BY <1>4, <1>6, <1>8, <2>1 DEF InfoDescribesImage, Image
<1> QED BY <1>7, <1>8

LEMMA ImageStep ==
  ASSUME ImageInv, ImageNext,
         \A lens \in Lenses, frame \in FrameSizes : ScalesExactly(lens, frame)
  PROVE  ImageInv'
<1>1. CASE ImageConfigures
  <2>1. ConfigInv' BY <1>1 DEF ConfigInv, ImageConfigures, DecodeOtp, ParseIntrinsics, Options
  <2>2. InfoDescribesImage' BY <1>1 DEF ImageConfigures, InfoDescribesImage
  <2> QED BY <2>1, <2>2 DEF ImageInv
<1>2. CASE PublishFrame
  <2>1. ConfigInv' BY <1>2 DEF ImageInv, ConfigInv, PublishFrame, Options
  <2>2. InfoDescribesImage' BY <1>2, PublishStep DEF ImageInv
  <2> QED BY <2>1, <2>2 DEF ImageInv
<1> QED BY <1>1, <1>2 DEF ImageNext

\* Whoever takes a ray through the published camera info finds it where the
\* published image shows it, with any calibrations, frame sizes, crops and
\* scales, if every lens scales to every frame without a remainder.
THEOREM CameraInfoIsTrue ==
  ASSUME \A lens \in Lenses, frame \in FrameSizes : ScalesExactly(lens, frame)
  PROVE  PathSpec => []InfoDescribesImage
<1>1. PathInit => ImageInv
  BY DEF PathInit, ImageInit, ImageInv, ConfigInv, InfoDescribesImage
<1>2. ImageInv /\ [PathNext]_pathVars => ImageInv'
  <2>1. ImageInv /\ UNCHANGED ivars => ImageInv'
    BY DEF ImageInv, ConfigInv, Options, InfoDescribesImage, ivars
  <2> QED BY <2>1, ImageStep DEF PathNext, OnStream, OnModbus, OnImage, pathVars
<1>3. ImageInv => InfoDescribesImage BY DEF ImageInv
<1> QED BY <1>1, <1>2, <1>3, PTL DEF PathSpec

==============================================================================
