----------------------------- MODULE CameraImage -----------------------------
(***************************************************************************)
(* What GmslV4l2CameraRuntime publishes of a frame: the image, cut out,    *)
(* undistorted and rotated as configured, and the camera info that has to  *)
(* describe it.  Of a lens the model keeps, for each axis, the focal       *)
(* length f and the principal point c: a ray of slope r meets the image at *)
(* f * r + c.  The projection matrix p is left out.                        *)
(***************************************************************************)
EXTENDS Integers

CONSTANTS
  Lenses,       \* calibrations of the whole sensor, from parameters or OTP
  FrameSizes,   \* sizes the device may be configured to
  Crops,        \* camera.driver.calibration_crop_y
  FocalScales   \* undistort_focal_scale, in halves

Axes == {"x", "y"}
Models == {"plumb_bob", "equidistant", "unknown"}
None == [model |-> "none"]

ASSUME ImageAssumption ==
  /\ Lenses \subseteq [model : Models, size : [Axes -> Nat], f : [Axes -> Int], c : [Axes -> Int]]
  /\ FrameSizes \subseteq [Axes -> Nat]
  /\ Crops \subseteq Int /\ FocalScales \subseteq Nat \ {0}

VARIABLES
  calibration,   \* config_.calibration, None without one
  options,       \* what config_ says of the image
  size,          \* of the frames
  map,           \* undistort_map_, None when it is null
  image, info    \* what has been published last

ivars == <<calibration, options, size, map, image, info>>

Options == [undistort : BOOLEAN, rotate : BOOLEAN, crop : Crops, scale : FocalScales]

ImageInit ==
  /\ calibration = None /\ options \in Options /\ size \in FrameSizes
  /\ map = None /\ image = None /\ info = None
------------------------------------------------------------------------------
\* decode_ox01f10_otp, parse_camera_calibration: a calibration, or none.
DecodeOtp == Lenses \cup {None}
ParseIntrinsics == Lenses \cup {None}

\* configure(): what the sensor's OTP memory says replaces the parameters, and
\* the map of the calibration before is dropped.
ImageConfigures ==
  /\ \E intrinsic \in ParseIntrinsics, otp \in DecodeOtp :
       calibration' = IF otp # None THEN otp ELSE intrinsic
  /\ options' \in Options /\ size' \in FrameSizes
  /\ map' = None /\ image' = None /\ info' = None

Between(low, value, high) ==
  IF value < low THEN low ELSE IF value > high THEN high ELSE value

\* Rows and columns in front of the part of the sensor that a frame shows.
Cut(lens, axis) ==
  LET rest == lens.size[axis] - size[axis]
  IN IF axis = "y" /\ options.crop >= 0 THEN Between(0, options.crop, rest) ELSE rest \div 2

\* A frame that is as wide or as high as the sensor has been cut, any other has
\* been scaled.
IsCutAlong(lens, axis) ==
  /\ size[axis] < lens.size[axis]
  /\ \A other \in Axes \ {axis} : size[other] = lens.size[other]

\* scale_calibration_to_frame
ScaleToFrame(lens) ==
  LET cut == {axis \in Axes : IsCutAlong(lens, axis)}
      scaled(value, axis) ==
        IF cut = {} THEN (value * size[axis]) \div lens.size[axis] ELSE value
  IN [lens EXCEPT !.size = size,
        !.f = [a \in Axes |-> scaled(lens.f[a], a)],
        !.c = [a \in Axes |-> scaled(lens.c[a], a) - IF a \in cut THEN Cut(lens, a) ELSE 0]]

\* wide_fov_output_calibration: undistorted, more is seen of the margins.  The
\* scale is at most one, two halves.
WideOutput(lens) ==
  [lens EXCEPT !.f = [a \in Axes |-> (lens.f[a] * Between(1, options.scale, 2)) \div 2]]

\* supports_undistortion
Supports(lens) ==
  lens.model \in {"plumb_bob", "equidistant"} /\ \A a \in Axes : lens.f[a] > 0

\* calibration_matches_map
Matches(cached, source, output) ==
  cached # None /\ cached.source = source /\ cached.output = output

\* build_undistort_map
BuildMap(source, output) == [model |-> "map", source |-> source, output |-> output]

\* undistort_map_for
MapFor(source, output) ==
  IF Matches(map, source, output) THEN map ELSE BuildMap(source, output)
------------------------------------------------------------------------------
\* An image: where a ray of slope r is, and whether straight lines are.
Image(f, c, straight) == [model |-> "image", f |-> f, c |-> c, straight |-> straight]

\* How the device shows the world in a frame: a pixel of the sensor at u is at
\* u - cut, or where the scale puts it.
Taken(lens) ==
  LET frame(u, axis) ==
        IF \E a \in Axes : IsCutAlong(lens, a)
        THEN u - IF IsCutAlong(lens, axis) THEN Cut(lens, axis) ELSE 0
        ELSE (u * size[axis]) \div lens.size[axis]
      at(r) == [a \in Axes |-> frame(lens.f[a] * r + lens.c[a], a)]
  IN Image([a \in Axes |-> at(1)[a] - at(0)[a]], at(0), FALSE)

\* remap_bgr8: the map brings a ray to where the output lens has it, if its
\* source is the lens the image has been taken with.
Remapped(taken, m) ==
  IF taken.f = m.source.f /\ taken.c = m.source.c
  THEN Image(m.output.f, m.output.c, TRUE) ELSE None

\* rotate_180 of the pixels.
Rotated(taken) ==
  Image([a \in Axes |-> -taken.f[a]], [a \in Axes |-> size[a] - 1 - taken.c[a]], taken.straight)

\* Mutant: pixels counted from one.
RotatedInfoFromOne(lens) == [lens EXCEPT !.c = [a \in Axes |-> size[a] - lens.c[a]]]

\* rotate_180 of the camera info.
RotatedInfo(lens) == [lens EXCEPT !.c = [a \in Axes |-> size[a] - 1 - lens.c[a]]]

\* convert_to_bgr8: formats whose data can be told to be too short.
Converts(frame) == frame.format \in {"BGR8", "NV12"} /\ frame.whole
FramesRead == [format : {"BGR8", "NV12", "other"}, whole : BOOLEAN]

\* publish_frame(); a frame that cannot be converted is not published, and
\* without a calibration the camera info says nothing.
PublishFrame ==
  \E frame \in FramesRead :
    /\ Converts(frame)
    /\ calibration # None
    /\ LET capture == ScaleToFrame(calibration)
           output == WideOutput(capture)
           undistorts == options.undistort /\ Supports(capture)
           m == MapFor(capture, output)
           shown == IF undistorts THEN Remapped(Taken(calibration), m) ELSE Taken(calibration)
           lens == [model |-> "info", f |-> (IF undistorts THEN output ELSE capture).f,
                    c |-> (IF undistorts THEN output ELSE capture).c, zero |-> undistorts]
       IN /\ map' = IF undistorts THEN m ELSE map
          /\ image' = IF options.rotate /\ shown # None THEN Rotated(shown) ELSE shown
          /\ info' = IF options.rotate THEN RotatedInfo(lens) ELSE lens
    /\ UNCHANGED <<calibration, options, size>>

ImageNext == ImageConfigures \/ PublishFrame
------------------------------------------------------------------------------
\* Whoever takes a ray through the published camera info finds it where the
\* published image shows it, and distortion is announced if and only if there
\* is some.  Turned by 180 degrees, the camera sees a ray from the other side.
InfoDescribesImage ==
  info # None =>
    /\ image # None
    /\ \A a \in Axes : /\ info.c[a] = image.c[a]
                       /\ info.f[a] = IF options.rotate THEN -image.f[a] ELSE image.f[a]
    /\ info.zero <=> image.straight
==============================================================================
