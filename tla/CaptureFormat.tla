--------------------------- MODULE CaptureFormat ---------------------------
(***************************************************************************)
(* The pure parts of video_capture_winrt.cc: the two tables that translate *)
(* between webrtc RawVideoType and MediaEncodingSubtypes, and the search   *)
(* of VideoCaptureWinRT::StartCapture for the closest stream property.     *)
(* Raw types and subtypes are strings named after the code's enumerators; *)
(* a stream property is a record of its subtype, width, height and frame   *)
(* rate numerator/denominator.                                             *)
(***************************************************************************)
EXTENDS Integers, Sequences, SequencesExt

\* The enumerators of RawVideoType and of MediaEncodingSubtypes the code names.
RawTypes == {"kVideoI420", "kVideoYV12", "kVideoYUY2", "kVideoIYUV",
             "kVideoRGB24", "kVideoARGB", "kVideoMJPEG", "kVideoNV12",
             "kVideoUnknown"}
Subtypes == {"Yv12", "Yuy2", "Iyuv", "Rgb24", "Rgb32", "Mjpg", "Nv12"}

(***************************************************************************)
(* The switch of VideoCaptureWinRT::StartCapture: the subtype asked of the *)
(* camera for a requested raw type; the default branch returns -1.         *)
(***************************************************************************)
SupportedRawTypes == RawTypes \ {"kVideoUnknown"}
RawToSubtype(raw) ==
  CASE raw = "kVideoYV12"  -> "Yv12"
    [] raw = "kVideoYUY2"  -> "Yuy2"
    [] raw \in {"kVideoI420", "kVideoIYUV"} -> "Iyuv"
    [] raw = "kVideoRGB24" -> "Rgb24"
    [] raw = "kVideoARGB"  -> "Rgb24"
    [] raw = "kVideoMJPEG" -> "Mjpg"
    [] raw = "kVideoNV12"  -> "Nv12"

(***************************************************************************)
(* The _wcsicmp chain of CaptureDevice::StartCapture: the raw type stored  *)
(* in frame_info_ for the subtype of the encoding profile.                 *)
(***************************************************************************)
SubtypeToRaw(sub) ==
  CASE sub = "Yv12"  -> "kVideoYV12"
    [] sub = "Yuy2"  -> "kVideoYUY2"
    [] sub = "Iyuv"  -> "kVideoIYUV"
    [] sub = "Rgb24" -> "kVideoRGB24"
    [] sub = "Rgb32" -> "kVideoARGB"
    [] sub = "Mjpg"  -> "kVideoMJPEG"
    [] sub = "Nv12"  -> "kVideoNV12"
    [] OTHER         -> "kVideoUnknown"

(***************************************************************************)
(* The closest-property search.  abs(static_cast<int>(prop->Width -        *)
(* capability.width)) is the plain distance for the dimensions a camera    *)
(* reports (far below 2^31, where the unsigned wrap and the cast cancel);  *)
(* the frame rate is the truncated quotient numerator / denominator.       *)
(* The loop keeps the index of the chosen property, 0 for none (the null   *)
(* video_encoding_properties), and the three minimal differences, which    *)
(* start at INT_MAX.                                                       *)
(***************************************************************************)
IntMax == 2147483647
Dist(a, b) == IF a >= b THEN a - b ELSE b - a
PropFps(p) == p.num \div p.den

SearchInit == [sel |-> 0, w |-> IntMax, h |-> IntMax, f |-> IntMax]

\* Seeded fault: the height branch forgets to reset min_fps_diff.
SearchStepStaleFps(props, sub, cap, acc, i) ==
  LET p  == props[i]
      wd == Dist(p.width, cap.width)
      hd == Dist(p.height, cap.height)
      fd == Dist(PropFps(p), cap.maxFPS)
  IN  CASE p.subtype # sub -> acc
        [] wd < acc.w -> [sel |-> i, w |-> wd, h |-> hd, f |-> fd]
        [] wd = acc.w /\ hd < acc.h -> [acc EXCEPT !.sel = i, !.h = hd]
        [] wd = acc.w /\ hd = acc.h /\ fd < acc.f -> [acc EXCEPT !.sel = i, !.f = fd]
        [] OTHER -> acc

\* One iteration of the for loop over streamProperties, at index i.
SearchStep(props, sub, cap, acc, i) ==
  LET p  == props[i]
      wd == Dist(p.width, cap.width)
      hd == Dist(p.height, cap.height)
      fd == Dist(PropFps(p), cap.maxFPS)
  IN  CASE p.subtype # sub -> acc
        [] wd < acc.w -> [sel |-> i, w |-> wd, h |-> hd, f |-> fd]
        [] wd = acc.w /\ hd < acc.h -> [acc EXCEPT !.sel = i, !.h = hd, !.f = fd]
        [] wd = acc.w /\ hd = acc.h /\ fd < acc.f -> [acc EXCEPT !.sel = i, !.f = fd]
        [] OTHER -> acc

SelectStreamProperty(props, sub, cap) ==
  LET Step(acc, i) == SearchStep(props, sub, cap, acc, i)
  IN  FoldLeftDomain(Step, SearchInit, props).sel

============================================================================
