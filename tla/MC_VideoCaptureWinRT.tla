------------------------ MODULE MC_VideoCaptureWinRT ------------------------
(* Two supported formats and an unsupported one.  The pass run allows four *)
(* StartCapture or StopCapture calls and two camera failures (start, stop, *)
(* start, stop; a failure after a restart); the violation runs keep three  *)
(* calls and one failure.                                                  *)
EXTENDS VideoCaptureWinRT

MCRequests == {"kVideoYV12", "kVideoNV12", "kVideoUnknown"}
============================================================================
