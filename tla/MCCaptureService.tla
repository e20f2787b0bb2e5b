--------------------------- MODULE MCCaptureService ---------------------------
\* Model values and bounds for CaptureService.
EXTENDS CaptureService

CONSTANTS a, b

UploadAndReplay == [c \in Clients |-> IF c = a THEN "upload" ELSE "replay"]
StartFaults == {"model", "index", "finalizer"}
=============================================================================
