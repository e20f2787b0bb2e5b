------------------------------- MODULE MCCaptures -------------------------------
\* Model values and bounds for Captures.
EXTENDS Captures

CONSTANTS a, b

MicrophoneAndUpload == [c \in Clients |-> IF c = a THEN "microphone" ELSE "upload"]
================================================================================
