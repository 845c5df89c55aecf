---- MODULE MCObjectCounter ----
(* ObjectCounter for TLC, with a camera that may ignore a request.          *)
EXTENDS ObjectCounter
AnyReached == {{}, {"exposure"}, Controls}
====
