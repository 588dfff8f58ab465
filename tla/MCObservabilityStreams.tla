----------------------- MODULE MCObservabilityStreams -----------------------
(* Small instances of ObservabilityStreams: interchangeable callers and      *)
(* streams.                                                                  *)
EXTENDS ObservabilityStreams, TLC

StreamsSymmetry == Permutations(Caller) \cup Permutations(Stream)
=============================================================================
