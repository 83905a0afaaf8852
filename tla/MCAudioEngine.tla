---------------------------- MODULE MCAudioEngine ----------------------------
EXTENDS AudioEngine

MCLineup ==
  {<<[key |-> "a", path |-> "good"]>>,
   <<[key |-> "a", path |-> "good"], [key |-> "b", path |-> "bad"]>>}
=============================================================================
