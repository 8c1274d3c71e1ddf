-------------------------- MODULE MCImagePipeline --------------------------
EXTENDS ImagePipeline, TLC

Symmetry == Permutations(Requests) \cup Permutations(Handlers)
=============================================================================
