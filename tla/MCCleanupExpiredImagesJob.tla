--------------------- MODULE MCCleanupExpiredImagesJob ---------------------
EXTENDS CleanupExpiredImagesJob, TLC

Interchangeable == Permutations(Workers)
=============================================================================
