------------------------ MODULE MCPublishedInference ------------------------
\* A small instance of PublishedInference for TLC.
EXTENDS PublishedInference, TLC

WorkerSymmetry == Permutations(Worker) \cup Permutations(ModelVersion)
=============================================================================
