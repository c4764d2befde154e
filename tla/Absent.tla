------------------------------- MODULE Absent -------------------------------
\* What stands for a value that is not there: NULL in the store, None in the
\* code.
CONSTANT None
=============================================================================
