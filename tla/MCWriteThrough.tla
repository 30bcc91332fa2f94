----------------------------- MODULE MCWriteThrough -----------------------------
\* One project whose settings element stands for all it holds: empty or written.
EXTENDS WriteThrough, TLC
================================================================================
