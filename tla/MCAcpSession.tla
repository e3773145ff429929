------------------------------ MODULE MCAcpSession ------------------------------
EXTENDS AcpSession, TLC
Interchangeable == Permutations(Tool)
================================================================================
