---------------------------- MODULE MCSessionJournal ----------------------------
EXTENDS SessionJournal
================================================================================
