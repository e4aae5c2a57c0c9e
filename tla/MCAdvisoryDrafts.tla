-------------------------- MODULE MCAdvisoryDrafts --------------------------
EXTENDS AdvisoryDrafts
=============================================================================
