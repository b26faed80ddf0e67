----------------------------- MODULE MCMailGraph -----------------------------
EXTENDS MailGraph
=============================================================================
