--------------------------- MODULE MCAuthSessions ---------------------------
EXTENDS AuthSessions
=============================================================================
