----------------------------- MODULE MCRtspClient -----------------------------
EXTENDS RtspClient
=============================================================================
