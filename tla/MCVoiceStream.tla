---------------------------- MODULE MCVoiceStream ----------------------------
\* Two connections to one session, an audio queue of one frame, one interrupt:
\* enough for one connection's interrupt or end of reply to meet the other's reply.
EXTENDS VoiceStream
=============================================================================
