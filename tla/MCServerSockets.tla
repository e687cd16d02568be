--------------------------- MODULE MCServerSockets ---------------------------
EXTENDS ServerSockets, TLC

CONSTANTS s1, s2, s3

\* Sockets of different kinds share nothing: three hear the audio, or two show the
\* profile, or two are terminals and one is an inspector.
MCSockets == {s1, s2, s3}
MCMixes ==
  {[s \in MCSockets |-> "audio"],
   [s \in MCSockets |-> IF s = s3 THEN "none" ELSE "browser"],
   [s \in MCSockets |-> IF s = s3 THEN "inspector" ELSE "terminal"]}
=============================================================================
