--------------------------- MODULE BotSessionsMC ---------------------------
EXTENDS BotSessions

CONSTANTS c1, s1, s2
=============================================================================
