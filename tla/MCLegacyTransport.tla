------------------------- MODULE MCLegacyTransport -------------------------
\* LegacyTransport with one place in each buffer, so that the circle of waits closes.
EXTENDS LegacyTransport

\* Repeats, time and a second connection are explored with few calls, and
\* enough calls to fill every buffer without them.
Exploration ==
    Len(sent) > 3 \/ window > Capacity => Repeats = 0 /\ clock = 0 /\ connection = 1
=============================================================================
