--------------------------- MODULE MCPlayerSlots ----------------------------
EXTENDS PlayerSlots

CONSTANTS c1, c2

\* The second source of the first channel offers catch-up, the second channel
\* is broken on its first source.
MCCatchup == {<<c1, 2>>}
MCBroken == {<<c2, 1>>}
=============================================================================
