--------------------------- MODULE MCAudioConvert ---------------------------
\* AudioConvert for TLC: the library paths are two episodes of one season.
EXTENDS AudioConvert

CONSTANTS e1, e2
=============================================================================
