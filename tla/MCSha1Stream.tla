--------------------------- MODULE MCSha1Stream ---------------------------
EXTENDS Sha1Stream
=============================================================================
