-------------------------------- MODULE MCAir --------------------------------
EXTENDS MavlinkAir

\* A beacon, and more data than the transport may have room for.
MCHeardData == {<<>>, <<1, 2>>}

Headers == {"header"}
=============================================================================
