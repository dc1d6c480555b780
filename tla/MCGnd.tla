-------------------------------- MODULE MCGnd --------------------------------
EXTENDS MavlinkGnd

\* A beacon, and more data than the transport may have room for.
MCHeardData == {<<>>, <<1, 2>>}

DamagedFrames == {"crc"}
HeadersAndForeigners == {"header", "foreign"}
Quiet == {}
=============================================================================
