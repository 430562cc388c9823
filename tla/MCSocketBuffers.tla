-------------------------- MODULE MCSocketBuffers --------------------------
EXTENDS SocketBuffers

\* A single byte, pieces that fill a buffer of eight bytes unevenly, and one beyond it.
MCPieces == {<<1>>, <<2, 1, 1>>, <<1, 2, 2, 1, 2>>, <<2, 2, 1, 2, 1, 1, 2, 1, 1>>}
=============================================================================
