---------------------------- MODULE MCByteBuffer ----------------------------
(* ByteBuffer with areas of one, three and four bytes.                        *)
EXTENDS ByteBuffer
=============================================================================
