----------------------------- MODULE ByteBuffer ------------------------------
(* The byte buffer (bytebuffer.cpp): head and tail count the bytes put and    *)
(* got, in indexes of W bits, and are reduced only to address the area.       *)
EXTENDS Naturals

CONSTANTS Byte,        \* the values of a byte
          Areas,       \* the sizes of the areas setup() is called with
          W,           \* width of index_t
          MaxReads     \* bound: the most bytes one read() asks for

VARIABLES buffer, head, tail, length,
          returned     \* the last call and what it returned
byteBufferVars == <<buffer, head, tail, length, returned>>

Init == /\ buffer = <<>> /\ head = 0 /\ tail = 0 /\ length = 0
        /\ returned = [call |-> "none", value |-> FALSE]

count == (2 ^ W + head - tail) % (2 ^ W)
isEmpty == count = 0
isFull == length = count
Returns(c, v) == returned' = [call |-> c, value |-> v]

(* checkValidPowerOfTwo(): the smallest power of two that is no less than k. *)
checkValidPowerOfTwo(k) ==
  IF k = 0 THEN 0 ELSE CHOOSE p \in {2 ^ i : i \in 0 .. W} : p >= k /\ p < 2 * k

(* The length setup() tests is the one the buffer has before the call.        *)
setup(bLength) ==
  /\ Returns("setup", length > 0)
  /\ IF length > 0
       THEN /\ length' = checkValidPowerOfTwo(bLength) /\ head' = 0 /\ tail' = 0
            /\ buffer' \in [0 .. length' - 1 -> Byte]
       ELSE UNCHANGED <<buffer, head, tail, length>>

put(b) ==
  /\ Returns("put", ~isFull)
  /\ IF isFull THEN UNCHANGED <<buffer, head>>
     ELSE /\ buffer' = [buffer EXCEPT ![head % length] = b]
          /\ head' = (head + 1) % (2 ^ W)
  /\ UNCHANGED <<tail, length>>

(* get() takes one byte; read() calls it n times, whatever it returns.        *)
Take(n) == tail' = (tail + (IF n < count THEN n ELSE count)) % (2 ^ W)
get     == Take(1) /\ Returns("get", ~isEmpty) /\ UNCHANGED <<buffer, head, length>>
read(n) == Take(n) /\ Returns("read", n > 0) /\ UNCHANGED <<buffer, head, length>>

Next == \/ \E n \in Areas : setup(n)
        \/ \E b \in Byte : put(b)
        \/ get
        \/ \E n \in 0 .. MaxReads : read(n)

Spec == Init /\ [][Next]_byteBufferVars
-----------------------------------------------------------------------------
(* "Initialize the Byte-sized buffer ... returns true on success"             *)
(* (bytebuffer.hpp:49-54): given an area, the buffer is initialized.          *)
AreaAccepted == returned.call = "setup" => returned.value
=============================================================================
