------------------------------ MODULE NBDWire ------------------------------
(***************************************************************************)
(* The integer conversions nbd.js applies when it puts a number on the     *)
(* wire.  JavaScript numbers are doubles; the bitwise operators first      *)
(* convert their operands with ToInt32 and return a signed 32-bit result,  *)
(* and DataView.setUint32 stores ToUint32 of its argument.  The width w of *)
(* a word is a parameter so that TLC, whose integers are 32-bit, can check *)
(* the conversions with small words; nbd.js uses w = 32.                   *)
(***************************************************************************)
EXTENDS Integers, Bitwise

\* ToUint32 of an integral number, for a word of w bits
ToUint(x, w) == x % 2^w

\* ToInt32 of an integral number: the same bits read as two's complement
ToInt(x, w) == LET u == ToUint(x, w) IN IF u >= 2^(w - 1) THEN u - 2^w ELSE u

\* JavaScript a & b: ToInt32 of both operands, AND of the bits, signed result
JsAnd(a, b, w) == ToInt(ToUint(ToInt(a, w), w) & ToUint(ToInt(b, w), w), w)

\* view.setUint32(0, Math.floor(size / (2**32)))
SizeHi(size, w) == ToUint(size \div 2^w, w)

\* mutant: the low word masked with 0x7fffffff, as if to stay positive
SizeLoMasked31(size, w) == ToUint(JsAnd(size, 2^(w - 1) - 1, w), w)

\* view.setUint32(4, size & 0xffffffff)
SizeLo(size, w) == ToUint(JsAnd(size, 2^w - 1, w), w)

\* the 64-bit export size the client reads from the two big-endian words
JoinWords(hi, lo, w) == hi * 2^w + lo

\* !(this.client.flags & NBD_FLAG_NO_ZEROES): the export info is padded
Padded(flags, w) == JsAnd(flags, 2, w) = 0
=============================================================================
