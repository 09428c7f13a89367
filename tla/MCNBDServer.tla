---------------------------- MODULE MCNBDServer ----------------------------
(* Model-checking instance of NBDServer: a two-byte file, MAX_SAFE_INTEGER *)
(* scaled to 3, two-bit wire words, and a client that sends up to four     *)
(* messages.  The negotiation model varies the client flags and options;  *)
(* the transmission model varies the commands.                            *)
EXTENDS NBDServer

\* NBD_OPT_EXPORT_NAME, and NBD_OPT_GO which nbd.js rejects
NegOptCodes == {1, 7}
\* READ and DISC after the negotiation
NegCmdTypes == {0, 2}
\* flags words with and without NBD_FLAG_NO_ZEROES
NegClientFlags == {1, 3}

\* READ, WRITE, DISC, FLUSH (unknown to nbd.js), TRIM
TxCmdTypes == {0, 1, 2, 3, 4}
\* in range, at the end of the file, beyond MaxSafe
TxReadOffsets == {0, 2, 4}

\* READ, WRITE (whose payload must be waited for) and DISC
LiveCmdTypes == {0, 1, 2}
\* a read in range and one beyond MaxSafe
LiveReadOffsets == {0, 4}

(* Export size round trip (spec 4.3, 6): the two words of every export   *)
(* info nbd.js has sent, Math.floor(size / 2^32) and size & 0xffffffff     *)
(* through setUint32, read back as exactly the file's size; and so they   *)
(* would for every size below 2^(2 WordBits) -- also when the top bit of  *)
(* the low word is set and & returns a negative number.                   *)
SizeRoundTrip ==
    /\ \A c \in Conns : \A i \in DOMAIN out[c] :
          out[c][i].kind = "exportInfo" =>
              JoinWords(out[c][i].hi, out[c][i].lo, WordBits) = FileSize
    /\ \A size \in 0..(2^(2 * WordBits) - 1) :
          /\ SizeHi(size, WordBits) \in 0..(2^WordBits - 1)
          /\ SizeLo(size, WordBits) \in 0..(2^WordBits - 1)
          /\ JoinWords(SizeHi(size, WordBits), SizeLo(size, WordBits), WordBits) = size
=============================================================================
