-------------------------------- MODULE GTPU --------------------------------
(***************************************************************************)
(* parse_gtpu of bpf/packet_filter.c: the framing of a GTP-U header, byte  *)
(* offsets and bounds included. What is abstracted is the content of the   *)
(* bytes no check reads.                                                   *)
(***************************************************************************)
EXTENDS Integers, Sequences, Functions

CONSTANTS
    NoTEID,         \* 0: no tunnel identity
    MaxExtHeaders,  \* GTPU_MAX_EXT_HEADERS
    MaxHdrBytes     \* GTPU_MAX_HDR_BYTES

ASSUME GTPUAssumption ==
    /\ MaxExtHeaders \in Nat \ {0}
    /\ MaxHdrBytes \in Nat /\ MaxHdrBytes >= 12

\* A UDP payload: its size in bytes; whether its first byte says GTP version
\* 1; its message type; its TEID; whether any of E, S and PN is set; and the
\* lengths of its extension headers, in the header's units of four bytes.
Payload(TEID) ==
    [size : Nat, version1 : BOOLEAN, type : {"tpdu", "path", "undefined"},
     teid : TEID \cup {NoTEID}, optional : BOOLEAN, chain : Seq(0 .. 255)]

\* Reads as far as the mandatory header, and finds a T-PDU.
HasTEID(g) == g.size >= 8 /\ g.version1 /\ g.type = "tpdu"

\* Mutant: the TEID is set only after the optional fields have been walked.
TEIDOfWalked(g) == IF HasTEID(g) /\ ~g.optional THEN g.teid ELSE NoTEID

\* *teid_out, which the caller initialises to 0.
TEIDOf(g) == IF HasTEID(g) THEN g.teid ELSE NoTEID

Truncated == 0

\* Mutant: the end of an extension header is not compared with data_end.
StepUnbounded(g, off, i) ==
    LET end == off + 4 * g.chain[i]
    IN  IF \/ off > MaxHdrBytes - 4 \/ off + 1 > g.size
           \/ g.chain[i] = 0 \/ end > MaxHdrBytes
        THEN Truncated ELSE end

\* One turn of the loop: the offset after the i-th extension header.
Step(g, off, i) ==
    LET end == off + 4 * g.chain[i]
    IN  IF \/ off > MaxHdrBytes - 4 \/ off + 1 > g.size
           \/ g.chain[i] = 0 \/ end > MaxHdrBytes \/ end > g.size
        THEN Truncated ELSE end

\* The loop, which stops at the end of the chain or after MaxExtHeaders: the
\* offset after each turn.
Offsets(g) ==
    LET off[i \in 0 .. MaxExtHeaders] ==
            IF i = 0 THEN 12
            ELSE IF off[i - 1] = Truncated \/ i > Len(g.chain) THEN off[i - 1]
            ELSE Step(g, off[i - 1], i)
    IN  off

Walk(g) ==
    Offsets(g)[MaxExtHeaders] # Truncated /\ Len(g.chain) <= MaxExtHeaders

\* GTPU_PARSE_MALFORMED is returned.
Malformed(g) ==
    \/ g.size < 8 \/ ~g.version1 \/ g.type = "undefined"
    \/ HasTEID(g) /\ g.optional /\ (g.size < 12 \/ ~Walk(g))

-----------------------------------------------------------------------------
\* What the loop computes, without its turns: where each extension header ends
\* if nothing bounds the chain. A chain is sound when it is not too deep, no
\* header of it is empty, and all of it lies within the packet and within the
\* bytes the parser is prepared to walk.
Ends(g) ==
    LET end[i \in 0 .. Len(g.chain)] ==
            IF i = 0 THEN 12 ELSE end[i - 1] + 4 * g.chain[i]
    IN  end

ChainIsSound(g) ==
    LET end == Ends(g)[Len(g.chain)]
    IN  /\ Len(g.chain) <= MaxExtHeaders
        /\ \A i \in DOMAIN g.chain : g.chain[i] > 0
        /\ end <= MaxHdrBytes /\ end <= g.size

\* The whole header is sound.
FrameIsSound(g) ==
    /\ g.size >= 8 /\ g.version1 /\ g.type # "undefined"
    /\ HasTEID(g) /\ g.optional => ChainIsSound(g)
=============================================================================
