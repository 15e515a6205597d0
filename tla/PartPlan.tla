------------------------------- MODULE PartPlan -------------------------------
(***************************************************************************)
(* How a file is cut: the part size chosen when an upload is reserved, the *)
(* parts a client is then given URLs for, at most a batch at a time, and   *)
(* the ranges of a large copy in the store. Sizes are counted in units, so *)
(* that a bounded model meets every boundary; no operator is recursive.    *)
(***************************************************************************)
EXTENDS Naturals, FiniteSets, FiniteSetsExt

CONSTANTS
    MaxSize,       \* largest file accepted, 5 TiB
    Threshold,     \* multipartUploadThreshold, 16 MiB
    DefaultPart,   \* multipartPartSize, 64 MiB
    Alignment,     \* 1 MiB
    MaxParts,      \* parts of one upload, 10,000
    Batch,         \* maxPresignedPartBatch, 20
    LargeCopy,     \* size above which a copy is cut up, 5 GiB
    CopyRange      \* length of its ranges, 1 GiB

PartAssumption ==
    /\ {MaxSize, Threshold, DefaultPart, Alignment, MaxParts, Batch, LargeCopy,
        CopyRange} \subseteq Nat \ {0}
    /\ DefaultPart % Alignment = 0 /\ MaxSize <= MaxParts * CopyRange

VARIABLES
    size,          \* upload_session.expected_size_bytes
    partSize,      \* upload_session.part_size_bytes, 0 for a single PUT
    signed         \* bytes each part number was given a URL for

vars == <<size, partSize, signed>>

RoundUp(a, b) == (a + b - 1) \div b

\* Faulty: rounded down to the alignment.
AlignedBelow(minimum) == (minimum \div Alignment) * Alignment

Aligned(minimum) == RoundUp(minimum, Alignment) * Alignment

AdaptivePartSize(s) ==
    LET minimum == RoundUp(s, MaxParts)
    IN  IF minimum > DefaultPart THEN Aligned(minimum) ELSE DefaultPart

ReservedPartSize(s) == IF s > Threshold THEN AdaptivePartSize(s) ELSE 0

\* Faulty: what is left over is no part of its own.
WholeParts(s, p) == s \div p

PartCount(s, p) == RoundUp(s, p)

\* Faulty: the last part as long as the others.
SamePartLength(s, p, n) == p

(* The length signed into the URL of a part.                               *)
PartLength(s, p, n) == IF n = PartCount(s, p) THEN s - (n - 1) * p ELSE p

\* Faulty: every range of full length.
FullRange(s, offset) == CopyRange

RangeLength(s, offset) == IF s - offset < CopyRange THEN s - offset ELSE CopyRange

(* The ranges a large object is copied in, by their offsets.               *)
CopyRanges(s) ==
    [offset \in {o \in 0..(s - 1) : o % CopyRange = 0} |-> RangeLength(s, offset)]

Init ==
    /\ size \in 0..MaxSize /\ partSize = ReservedPartSize(size)
    /\ signed = [n \in {} |-> 0]

\* Faulty: part numbers count from nought.
FromNought(n) == n <= PartCount(size, partSize)

InRange(n) == n >= 1 /\ n <= PartCount(size, partSize)

(* All of the batch or nothing: any number out of range refuses it.        *)
PresignUploadParts(numbers) ==
    /\ partSize # 0
    /\ \A n \in numbers : InRange(n)
    /\ signed' = [n \in DOMAIN signed \cup numbers |-> PartLength(size, partSize, n)]
    /\ UNCHANGED <<size, partSize>>

Next ==
    \E numbers \in UNION {kSubset(k, 0..(MaxParts + 1)) : k \in 1..Batch} :
        PresignUploadParts(numbers)

Spec == Init /\ [][Next]_vars

-----------------------------------------------------------------------------
\* The bytes of all the parts together, each part's by their places in it.
Total(f) == Cardinality(UNION {{n} \X (1..f[n]) : n \in DOMAIN f})

TypeOK ==
    /\ size \in 0..MaxSize /\ partSize \in 0..(MaxSize + DefaultPart)
    /\ DOMAIN signed \subseteq 1..MaxParts
    /\ \A n \in DOMAIN signed : signed[n] \in 1..partSize

(* The part size is the smallest aligned one, not below the default, that  *)
(* cuts the file into at most the number of parts the store allows.        *)
SmallestPartSize ==
    LET Cuts(p) == p % Alignment = 0 /\ p >= DefaultPart /\ p * MaxParts >= size
    IN  partSize # 0 => Cuts(partSize) /\ \A p \in 1..(partSize - 1) : ~Cuts(p)

(* However a client asks for them, batch by batch, again or in any order,  *)
(* the parts signed add up to the file once every number has been signed,  *)
(* and to less before.                                                     *)
PartsMakeUpTheFile ==
    partSize # 0 =>
        /\ Total(signed) <= size
        /\ Total(signed) = size <=> DOMAIN signed = 1..PartCount(size, partSize)

(* The ranges of a large copy follow on one another from the first byte to *)
(* the last, and are not more than one upload may have parts.              *)
CopyIsWhole ==
    LET ranges == CopyRanges(size) IN
    size > LargeCopy =>
        /\ \A o \in DOMAIN ranges :
              o + ranges[o] \in DOMAIN ranges \cup {size} /\ ranges[o] > 0
        /\ 0 \in DOMAIN ranges /\ Cardinality(DOMAIN ranges) <= MaxParts
=============================================================================
