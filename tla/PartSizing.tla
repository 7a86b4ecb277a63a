------------------------------ MODULE PartSizing ------------------------------
(***************************************************************************)
(* How a file is cut into the parts of a multipart upload (domain/parts.py) *)
(* and how completion checks what storage holds against that cut.  The part *)
(* size is chosen once, when the session is created; presigning, acknow-    *)
(* ledging and completing derive every byte range again from the file size  *)
(* and the part size of the session row, and the client reads its file by   *)
(* those ranges.                                                            *)
(***************************************************************************)
EXTENDS Integers, FiniteSetsExt

CONSTANTS
    MinPartSize,      \* MIN_PART_SIZE, 5 MiB
    DefaultPartSize,  \* DEFAULT_PART_SIZE, 64 MiB
    MaxPartSize,      \* MAX_PART_SIZE, 5 GiB
    MaxPartCount,     \* MAX_PART_COUNT, 10000
    Unit,             \* MIB, what an automatic part size is a multiple of
    FileSizes,        \* the file sizes requests ask for
    PartSizes         \* the part sizes requests ask for

ASSUME SizingAssumption ==
    /\ {MinPartSize, DefaultPartSize, MaxPartSize, MaxPartCount, Unit} \subseteq Nat \ {0}
    /\ MinPartSize <= DefaultPartSize
    /\ DefaultPartSize <= MaxPartSize
    /\ MaxPartSize % Unit = 0
    /\ FileSizes \subseteq Nat \ {0}
    /\ PartSizes \subseteq Nat \ {0}

VARIABLES
    session,   \* sizes of the session row, or of the request that was refused
    stored,    \* size of each part storage holds, 0 when it holds none
    assembled  \* size of the object storage assembled, 0 before

vars == <<session, stored, assembled>>

-----------------------------------------------------------------------------
(* domain/parts.py                                                          *)

Automatic == 0   \* no part size requested
Rejected  == 0   \* InvalidPartConfigurationError, a 422 answer

CeilDiv(a, b) == -((-a) \div b)

RoundUpToUnit(size) == CeilDiv(size, Unit) * Unit

Larger(a, b) == IF a >= b THEN a ELSE b
Smaller(a, b) == IF a <= b THEN a ELSE b

PartCount(file, size) == CeilDiv(file, size)

\* Mutant: the default size, however large the file.
MutantAutomaticSize(file) == RoundUpToUnit(Larger(DefaultPartSize, MinPartSize))

AutomaticSize(file) ==
    RoundUpToUnit(Larger(DefaultPartSize,
                         Larger(MinPartSize, CeilDiv(file, MaxPartCount))))

\* Mutant: a requested size checked against its bounds, not the part count.
MutantChoosePartSize(file, requested) ==
    LET size == IF requested = Automatic THEN AutomaticSize(file) ELSE requested
    IN  IF /\ requested # Automatic => size >= MinPartSize
           /\ size <= MaxPartSize
        THEN size ELSE Rejected

ChoosePartSize(file, requested) ==
    LET size == IF requested = Automatic THEN AutomaticSize(file) ELSE requested
    IN  IF /\ requested # Automatic => size >= MinPartSize
           /\ size <= MaxPartSize
           /\ PartCount(file, size) <= MaxPartCount
        THEN size ELSE Rejected

\* get_part_range
OffsetStart(size, n) == (n - 1) * size

\* Mutant: the last range not cut at the end of the file.
MutantOffsetEnd(file, size, n) == OffsetStart(size, n) + size

OffsetEnd(file, size, n) == Smaller(OffsetStart(size, n) + size, file)

ExpectedSize(file, size, n) == OffsetEnd(file, size, n) - OffsetStart(size, n)

-----------------------------------------------------------------------------
Created == session.partSize # Rejected
Numbers == 1 .. session.partCount
Start(n) == OffsetStart(session.partSize, n)
End(n) == OffsetEnd(session.file, session.partSize, n)
Expected(n) == ExpectedSize(session.file, session.partSize, n)

\* create_upload_task, or its 422 answer
Init ==
    /\ \E file \in FileSizes, requested \in PartSizes \cup {Automatic} :
          LET size == ChoosePartSize(file, requested)
          IN  session = [file |-> file, requested |-> requested, partSize |-> size,
                         partCount |-> IF size = Rejected THEN 0 ELSE PartCount(file, size)]
    /\ stored = [n \in Numbers |-> 0]
    /\ assembled = 0

\* A client PUTs a part: of the size it was told, one byte short or one over.
PutPart(n) ==
    /\ assembled = 0
    /\ \E size \in {Expected(n) - 1, Expected(n), Expected(n) + 1} \ {0} :
          stored' = [stored EXCEPT ![n] = size]
    /\ UNCHANGED <<session, assembled>>

\* Mutant: part numbers compared, part sizes not.
MutantAsExpected == \A n \in Numbers : stored[n] # 0

\* _validate_complete_parts
AsExpected == \A n \in Numbers : stored[n] = Expected(n)

CompleteUpload ==
    /\ Created
    /\ assembled = 0
    /\ AsExpected
    /\ assembled' = MapThenSumSet(LAMBDA n : stored[n], Numbers)
    /\ UNCHANGED <<session, stored>>

Next == CompleteUpload \/ \E n \in Numbers : PutPart(n)

Spec == Init /\ [][Next]_vars

-----------------------------------------------------------------------------
\* Every session that is created fits S3's limits: between 1 and 10000 parts,
\* none larger than 5 GiB and none but the last smaller than 5 MiB.  So
\* get_part_range, which checks all of this again, never raises for a part of
\* the session, and storage does not answer EntityTooSmall at completion.
PartsWithinLimits ==
    Created =>
        /\ session.partCount \in 1 .. MaxPartCount
        /\ \A n \in Numbers :
              /\ Expected(n) \in 1 .. MaxPartSize
              /\ n < session.partCount => Expected(n) >= MinPartSize

\* The ranges handed out cut the file: they begin at its first byte, each one
\* begins where the one before ended, and the last ends at the file's end.
RangesTile ==
    Created =>
        /\ Start(1) = 0
        /\ End(session.partCount) = session.file
        /\ \A n \in Numbers \ {session.partCount} : Start(n + 1) = End(n)

\* What completion lets storage assemble has the size of the file, whichever
\* parts were too short or too long on the way.
AssembledIsFile == assembled # 0 => assembled = session.file

\* An automatic part size is refused only for a file that no cut into
\* MaxPartCount parts of MaxPartSize could hold.
RefusedOnlyIfTooLarge ==
    ~Created /\ session.requested = Automatic
        => session.file > MaxPartCount * MaxPartSize

=============================================================================
