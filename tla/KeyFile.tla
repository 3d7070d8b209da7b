-------------------------------- MODULE KeyFile ------------------------------
(***************************************************************************)
(* Files of keys (halo2_backend/src/plonk.rs, helpers.rs): a verifying or  *)
(* a proving key is written section by section in one of three formats,    *)
(* the writer may fail at any byte, and what is in the file is read back   *)
(* with the constraint system the reader has, which is not in the file.    *)
(*                                                                         *)
(* A file is a sequence of tokens <<form, value, half>>: one byte of an    *)
(* integer, or Word bytes of a field element or of a point.  A point is    *)
(* one word compressed and two raw.  A polynomial is the sequence of its   *)
(* values.  read_raw_unchecked (halo2curves) panics at the end of a file.  *)
(***************************************************************************)
EXTENDS Integers, Sequences, SequencesExt, FiniteSetsExt, TLC

CONSTANTS
  MaxSize,  \* S of the scalar field: the largest k
  FileJobs  \* a key, what of it is written, the formats, and the reader's cs

VARIABLES
  fileJob,
  file,      \* tokens
  section,   \* the section that is written or read next
  position,  \* of the reader
  got,       \* what is read, by section
  repr,      \* transcript_repr of the key that is read
  returned,  \* by the reader: "ok", "error" or "panic"
  fileStage  \* "write", then what file the reader is given

fileVars == <<fileJob, file, section, position, got, repr, returned, fileStage>>

Word    == 32
Version == 4

VerifyingSections == <<"version", "k", "fixed", "permutation">>
PolynomialSections == <<"l0", "l_last", "l_active_row">>
VectorSections == <<"fixed_values", "fixed_polys", "fixed_cosets", "permutations", "polys", "cosets">>
Sections == IF fileJob.proving THEN VerifyingSections \o PolynomialSections \o VectorSections
            ELSE VerifyingSections
Current == Sections[section]

Byte(b) == <<"byte", b, 0>>
LittleEndian(n) == [i \in 1 .. 4 |-> Byte((n \div 256 ^ (i - 1)) % 256)]
BigEndian(n)    == Reverse(LittleEndian(n))

-----------------------------------------------------------------------------
(* SerdeCurveAffine::write and SerdePrimeField::write. *)
WritePoint(v, format) ==
  IF format = "Processed" THEN << <<"compressed", v, 0>> >> ELSE << <<"raw", v, 1>>, <<"raw", v, 2>> >>
WriteScalar(v, format) == IF format = "Processed" THEN << <<"standard", v, 0>> >> ELSE << <<"montgomery", v, 0>> >>

WritePoints(points, format) == FlattenSeq([i \in DOMAIN points |-> WritePoint(points[i], format)])

WritePolynomial(poly, format) ==
  BigEndian(Len(poly)) \o FlattenSeq([i \in DOMAIN poly |-> WriteScalar(poly[i], format)])

WritePolynomialSlice(slice, format) ==
  BigEndian(Len(slice)) \o FlattenSeq([i \in DOMAIN slice |-> WritePolynomial(slice[i], format)])

Written(name, format) ==
  LET key == fileJob.key
  IN  CASE name = "version"     -> <<Byte(Version)>>
        [] name = "k"           -> <<Byte(key.k)>>
        [] name = "fixed"       -> LittleEndian(Len(key.fixed)) \o WritePoints(key.fixed, format)
        [] name = "permutation" -> WritePoints(key.permutation, format)
        [] Contains(PolynomialSections, name) -> WritePolynomial(key[name], format)
        [] Contains(VectorSections, name)     -> WritePolynomialSlice(key[name], format)

WriteSection ==
  /\ fileStage = "write" /\ section <= Len(Sections)
  /\ file' = file \o Written(Current, fileJob.format) /\ section' = section + 1
  /\ UNCHANGED <<fileJob, position, got, repr, returned, fileStage>>

(* The writer returns an error after some of the section. *)
WriteFails ==
  /\ fileStage = "write" /\ section <= Len(Sections) /\ fileStage' = "cut" /\ section' = 1
  /\ LET data == Written(Current, fileJob.format)
     IN  \E n \in 0 .. Len(data) - 1 : file' = file \o SubSeq(data, 1, n)
  /\ UNCHANGED <<fileJob, position, got, repr, returned>>

WriteReturns ==
  /\ fileStage = "write" /\ section > Len(Sections) /\ fileStage' = "whole" /\ section' = 1
  /\ UNCHANGED <<fileJob, file, position, got, repr, returned>>

(* The file is of another version, or of a field with more roots of unity. *)
Another ==
  /\ fileStage = "whole" /\ position = 0 /\ returned = "" /\ fileStage' = "other"
  /\ file' \in {[file EXCEPT ![1] = Byte(Version - 1)], [file EXCEPT ![2] = Byte(MaxSize + 1)]}
  /\ UNCHANGED <<fileJob, section, position, got, repr, returned>>

-----------------------------------------------------------------------------
(* bytes_length of either key, which counts without writing. *)
PointLength(format) == IF format = "Processed" THEN Word ELSE 2 * Word

SliceLength(slice) ==
  4 + Len(slice) * (4 + Word * IF slice = << >> THEN 0 ELSE Len(slice[1]))

PermutationLength(key) == SliceLength(key.permutations) + SliceLength(key.polys) + SliceLength(key.cosets)

VerifyingLength(key, format) ==
  6 + Len(key.fixed) * PointLength(format) + Len(key.permutation) * PointLength(format)

ProvingLength(key, format) ==
  VerifyingLength(key, format) + 12 + Word * (Len(key.l0) + Len(key.l_last) + Len(key.l_active_row))
    + SliceLength(key.fixed_values) + SliceLength(key.fixed_polys) + SliceLength(key.fixed_cosets)
    + PermutationLength(key)

BytesLength(format) ==
  IF fileJob.proving THEN ProvingLength(fileJob.key, format) ELSE VerifyingLength(fileJob.key, format)

-----------------------------------------------------------------------------
(* What a reader returns: a value and where it ends, or a failure. *)
Took(value, next) == [status |-> "ok", value |-> value, next |-> next]
Failure(status)   == [status |-> status, value |-> << >>, next |-> position]

ReadBytes(at, n) ==
  IF at + n > Len(file) \/ \E i \in at + 1 .. at + n : file[i][1] # "byte" THEN Failure("error")
  ELSE Took([i \in 1 .. n |-> file[at + i][2]], at + n)

ReadLength(at, little) ==
  LET r == ReadBytes(at, 4)
  IN  IF r.status # "ok" THEN r
      ELSE Took(FoldLeft(LAMBDA acc, b : 256 * acc + b, 0, IF little THEN Reverse(r.value) ELSE r.value), r.next)

(* `n` points or field elements in a row. *)
ReadElements(at, n, form, words) ==
  IF at + n * words > Len(file) THEN Failure(IF fileJob.reads = "RawBytesUnchecked" THEN "panic" ELSE "error")
  ELSE IF \E i \in at + 1 .. at + n * words : file[i][1] # form THEN Failure("error")
  ELSE Took([i \in 1 .. n |-> file[at + (i - 1) * words + 1][2]], at + n * words)

ReadPoints(at, n) ==
  IF fileJob.reads = "Processed" THEN ReadElements(at, n, "compressed", 1) ELSE ReadElements(at, n, "raw", 2)

ReadPolynomial(at) ==
  LET length == ReadLength(at, FALSE)
  IN  IF length.status # "ok" THEN length
      ELSE ReadElements(length.next, length.value,
                        IF fileJob.reads = "Processed" THEN "standard" ELSE "montgomery", 1)

ReadPolynomialVec(at) ==
  LET length == ReadLength(at, FALSE)
      more(s) == LET r == ReadPolynomial(s.next)
                 IN  IF r.status = "ok" THEN Took(Append(s.value, r.value), r.next) ELSE r
  IN  IF length.status # "ok" THEN length
      ELSE FoldLeft(LAMBDA s, i : IF s.status = "ok" THEN more(s) ELSE s,
                    Took(<< >>, length.next), [i \in 1 .. length.value |-> i])

ReadFixed(at) ==
  LET count == ReadLength(at, TRUE)
  IN  IF count.status # "ok" THEN count ELSE ReadPoints(count.next, count.value)

(* fault: any version and any size are read *)
ReadAnyByte(at, allowed) == ReadBytes(at, 1)

(* The version must be this one, and k at most S. *)
ReadByte(at, allowed) ==
  LET r == ReadBytes(at, 1)
  IN  IF r.status = "ok" /\ r.value[1] \notin allowed THEN Failure("error") ELSE r

ReadOf(name, at) ==
  CASE name = "version"     -> ReadByte(at, {Version})
    [] name = "k"           -> ReadByte(at, 0 .. MaxSize)
    [] name = "fixed"       -> ReadFixed(at)
    [] name = "permutation" -> ReadPoints(at, fileJob.columns)
    [] Contains(PolynomialSections, name) -> ReadPolynomial(at)
    [] Contains(VectorSections, name)     -> ReadPolynomialVec(at)

Reads == fileStage \in {"whole", "cut", "other"} /\ returned = ""

ReadSection ==
  /\ Reads /\ section <= Len(Sections)
  /\ LET r == ReadOf(Current, position)
     IN  /\ r.status = "ok"
         /\ got' = (Current :> r.value) @@ got /\ position' = r.next /\ section' = section + 1
  /\ UNCHANGED <<fileJob, file, repr, returned, fileStage>>

ReadFails ==
  /\ Reads /\ section <= Len(Sections)
  /\ LET r == ReadOf(Current, position)
     IN  r.status # "ok" /\ returned' = r.status
  /\ UNCHANGED <<fileJob, file, section, position, got, repr, fileStage>>

(* from_parts: the representative is a hash, here without collisions, of the
   domain, the commitments and the constraint system. *)
FromParts ==
  /\ Reads /\ section > Len(Sections) /\ returned' = "ok"
  /\ repr' = <<got["k"][1], got["fixed"], got["permutation"], fileJob.columns>>
  /\ UNCHANGED <<fileJob, file, section, position, got, fileStage>>

-----------------------------------------------------------------------------
FileInit ==
  /\ fileJob \in FileJobs /\ file = << >> /\ section = 1 /\ position = 0
  /\ got = << >> /\ repr = << >> /\ returned = "" /\ fileStage = "write"

FileNext ==
  WriteSection \/ WriteFails \/ WriteReturns \/ Another \/ ReadSection \/ ReadFails \/ FromParts

FileSpec == FileInit /\ [][FileNext]_fileVars

-----------------------------------------------------------------------------
SizeOf(tokens) == FoldLeft(LAMBDA size, t : size + IF t[1] = "byte" THEN 1 ELSE Word, 0, tokens)

Own == fileJob.columns = Len(fileJob.key.permutation)

SameKey ==
  /\ position = Len(file)
  /\ \A name \in Range(Sections) \ {"version", "k"} : got[name] = fileJob.key[name]
  /\ repr = <<fileJob.key.k, fileJob.key.fixed, fileJob.key.permutation, fileJob.columns>>

(* plonk.rs: a key takes the bytes it says, in every format, and a file that
   was written to its end is read as the key it was written from, if the reader
   has the key's constraint system; a file that is cut anywhere, of another
   version or of too large a domain is refused.  With a constraint system of
   fewer permuted columns the verifying key reads as another key, with another
   representative. *)
KeysReadBack ==
  /\ fileStage = "whole" => SizeOf(file) = BytesLength(fileJob.format)
  /\ returned = "ok" =>
       /\ fileStage # "other"
       /\ IF Own THEN fileStage = "whole" /\ SameKey ELSE fileJob.columns < Len(fileJob.key.permutation)
  /\ returned = "error" \/ returned = "panic" =>
       fileStage # "whole" \/ fileJob.columns > Len(fileJob.key.permutation)
=============================================================================
