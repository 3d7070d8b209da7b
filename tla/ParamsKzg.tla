------------------------------ MODULE ParamsKzg ------------------------------
(***************************************************************************)
(* The KZG parameters of halo2_backend/src/poly/kzg/commitment.rs and the  *)
(* two SRS files they may be moved to.  One process owns the parameters    *)
(* and makes any sequence of calls on them; a call may fail or panic, and  *)
(* the process may die between any two writes and be started again over    *)
(* the files it left, with the same parameters or with others.             *)
(*                                                                         *)
(* A base is a member of a set: the i-th power of a secret, or the i-th    *)
(* Lagrange basis element of a secret and a domain size.  What a commit    *)
(* computes is decided by the bases it uses, so its value is their         *)
(* sequence (the multi-scalar multiplication itself is MsmOoc).            *)
(*                                                                         *)
(* enable_streaming over the files of another SRS replaces them one after  *)
(* the other; where it is stopped between the two, the note beside them    *)
(* and their points are of two SRS, and nothing that reads them looks.     *)
(* The history variable mixed keeps track of what may hold such points; no *)
(* action reads it.                                                        *)
(***************************************************************************)
EXTENDS Integers, Sequences, PowersOfTwo

CONSTANTS
  MaxK,    \* largest domain exponent
  Secrets, \* the secrets setup may draw
  Calls    \* which of the calls in Delicate the process may make

(* Calls the code accepts without looking: enable_streaming of parameters
   that stream already, and write_custom of parameters that stream. *)
Delicate == {"move_again", "write_moved"}

ASSUME ParamsAssumption == MaxK \in Nat /\ Calls \subseteq Delicate

VARIABLES
  params,  \* the parameters, or NoParams
  files,   \* what is in the file of g and in that of g_lagrange
  meta,    \* the generator's note of k and s_g2 beside the files
  buffer,  \* what write_custom wrote last, of what, and whether all of it
  pc,      \* "idle", or the write enable_streaming is at
  result,  \* what the last call returned
  mixed    \* history: which of "params", "files" and "buffer" may hold the
           \* points of two SRS

vars == <<params, files, meta, buffer, pc, result, mixed>>

-----------------------------------------------------------------------------
Powers(secret, k)   == [i \in 1 .. Pow2[k] |-> <<"pow", secret, i>>]
Lagrange(secret, k) == [i \in 1 .. Pow2[k] |-> <<"lag", secret, k, i>>]

NoParams == [k |-> 0, secret |-> << >>, g |-> << >>, gl |-> << >>,
             streaming |-> "no", alive |-> FALSE]
InRam(k, secret, g, gl) ==
  [k |-> k, secret |-> secret, g |-> g, gl |-> gl,
   streaming |-> "no", alive |-> TRUE]

(* g_to_lagrange: its FFT asserts that there are 2^k points. *)
Transformable(g, k) == Len(g) = Pow2[k]
ToLagrange(g, k)    == Lagrange(g[1][2], k)

Nothing         == [call |-> "none", status |-> "ok", used |-> << >>, of |-> << >>]
Returned(call)  == [Nothing EXCEPT !.call = call]
Failed(call)    == [Nothing EXCEPT !.call = call, !.status = "err"]
Panicked(call)  == [Nothing EXCEPT !.call = call, !.status = "panic"]

Idle == params.alive /\ pc = "idle"

Init ==
  /\ params = NoParams
  /\ files = [g |-> << >>, gl |-> << >>]
  /\ meta = << >>
  /\ buffer = [data |-> << >>, of |-> << >>, complete |-> FALSE]
  /\ pc = "idle" /\ result = Nothing /\ mixed = {}

(* What is copied is as mixed as what it is copied from. *)
Inherit(to, from) ==
  mixed' = IF from \in mixed THEN mixed \cup {to} ELSE mixed \ {to}

-----------------------------------------------------------------------------
(* Constructors. *)

(* setup draws a secret and computes both bases from it; from_parts is given
   the powers and computes the Lagrange basis. *)
Setup(k, secret) ==
  /\ ~params.alive
  /\ \/ params' = InRam(k, secret, Powers(secret, k), Lagrange(secret, k))
     \/ LET g == Powers(secret, k)
        IN  params' = InRam(k, secret, g, ToLagrange(g, k))
  /\ result' = Returned("setup")
  /\ mixed' = mixed \ {"params"}
  /\ UNCHANGED <<files, meta, buffer, pc>>

(* read_bases takes the first 2^k records of both files, or fails. *)
FromRawSrs ==
  /\ ~params.alive /\ meta # << >>
  /\ LET k == meta[1]
         n == Pow2[k]
     IN  IF Len(files.g) >= n /\ Len(files.gl) >= n
           THEN /\ params' = InRam(k, meta[2], SubSeq(files.g, 1, n),
                                   SubSeq(files.gl, 1, n))
                /\ result' = Returned("from_raw_srs") /\ Inherit("params", "files")
           ELSE /\ result' = Failed("from_raw_srs") /\ UNCHANGED <<params, mixed>>
  /\ UNCHANGED <<files, meta, buffer, pc>>

(* streaming_params looks at no file. *)
StreamingParams ==
  /\ ~params.alive /\ meta # << >>
  /\ params' = [InRam(meta[1], meta[2], << >>, << >>) EXCEPT !.streaming = "opened"]
  /\ result' = Returned("streaming_params") /\ Inherit("params", "files")
  /\ UNCHANGED <<files, meta, buffer, pc>>

(* k, the two vectors element by element, g2 and s_g2. *)
Written(g, gl) == <<params.k>> \o g \o gl \o <<<<"g2", params.secret>>>>

Write(data) ==
  /\ Idle
  /\ params.streaming = "no" \/ "write_moved" \in Calls
  /\ \/ /\ buffer' = [data |-> data, of |-> <<params.k, params.secret>>,
                       complete |-> TRUE]
        /\ result' = Returned("write")
     \/ \E m \in 0 .. Len(data) - 1 :   \* the writer fails
          /\ buffer' = [data |-> SubSeq(data, 1, m),
                        of |-> <<params.k, params.secret>>, complete |-> FALSE]
          /\ result' = Failed("write")
  /\ Inherit("buffer", "params")
  /\ UNCHANGED <<params, files, meta, pc>>

(* fault: the Lagrange basis is not written *)
WriteCustomPowersOnly == Write(Written(params.g, << >>))

WriteCustom == Write(Written(params.g, params.gl))

(* read_custom takes 2^k points, 2^k points and the rest; a point of the
   other group does not decode. *)
Readable(data) ==
  /\ data # << >>
  /\ Len(data) = 2 * Pow2[data[1]] + 2
  /\ \A i \in 2 .. Len(data) - 1 : data[i][1] # "g2"

ReadCustom ==
  /\ ~params.alive
  /\ LET data == buffer.data
         n == Pow2[data[1]]
     IN  IF Readable(data)
           THEN /\ params' = InRam(data[1], data[2 * n + 2][2], SubSeq(data, 2, n + 1),
                                   SubSeq(data, n + 2, 2 * n + 1))
                /\ result' = Returned("read") /\ Inherit("params", "buffer")
           ELSE /\ result' = Failed("read") /\ UNCHANGED <<params, mixed>>
  /\ UNCHANGED <<files, meta, buffer, pc>>

-----------------------------------------------------------------------------
(* fault: the Lagrange basis is truncated like the powers *)
DownsizeTruncate(k) ==
  /\ Idle /\ k <= params.k
  /\ LET g == IF Len(params.g) > Pow2[k] THEN SubSeq(params.g, 1, Pow2[k]) ELSE params.g
     IN  IF Transformable(g, k)
           THEN /\ params' = [params EXCEPT !.k = k, !.g = g,
                                !.gl = SubSeq(params.gl, 1, Pow2[k])]
                /\ result' = Returned("downsize")
           ELSE /\ params' = NoParams /\ result' = Panicked("downsize")
  /\ UNCHANGED <<files, meta, buffer, pc, mixed>>

(* fault: the powers are not truncated *)
DownsizeKeepPowers(k) ==
  /\ Idle /\ k <= params.k
  /\ LET g == IF Len(params.g) > Pow2[k] THEN SubSeq(params.g, 1, Pow2[k]) ELSE params.g
     IN  IF Transformable(g, k)
           THEN /\ params' = [params EXCEPT !.k = k, !.gl = ToLagrange(g, k)]
                /\ result' = Returned("downsize")
           ELSE /\ params' = NoParams /\ result' = Panicked("downsize")
  /\ UNCHANGED <<files, meta, buffer, pc, mixed>>

(* downsize: k, n, g.truncate(n), then a new Lagrange basis from g. *)
Downsize(k) ==
  /\ Idle /\ k <= params.k
  /\ LET g == IF Len(params.g) > Pow2[k] THEN SubSeq(params.g, 1, Pow2[k]) ELSE params.g
     IN  IF Transformable(g, k)
           THEN /\ params' = [params EXCEPT !.k = k, !.g = g, !.gl = ToLagrange(g, k)]
                /\ result' = Returned("downsize")
           ELSE /\ params' = NoParams /\ result' = Panicked("downsize")
  /\ UNCHANGED <<files, meta, buffer, pc, mixed>>

-----------------------------------------------------------------------------
(* enable_streaming.  The generator notes k and s_g2 beside the files before
   the call; write_bases creates the file, empty, and then writes, whatever is
   there under its name. *)
Overwrites == /\ files # [g |-> << >>, gl |-> << >>]
              /\ meta # <<params.k, params.secret>>

Note ==
  /\ Idle
  /\ params.streaming = "no" \/ "move_again" \in Calls
  /\ mixed' = IF Overwrites \/ "params" \in mixed THEN mixed \cup {"files"} ELSE mixed
  /\ meta' = <<params.k, params.secret>>
  /\ pc' = "create_g"
  /\ UNCHANGED <<params, files, buffer, result>>

CreateG ==
  /\ pc = "create_g"
  /\ files' = [files EXCEPT !.g = << >>]
  /\ pc' = "write_g"
  /\ UNCHANGED <<params, meta, buffer, result, mixed>>

WriteG ==
  /\ pc = "write_g"
  /\ files' = [files EXCEPT !.g = params.g]
  /\ pc' = "create_gl"
  /\ UNCHANGED <<params, meta, buffer, result, mixed>>

(* fault: the powers are dropped as soon as they are on disk *)
CreateGlDropG ==
  /\ pc = "create_gl"
  /\ files' = [files EXCEPT !.gl = << >>]
  /\ params' = [params EXCEPT !.g = << >>]
  /\ pc' = "write_gl"
  /\ UNCHANGED <<meta, buffer, result, mixed>>

CreateGl ==
  /\ pc = "create_gl"
  /\ files' = [files EXCEPT !.gl = << >>]
  /\ pc' = "write_gl"
  /\ UNCHANGED <<params, meta, buffer, result, mixed>>

(* The second file is complete: the vectors are dropped and commits stream. *)
WriteGl ==
  /\ pc = "write_gl"
  /\ files' = [files EXCEPT !.gl = params.gl]
  /\ params' = [params EXCEPT !.g = << >>, !.gl = << >>, !.streaming = "moved"]
  /\ pc' = "idle" /\ result' = Returned("enable_streaming")
  /\ Inherit("files", "params")
  /\ UNCHANGED <<meta, buffer>>

(* A write that stops half way leaves a prefix of the points in the file. *)
Torn(name, points) ==
  \E m \in 0 .. Len(points) : files' = [files EXCEPT ![name] = SubSeq(points, 1, m)]

TornWrite == CASE pc = "write_g"   -> Torn("g", params.g)
               [] pc = "write_gl"  -> Torn("gl", params.gl)
               [] OTHER            -> UNCHANGED files

(* The "?" of a create or a write: the parameters are as they were. *)
EnableFails ==
  /\ pc # "idle"
  /\ TornWrite
  /\ pc' = "idle" /\ result' = Failed("enable_streaming")
  /\ UNCHANGED <<params, meta, buffer, mixed>>

(* The process ends or is killed, at any point. *)
Exit ==
  /\ params.alive
  /\ TornWrite
  /\ params' = NoParams /\ pc' = "idle" /\ result' = Nothing
  /\ UNCHANGED <<meta, buffer, mixed>>

-----------------------------------------------------------------------------
(* commit and commit_lagrange.  msm_ooc_bases takes the first len records of
   the file and fails if there are fewer, which the caller's expect turns
   into a panic; in RAM the assert on the number of bases does the same. *)
Source(name) == IF params.streaming # "no" THEN files[name]
                ELSE IF name = "g" THEN params.g ELSE params.gl

(* fault: a short file is not noticed *)
UseShort(call, name, len) ==
  /\ Idle
  /\ result' = [Returned(call) EXCEPT
                  !.used = SubSeq(Source(name), 1,
                                  IF len < Len(Source(name)) THEN len
                                  ELSE Len(Source(name))),
                  !.of = <<params.secret, params.k, len>>]
  /\ UNCHANGED <<params, files, meta, buffer, pc, mixed>>

Use(call, name, len) ==
  /\ Idle
  /\ IF Len(Source(name)) >= len
       THEN /\ result' = [Returned(call) EXCEPT
                            !.used = SubSeq(Source(name), 1, len),
                            !.of = <<params.secret, params.k, len>>]
            /\ UNCHANGED params
       ELSE /\ params' = NoParams /\ result' = Panicked(call)
  /\ UNCHANGED <<files, meta, buffer, pc, mixed>>

(* A polynomial in coefficient form may be shorter than the domain, its
   evaluations are as many as the domain has points. *)
Commit         == \E len \in 1 .. Pow2[params.k] : Use("commit", "g", len)
CommitLagrange == Use("commit_lagrange", "gl", Pow2[params.k])

Construct == \/ \E k \in 0 .. MaxK, secret \in Secrets : Setup(k, secret)
             \/ FromRawSrs \/ StreamingParams \/ ReadCustom

EnableStreaming == Note \/ CreateG \/ WriteG \/ CreateGl \/ WriteGl \/ EnableFails

Next == \/ Construct \/ EnableStreaming \/ WriteCustom \/ Exit
        \/ \E k \in 0 .. MaxK : Downsize(k)
        \/ Commit \/ CommitLagrange

Spec == Init /\ [][Next]_vars

-----------------------------------------------------------------------------
(* The correct bases of an object, and of a commitment. *)
RightG(p)  == Powers(p.secret, p.k)
RightGl(p) == Lagrange(p.secret, p.k)

(* The vectors and the domain size go together: an object in RAM holds 2^k
   points of either kind, one that streams holds none. *)
TypeOK ==
  /\ params.k \in 0 .. MaxK
  /\ params.streaming \in {"no", "moved", "opened"}
  /\ LET n == IF params.alive /\ params.streaming = "no" THEN Pow2[params.k] ELSE 0
     IN  Len(params.g) = n /\ Len(params.gl) = n
  /\ pc \in {"idle", "create_g", "write_g", "create_gl", "write_gl"}
  /\ pc # "idle" => params.alive
  /\ mixed \subseteq {"params", "files", "buffer"}

(* An object whose bases are in RAM holds the right ones, whether it was set
   up, read from a buffer or from the files, downsized, or left behind by an
   enable_streaming that failed half way. *)
HoldsItsBases ==
  params.alive /\ params.streaming = "no" /\ "params" \notin mixed =>
    params.g = RightG(params) /\ params.gl = RightGl(params)

(* Parameters moved to disk are there: both files hold all the bases, so the
   next commit of the same process finds what it dropped from RAM. *)
SrsMoved ==
  params.streaming = "moved" /\ pc = "idle" /\ "params" \notin mixed =>
    files = [g |-> RightG(params), gl |-> RightGl(params)]

(* Wherever the bases are, in RAM or in both files, they are all there and the
   right ones: no call but a second enable_streaming, finished or failed half
   way, leaves fewer. *)
BasesKept == HoldsItsBases /\ SrsMoved

(* A commitment that is returned used the first bases of the SRS and of the
   domain its parameters claim (commitment.rs:399-401: moving the bases to
   disk leaves the committed points unchanged). *)
CommitmentsExact ==
  result.status = "ok" /\ result.of # << >> =>
    LET secret == result.of[1]
        k == result.of[2]
        len == result.of[3]
    IN  result.used = SubSeq(IF result.call = "commit" THEN Powers(secret, k)
                             ELSE Lagrange(secret, k), 1, len)

(* A commitment that is returned is exact, its bases taken from RAM or from a
   file, be the file a killed process's or one that replaced those of another
   SRS.  The one exception is an object made from files in which such a
   replacement was stopped before its last write, or from a dump of such an
   object. *)
CommitmentsRight == "params" \notin mixed => CommitmentsExact

(* What write_custom wrote to its end read_custom takes back, as parameters
   of the same size and secret. *)
WrittenReadsBack ==
  result.call = "read" /\ buffer.complete =>
    result.status = "ok" /\ <<params.k, params.secret>> = buffer.of
=============================================================================
