----------------------------- MODULE MemStream ------------------------------
(***************************************************************************)
(* Streams on a memory buffer: fmemopen of exercises/fmemopen.c and        *)
(* my_fmemopen of Chapter05/exercise_7.c.  file is what the caller believes*)
(* in: a write replaces or extends it where the stream stands, and nothing *)
(* else changes it.                                                        *)
(***************************************************************************)
EXTENDS Integers, Sequences, FiniteSetsExt

CONSTANTS
  Size,    \* the size of the buffer
  Modes,   \* values of the mode argument to consider
  MaxOps   \* bound on the calls on the stream

VARIABLES
  mode,    \* how the stream was opened
  buf,     \* the buffer
  vsize,   \* its virtual size
  curpos,  \* the current position
  file,    \* what the caller has in the file
  nops     \* calls so far

vars == <<mode, buf, vsize, curpos, file, nops>>

MemAssumption == Size \in Nat \ {0} /\ MaxOps \in Nat

\* The flags of a mode; "my" is exercise_7.c, which ignores the mode.
type_to_flags(m) ==
  CASE m = "r" -> {"READ"}            [] m = "r+" -> {"READ", "WRITE"}
    [] m = "w" -> {"WRITE", "TRUNCATE"} [] m = "w+" -> {"READ", "WRITE", "TRUNCATE"}
    [] m = "a" -> {"APPEND"}          [] m = "a+" -> {"READ", "WRITE", "APPEND"}
    [] m = "my" -> {"READ", "WRITE"}
Has(f) == f \in type_to_flags(mode)
Both == {"READ", "WRITE"} \subseteq type_to_flags(mode)

\* The first null byte, or the end of the buffer.
find_end(b) == Min({k - 1 : k \in {j \in DOMAIN b : b[j] = 0}} \cup {Len(b)})

fmemopen ==
  /\ curpos = IF Has("APPEND") THEN find_end(buf) ELSE 0
  /\ vsize = IF Has("APPEND") THEN find_end(buf) ELSE IF Has("TRUNCATE") THEN 0 ELSE Size

Op == nops < MaxOps /\ nops' = nops + 1
-----------------------------------------------------------------------------
\* mstream_read, mem_read: up to n bytes, from the position to the end.
mstream_read(n) ==
  /\ Op /\ Has("READ")
  /\ curpos' = IF curpos >= vsize THEN curpos ELSE curpos + Min({n, vsize - curpos})
  /\ UNCHANGED <<mode, buf, vsize, file>>

\* mstream_write: as many of the n bytes v as fit, then perhaps a null byte.
Put(b, off, n, v) == [k \in DOMAIN b |-> IF k \in (off + 1)..(off + n) THEN v ELSE b[k]]

terminate(b, pos, grown) ==
  IF ~Has("READ") THEN [b EXCEPT ![IF pos < Size THEN pos + 1 ELSE Size] = 0]
  ELSE IF mode # "my" /\ grown /\ Both /\ pos < Size THEN [b EXCEPT ![pos + 1] = 0]
  ELSE b

Offset == IF Has("APPEND") THEN vsize ELSE curpos

room(off, n) == Min({n, Size - off})

mstream_write(n, v) ==
  LET nw == room(Offset, n)
      pos == Offset + nw
  IN  /\ Op /\ (Has("WRITE") \/ Has("APPEND"))
      /\ curpos' = pos
      /\ vsize' = Max({vsize, pos})
      /\ buf' = terminate(Put(buf, Offset, nw, v), pos, pos > vsize)
      /\ file' = [k \in 1..Max({Len(file), pos}) |->
                   IF k \in (Offset + 1)..pos THEN v ELSE file[k]]
      /\ UNCHANGED mode

\* mstream_seek: anywhere up to the end; mem_seek: not to the end itself.  What
\* they return to stdio (mem_seek 0, and not the position) is left out.
Seekable(off) == off >= 0 /\ (off < vsize \/ (off = vsize /\ mode # "my"))

mstream_seek(pos, whence) ==
  LET off == CASE whence = "SET" -> pos
               [] whence = "END" -> vsize + pos
               [] whence = "CUR" -> curpos + pos
  IN  /\ Op /\ Seekable(off)
      /\ curpos' = off
      /\ UNCHANGED <<mode, buf, vsize, file>>
-----------------------------------------------------------------------------
Init ==
  /\ mode \in Modes
  /\ buf \in {[k \in 1..Size |-> IF k <= n THEN 9 ELSE 0] : n \in 0..Size}
  /\ fmemopen
  /\ file = SubSeq(buf, 1, vsize) /\ nops = 0

Next ==
  \/ \E n \in 1..2 : mstream_read(n) \/ \E v \in 1..2 : mstream_write(n, v)
  \/ \E whence \in {"SET", "CUR", "END"}, pos \in -2..2 : mstream_seek(pos, whence)
-----------------------------------------------------------------------------
\* Whatever the order of reads, writes and seeks, the position and both sizes
\* stay within the buffer, and a stream open for both holds the bytes that
\* were written and no others.  (Without "+", the null byte that follows each
\* write replaces a byte written before it.)
FileKept ==
  /\ curpos \in 0..vsize /\ vsize \in 0..Size
  /\ Both => SubSeq(buf, 1, vsize) = file

\* A stream that is only written leaves a string in the buffer, also when the
\* buffer is full.
Terminated ==
  ~Has("READ") /\ (\E k \in 1..Size : buf[k] \in 1..2) => \E k \in 1..Size : buf[k] = 0
=============================================================================
