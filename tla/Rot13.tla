------------------------------- MODULE Rot13 -------------------------------
(* advio/rot13c2.c: a file is translated block by block with asynchronous    *)
(* reads and writes, NBUF of them in flight.  main goes round the buffers    *)
(* and sleeps in aio_suspend when it has been through all of them; the       *)
(* operations complete in any order, and a read of the last block is short.  *)
(* A block is its number, plain or translated; sizes are in half blocks, so  *)
(* that BSZ is 2 and a file can end inside a block.                          *)
EXTENDS Naturals

CONSTANTS NBUF, MaxSize,
          MaxFail       \* operations that may fail or come back short

VARIABLES st_size, off, i, numop,
          bufs,         \* per buffer: op, last, aio_offset, aio_nbytes, data, done, n
          aiolist,      \* the buffers aio_suspend waits for
          out,          \* the output file: offset to what was written there
          pc, fails

vars == <<st_size, off, i, numop, bufs, aiolist, out, pc, fails>>

BSZ  == 2
Bufs == 0 .. NBUF - 1

Rot13Assumption == NBUF \in Nat \ {0} /\ {MaxSize, MaxFail} \subseteq Nat

Unused == [op |-> "UNUSED", last |-> FALSE, at |-> 0, nbytes |-> 0, data |-> "none", done |-> FALSE, n |-> 0]

Init == /\ st_size \in 0 .. MaxSize
        /\ off = 0 /\ i = 0 /\ numop = 0
        /\ bufs = [b \in Bufs |-> Unused] /\ aiolist = {} /\ out = {}
        /\ pc = "scan" /\ fails = 0

Least(x, y) == IF x < y THEN x ELSE y

(* After buffer i: the next one, or the end of the round.                    *)
NextBuf == IF i < NBUF - 1 THEN i' = i + 1 /\ pc' = "scan" ELSE i' = 0 /\ pc' = "round"

At(op) == pc = "scan" /\ bufs[i].op = op

aio_read == /\ At("UNUSED") /\ off < st_size
            /\ bufs' = [bufs EXCEPT ![i] = [op |-> "READ_PENDING", last |-> @.last \/ off + BSZ >= st_size,
                                            at |-> off, nbytes |-> BSZ, data |-> @.data, done |-> FALSE, n |-> 0]]
            /\ off' = off + BSZ
            /\ aiolist' = aiolist \cup {i} /\ numop' = numop + 1
            /\ NextBuf
            /\ UNCHANGED <<st_size, out, fails>>

NothingToRead == /\ At("UNUSED") /\ off >= st_size
                 /\ NextBuf
                 /\ UNCHANGED <<st_size, off, numop, bufs, aiolist, out, fails>>

InProgress == /\ pc = "scan" /\ bufs[i].op # "UNUSED" /\ ~ bufs[i].done
              /\ NextBuf
              /\ UNCHANGED <<st_size, off, numop, bufs, aiolist, out, fails>>

Quits == /\ pc' = "failed"
         /\ UNCHANGED <<st_size, off, i, numop, bufs, aiolist, out, fails>>

(* A read is complete: translate the buffer and write it where it was read.  *)
ShortRead == bufs[i].n # BSZ /\ ~ bufs[i].last
aio_write == /\ At("READ_PENDING") /\ bufs[i].done /\ ~ ShortRead
             /\ bufs' = [bufs EXCEPT ![i].op = "WRITE_PENDING", ![i].nbytes = bufs[i].n,
                                     ![i].data = "rot13", ![i].done = FALSE]
             /\ NextBuf
             /\ UNCHANGED <<st_size, off, numop, aiolist, out, fails>>

(* A write is complete: the buffer is free again.                            *)
ShortWrite == bufs[i].n # bufs[i].nbytes
WriteDone == /\ At("WRITE_PENDING") /\ bufs[i].done /\ ~ ShortWrite
             /\ bufs' = [bufs EXCEPT ![i].op = "UNUSED"]
             /\ aiolist' = aiolist \ {i} /\ numop' = numop - 1
             /\ NextBuf
             /\ UNCHANGED <<st_size, off, out, fails>>

GivesUp == /\ pc = "scan" /\ bufs[i].done
           /\ (At("READ_PENDING") /\ ShortRead) \/ (At("WRITE_PENDING") /\ ShortWrite)
           /\ Quits

(* The end of a round: leave the loop, or sleep until an operation on        *)
(* aiolist is complete.                                                      *)
RoundDone_early == numop = 0 \/ off >= st_size
RoundDone == numop = 0 /\ off >= st_size

Round == /\ pc = "round"
         /\ \/ RoundDone /\ pc' = "exit"
            \/ ~ RoundDone /\ numop = 0 /\ pc' = "scan"
            \/ ~ RoundDone /\ numop # 0 /\ (\E b \in aiolist : bufs[b].done) /\ pc' = "scan"
         /\ UNCHANGED <<st_size, off, i, numop, bufs, aiolist, out, fails>>

----------------------------------------------------------------------------
(* The system completes an operation, whole or in part, or not at all.       *)
Wanted(b)   == IF bufs[b].op = "READ_PENDING" THEN Least(BSZ, st_size - bufs[b].at) ELSE bufs[b].nbytes
Written(b, n) == IF bufs[b].op = "WRITE_PENDING"
                   THEN out \cup {[at |-> bufs[b].at + k, is |-> bufs[b].data] : k \in 0 .. n - 1} ELSE out

Complete(b, n) == /\ pc \in {"scan", "round"} /\ b \in aiolist /\ ~ bufs[b].done
                  /\ bufs' = [bufs EXCEPT ![b].done = TRUE, ![b].n = n,
                                          ![b].data = IF bufs[b].op = "READ_PENDING" THEN "plain" ELSE @]
                  /\ out' = Written(b, n)
                  /\ UNCHANGED <<st_size, off, i, numop, aiolist, pc>>

Completes == \E b \in Bufs : Complete(b, Wanted(b)) /\ UNCHANGED fails
Short     == /\ fails < MaxFail /\ fails' = fails + 1
             /\ \E b \in Bufs : Wanted(b) > 0 /\ Complete(b, Wanted(b) - 1)

Main == aio_read \/ NothingToRead \/ InProgress \/ aio_write \/ WriteDone \/ GivesUp \/ Round
Next == Main \/ Completes \/ Short

----------------------------------------------------------------------------
(* When main leaves its loop every byte of the input is in the output,       *)
(* translated, at its own offset, and nothing is in flight: no buffer is     *)
(* used again before its write is complete.  A short read of the last block  *)
(* passes for the end of the file, so a read that fails there is not seen.   *)
Translated ==
  pc = "exit" => /\ \A b \in Bufs : bufs[b].op = "UNUSED"
                 /\ \A x \in out : x.is = "rot13"
                 /\ fails = 0 => {x.at : x \in out} = 0 .. st_size - 1

(* main is still at work.  It must never sleep in aio_suspend with nothing   *)
(* to wait for, so numop and aiolist have to agree.                          *)
Working == pc \in {"scan", "round"}
=============================================================================
