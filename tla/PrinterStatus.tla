---------------------------- MODULE PrinterStatus ---------------------------
(***************************************************************************)
(* printer_status and readmore of apue.3e/printer/printd.c: parse the      *)
(* printer's HTTP and IPP response, which may arrive in several reads.     *)
(*                                                                         *)
(* The response is a sequence of byte classes: a status line as one byte   *)
(* ("K" success, "I" informational, "E" error, "Z" malformed), "L" the     *)
(* Content-Length header up to its carriage return, "n" and "r" newline    *)
(* and carriage return, "x" any other header byte, and the bytes of the    *)
(* IPP answer.  i is cp - bp, so buf[i + 1] is *cp.                        *)
(***************************************************************************)
EXTENDS Naturals, Sequences

CONSTANTS
  Conversations, \* [reads : what successive read calls return, ok : BOOLEAN]
  Success,       \* the IPP answer that says this job was accepted
  Failures       \* the other complete IPP answers

StatusAssumption ==
  /\ \A a \in Failures : Len(a) = Len(Success)
  /\ \A c \in Conversations : c.ok \in BOOLEAN

VARIABLES
  conv,  \* the conversation
  rest,  \* the reads still to come; then the printer is silent
  pc, buf, i, datsz, result

vars == <<conv, rest, pc, buf, i, datsz, result>>

len == Len(Success)  \* the value of Content-Length

Init ==
  /\ conv \in Conversations
  /\ rest = conv.reads
  /\ pc = "status" /\ buf = <<>> /\ i = 0 /\ datsz = 0 /\ result = FALSE

\* Bytes of the buffer nothing was read into.
Garbage(j) == j > Len(buf) \/ buf[j] = "?"

\* The outer loop: tread with 5 seconds, then the status line.  Informational
\* and malformed answers are dropped with everything that came in their read.
ReadStatus ==
  /\ pc = "status" /\ rest # <<>>
  /\ rest' = Tail(rest)
  /\ buf' = Head(rest) /\ datsz' = Len(buf') /\ i' = 1
  /\ pc' = CASE buf'[1] = "K" -> "length" [] buf'[1] = "E" -> "done" [] OTHER -> "status"
  /\ UNCHANGED <<conv, result>>

\* Where more header is wanted, and where the parse goes on after it came.
NeedMore == \/ pc \in {"length", "gap", "found"} /\ i >= datsz
            \/ pc = "body" /\ i + len > datsz
After == [length |-> "length", gap |-> "end", found |-> "body", body |-> "ipp"]

\* A read of piece p into the buffer at offset off.
ReadAt(p, off) ==
  [j \in 1..(IF off + Len(p) > Len(buf) THEN off + Len(p) ELSE Len(buf)) |->
     IF j > off /\ j <= off + Len(p) THEN p[j - off]
     ELSE IF j <= Len(buf) THEN buf[j] ELSE "?"]

\* readmore reads at offset i and returns i + nr, and the caller adds that to datsz.
readmore ==
  /\ NeedMore /\ rest # <<>>
  /\ buf' = ReadAt(Head(rest), i)
  /\ datsz' = datsz + i + Len(Head(rest))
  /\ rest' = Tail(rest)
  /\ pc' = After[pc]
  /\ UNCHANGED <<conv, i, result>>

\* tread or readmore returns -1: goto out
GiveUp ==
  /\ rest = <<>> /\ (NeedMore \/ pc = "status")
  /\ pc' = "done"
  /\ UNCHANGED <<conv, rest, buf, i, datsz, result>>

Enough ==
  /\ pc \in {"gap", "found", "body"} /\ ~NeedMore
  /\ pc' = After[pc]
  /\ UNCHANGED <<conv, rest, buf, i, datsz, result>>

\* search for Content-Length
FindLength ==
  /\ pc = "length" /\ i < datsz
  /\ i' = i + 1
  /\ pc' = IF i < Len(buf) /\ buf[i + 1] = "L" THEN "gap" ELSE "length"
  /\ UNCHANGED <<conv, rest, buf, datsz, result>>

\* Look for the empty line that ends the header.  Garbage may look like it.  The
\* scan stops two bytes before datsz, and more is read only from datsz on: with
\* no empty line in between, the loop goes on for ever without a step.
FindEnd ==
  LET here == \A k \in 1..3 : ~Garbage(i + k) /\ buf[i + k] = <<"n", "r", "n">>[k]
      junk == \E k \in 1..3 : Garbage(i + k)
  IN /\ pc = "end" /\ i + 2 < datsz
     /\ \/ (here \/ junk) /\ i' = i + 3 /\ pc' = "found"
        \/ ~here /\ i' = i + 1 /\ pc' = "end"
     /\ UNCHANGED <<conv, rest, buf, datsz, result>>

\* the IPP header at cp: anything but a complete answer is garbage
Ipp ==
  LET a == IF i + len <= Len(buf) THEN SubSeq(buf, i + 1, i + len) ELSE <<>>
  IN /\ pc = "ipp"
     /\ result' \in IF a = Success THEN {TRUE}
                    ELSE IF a \in Failures THEN {FALSE} ELSE BOOLEAN
     /\ pc' = "done"
     /\ UNCHANGED <<conv, rest, buf, i, datsz>>

Next == ReadStatus \/ readmore \/ GiveUp \/ Enough \/ FindLength \/ FindEnd \/ Ipp

Spec == Init /\ [][Next]_vars
\* the printer thread is scheduled
FairSpec == Spec /\ WF_vars(Next)
-----------------------------------------------------------------------------
(* Properties. *)

(* printer_status returns 1 if and only if the printer accepted this job: the
   files of a job are removed only then, and it is printed again otherwise. *)
StatusRight == pc = "done" => result = conv.ok

(* printer_status returns, whatever the printer sends and when it stops. *)
Returns == <>(pc = "done")
=============================================================================
